--------------------------- MODULE Tokenizer_proofs ---------------------------
(***************************************************************************)
(* Proofs about Tokenizer: the holding buffer of std_tokenizer() has room,  *)
(* for any lines, options and sizes. Its tokens are found again by the     *)
(* DIAMOND before each, which must not come from the input.                *)
(***************************************************************************)
EXTENDS Tokenizer, WellFoundedInduction, TLAPS

Code == 0..255
Line == Seq(Code)

LEMMA AtCode == ASSUME NEW s \in Line, NEW x PROVE At(s, x) \in Code
<1>1. 0 \in Code
  BY DEF Code
<1>2. x \in 1..Len(s) => s[x] \in Code
  BY DEF Line
<1> QED
  BY <1>1, <1>2 DEF At

-----------------------------------------------------------------------------
(* Characters. Most machines look at a character before they come to it,   *)
(* and then take it unseen: what the state says of the characters ahead.   *)

Continues(c) == c \in \h80..\hBF
Trails(c) == c \in \h31..255

Foreseen(s, x, st) ==
  /\ st = "fANSX_1" => ispunct(At(s, x))
  /\ st = "fANSX_2" => isdigit(At(s, x))
  /\ st = "fANSX_3" => Letter(At(s, x))
  /\ st = "fCUR" => isdigit(At(s, x)) \/ SET2(At(s, x))
  /\ st = "fMUL" => isalpha(At(s, x)) \/ SET1(At(s, x))
  /\ st = "fADD" => \E j \in x..Len(s) : s[j] = Greater /\ \A b \in x..j - 1 : SET3(s[b])
  /\ st = "fSEP_2" => ispunct(At(s, x))
  /\ st = "fSEP_3" => ispunct(At(s, x)) /\ At(s, x + 1) = At(s, x)
  /\ \A n \in 1..5 : st = UtfStates[n] => \A j \in 0..n - 1 : Continues(At(s, x + j))
  /\ \A n \in 1..3 : st = AsianStates[n] => \A j \in 0..n - 1 : Trails(At(s, x + j))

Unforeseeing == {"fDEF", "fSYMBOL", "fANX", "fNAX", "fSEP_1", "fCEF2_ATOM", "fCEF2_DOTTED_ATOM",
                 "fCEF2_COLON_ATOM"}

Sound(s, x, g) ==
  /\ g.good \in {"TOKEN", "TOKEN_END"} => At(s, x) # DIAMOND
  /\ Foreseen(s, x + 1, g.state)
SoundOrUndef(s, x, g) == g.good = "UNDEF" \/ Sound(s, x, g)

LEMMA NothingForeseen == ASSUME NEW s, NEW x, NEW st \in Unforeseeing PROVE Foreseen(s, x, st)
<1>1. \A n \in 1..5 : st # UtfStates[n]
  BY DEF Unforeseeing, UtfStates
<1>2. \A n \in 1..3 : st # AsianStates[n]
  BY DEF Unforeseeing, AsianStates
<1> QED
  BY <1>1, <1>2 DEF Foreseen, Unforeseeing

LEMMA TakenTo ==
  ASSUME NEW s, NEW x, NEW st \in Unforeseeing, At(s, x) # DIAMOND
  PROVE  Sound(s, x, TOKEN(st)) /\ Sound(s, x, TOKEN_END)
BY NothingForeseen DEF Sound, TOKEN, TOKEN_END, Unforeseeing

LEMMA LeftOut ==
  ASSUME NEW s, NEW x, NEW st, Foreseen(s, x + 1, st)
  PROVE  Sound(s, x, DISCARD(st)) /\ Sound(s, x, IGNORE(st))
BY DEF Sound, DISCARD, IGNORE

LEMMA LeftOutTo ==
  ASSUME NEW s, NEW x, NEW st \in Unforeseeing
  PROVE  Sound(s, x, DISCARD(st)) /\ Sound(s, x, IGNORE(st))
BY NothingForeseen, LeftOut

LEMMA TakenForeseeing ==
  ASSUME NEW s, NEW x, NEW st, Foreseen(s, x + 1, st), At(s, x) # DIAMOND
  PROVE  Sound(s, x, TOKEN(st))
BY DEF Sound, TOKEN

LEMMA Undefined == ASSUME NEW s, NEW x, NEW st PROVE SoundOrUndef(s, x, UNDEF(st))
BY DEF SoundOrUndef, UNDEF

LEMMA EitherSound ==
  ASSUME NEW s, NEW x, NEW a, NEW b, SoundOrUndef(s, x, a)
  PROVE  /\ Sound(s, x, b) => Sound(s, x, OrElse(a, b))
         /\ SoundOrUndef(s, x, b) => SoundOrUndef(s, x, OrElse(a, b))
BY DEF SoundOrUndef, OrElse

(* What one state foresees. *)
LEMMA ForeseesOne ==
  ASSUME NEW s, NEW x
  PROVE  /\ ispunct(At(s, x)) => Foreseen(s, x, "fANSX_1") /\ Foreseen(s, x, "fSEP_2")
         /\ isdigit(At(s, x)) => Foreseen(s, x, "fANSX_2")
         /\ Letter(At(s, x)) => Foreseen(s, x, "fANSX_3")
         /\ isdigit(At(s, x)) \/ SET2(At(s, x)) => Foreseen(s, x, "fCUR")
         /\ isalpha(At(s, x)) \/ SET1(At(s, x)) => Foreseen(s, x, "fMUL")
         /\ ispunct(At(s, x)) /\ At(s, x + 1) = At(s, x) => Foreseen(s, x, "fSEP_3")
         /\ (\E j \in x..Len(s) : s[j] = Greater /\ \A b \in x..j - 1 : SET3(s[b]))
              => Foreseen(s, x, "fADD")
<1> DEFINE L == {"fANSX_1", "fANSX_2", "fANSX_3", "fCUR", "fMUL", "fADD", "fSEP_2", "fSEP_3"}
<1>1. \A n \in 1..5 : UtfStates[n] \notin L
  BY DEF UtfStates
<1>2. \A n \in 1..3 : AsianStates[n] \notin L
  BY DEF AsianStates
<1>3. \A st \in L : /\ \A n \in 1..5 : st # UtfStates[n]
                    /\ \A n \in 1..3 : st # AsianStates[n]
  BY <1>1, <1>2
<1>4. /\ ispunct(At(s, x)) => Foreseen(s, x, "fANSX_1") /\ Foreseen(s, x, "fSEP_2")
      /\ isdigit(At(s, x)) => Foreseen(s, x, "fANSX_2")
  BY <1>3 DEF Foreseen
<1>5. Letter(At(s, x)) => Foreseen(s, x, "fANSX_3")
  BY <1>3 DEF Foreseen
<1>6. isdigit(At(s, x)) \/ SET2(At(s, x)) => Foreseen(s, x, "fCUR")
  BY <1>3 DEF Foreseen
<1>7. isalpha(At(s, x)) \/ SET1(At(s, x)) => Foreseen(s, x, "fMUL")
  BY <1>3 DEF Foreseen
<1>8. ispunct(At(s, x)) /\ At(s, x + 1) = At(s, x) => Foreseen(s, x, "fSEP_3")
  BY <1>3 DEF Foreseen
<1>9. (\E j \in x..Len(s) : s[j] = Greater /\ \A b \in x..j - 1 : SET3(s[b]))
        => Foreseen(s, x, "fADD")
  BY <1>3 DEF Foreseen
<1> QED
  BY <1>4, <1>5, <1>6, <1>7, <1>8, <1>9

(* No class of characters has the DIAMOND. *)
LEMMA NoDiamond ==
  ASSUME NEW c
  PROVE  /\ isalpha(c) \/ isdigit(c) \/ isgraph(c) \/ ispunct(c) \/ isalnum(c) => c # DIAMOND
         /\ ATOM(c) \/ Letter(c) \/ SET1(c) \/ SET2(c) \/ SET3(c) => c # DIAMOND
         /\ Continues(c) \/ Trails(c) => c # DIAMOND
<1>1. isalpha(c) \/ isdigit(c) \/ isgraph(c) \/ ispunct(c) \/ isalnum(c) => c # DIAMOND
  BY DEF isalpha, isupper, isdigit, isgraph, ispunct, isalnum, DIAMOND
<1>2. ATOM(c) => c # DIAMOND
  BY <1>1 DEF ATOM
<1>3. Letter(c) \/ SET1(c) \/ SET2(c) \/ SET3(c) => c # DIAMOND
  BY <1>1 DEF Letter, ISO8859, SET1, SET2, SET3, DIAMOND, Quote, Dash, Dot, Comma
<1>4. Continues(c) \/ Trails(c) => c # DIAMOND
  BY DEF Continues, Trails, DIAMOND
<1> QED
  BY <1>1, <1>2, <1>3, <1>4

-----------------------------------------------------------------------------
(* The machines.                                                           *)

LEMMA Ahead ==
  ASSUME NEW s, NEW x, NEW st, Foreseen(s, x, st)
  PROVE  /\ \A n \in 1..5 : st = UtfStates[n] => \A j \in 0..n - 1 : Continues(At(s, x + j))
         /\ \A n \in 1..3 : st = AsianStates[n] => \A j \in 0..n - 1 : Trails(At(s, x + j))
BY DEF Foreseen

LEMMA UtfNames ==
  /\ UtfStates[1] = "fUTF8_1" /\ UtfStates[2] = "fUTF8_2" /\ UtfStates[3] = "fUTF8_3"
  /\ UtfStates[4] = "fUTF8_4" /\ UtfStates[5] = "fUTF8_5" /\ Len(UtfStates) = 5
BY DEF UtfStates

LEMMA AsianNames ==
  /\ AsianStates[1] = "fASIAN_1" /\ AsianStates[2] = "fASIAN_2" /\ AsianStates[3] = "fASIAN_3"
  /\ Len(AsianStates) = 3
BY DEF AsianStates

LEMMA ForeseesBytes ==
  ASSUME NEW s, NEW x, NEW n \in 1..5
  PROVE  /\ (\A j \in 0..n - 1 : Continues(At(s, x + j))) => Foreseen(s, x, UtfStates[n])
         /\ n \in 1..3 /\ (\A j \in 0..n - 1 : Trails(At(s, x + j))) => Foreseen(s, x, AsianStates[n])
<1> DEFINE L == {"fANSX_1", "fANSX_2", "fANSX_3", "fCUR", "fMUL", "fADD", "fSEP_2", "fSEP_3"}
<1>1. UtfStates[n] \notin L /\ \A m \in 1..5 : UtfStates[m] = UtfStates[n] => m = n
  BY UtfNames
<1>2. \A m \in 1..3 : AsianStates[m] # UtfStates[n]
  BY UtfNames, AsianNames
<1>3. n \in 1..3 => /\ AsianStates[n] \notin L
                    /\ \A m \in 1..3 : AsianStates[m] = AsianStates[n] => m = n
                    /\ \A m \in 1..5 : UtfStates[m] # AsianStates[n]
  BY UtfNames, AsianNames
<1>4. (\A j \in 0..n - 1 : Continues(At(s, x + j))) => Foreseen(s, x, UtfStates[n])
  BY <1>1, <1>2 DEF Foreseen
<1>5. n \in 1..3 /\ (\A j \in 0..n - 1 : Trails(At(s, x + j))) => Foreseen(s, x, AsianStates[n])
  BY <1>3 DEF Foreseen
<1> QED
  BY <1>4, <1>5

(* Within a character of several bytes the next one is taken as foreseen. *)
LEMMA BytesTaken ==
  ASSUME NEW s, NEW x \in Nat, NEW st, Multibyte(st), Foreseen(s, x, st)
  PROVE  Sound(s, x, InMultibyte(st))
<1>1. ASSUME NEW states, NEW n \in 1..5, Counts(states, st) = {n}, At(s, x) # DIAMOND,
             n # 1 => Foreseen(s, x + 1, states[n - 1])
      PROVE  Sound(s, x, handle_multibyte_case(states, st))
  <2>1. (CHOOSE m \in Counts(states, st) : TRUE) = n
    BY <1>1
  <2> DEFINE m == CHOOSE m \in Counts(states, st) : TRUE
  <2>2. handle_multibyte_case(states, st) = IF n = 1 THEN TOKEN_END ELSE TOKEN(states[n - 1])
    <3>1. handle_multibyte_case(states, st) = IF m = 1 THEN TOKEN_END ELSE TOKEN(states[m - 1])
      BY Zenon DEF handle_multibyte_case
    <3>2. m = n
      BY <2>1
    <3> HIDE DEF m
    <3> QED
      BY <3>1, <3>2
  <2>3. CASE n = 1
    <3>1. "fDEF" \in Unforeseeing
      BY DEF Unforeseeing
    <3> QED
      BY <1>1, <2>2, <2>3, <3>1, TakenTo
  <2>4. CASE n # 1
    BY <1>1, <2>2, <2>4, TakenForeseeing
  <2> QED
    BY <2>3, <2>4
<1>2. CASE Counts(UtfStates, st) # {}
  <2>1. PICK n \in 1..5 : st = UtfStates[n]
    BY <1>2, UtfNames DEF Counts
  <2>2. Counts(UtfStates, st) = {n}
    BY <2>1, UtfNames DEF Counts
  <2>3. \A j \in 0..n - 1 : Continues(At(s, x + j))
    BY <2>1, Ahead
  <2>4. At(s, x) # DIAMOND
    <3>1. 0 \in 0..n - 1 /\ x + 0 = x
      OBVIOUS
    <3> QED
      BY <2>3, <3>1, NoDiamond
  <2>5. n # 1 => Foreseen(s, x + 1, UtfStates[n - 1])
    <3> SUFFICES ASSUME n # 1
                 PROVE  Foreseen(s, x + 1, UtfStates[n - 1])
      OBVIOUS
    <3>1. \A j \in 0..(n - 1) - 1 : j + 1 \in 0..n - 1 /\ (x + 1) + j = x + (j + 1)
      OBVIOUS
    <3>2. \A j \in 0..(n - 1) - 1 : Continues(At(s, (x + 1) + j))
      BY <2>3, <3>1
    <3>3. n - 1 \in 1..5
      OBVIOUS
    <3> QED
      BY <3>2, <3>3, ForeseesBytes
  <2>6. InMultibyte(st) = handle_multibyte_case(UtfStates, st)
    BY <1>2 DEF InMultibyte
  <2> QED
    BY <1>1, <2>2, <2>4, <2>5, <2>6
<1>3. CASE Counts(UtfStates, st) = {}
  <2>0. Counts(AsianStates, st) # {}
    BY <1>3 DEF Multibyte
  <2>1. PICK n \in 1..3 : st = AsianStates[n]
    BY <2>0, AsianNames DEF Counts
  <2>2. Counts(AsianStates, st) = {n}
    BY <2>1, AsianNames DEF Counts
  <2>3. \A j \in 0..n - 1 : Trails(At(s, x + j))
    BY <2>1, Ahead
  <2>4. At(s, x) # DIAMOND
    <3>1. 0 \in 0..n - 1 /\ x + 0 = x
      OBVIOUS
    <3> QED
      BY <2>3, <3>1, NoDiamond
  <2>5. n # 1 => Foreseen(s, x + 1, AsianStates[n - 1])
    <3> SUFFICES ASSUME n # 1
                 PROVE  Foreseen(s, x + 1, AsianStates[n - 1])
      OBVIOUS
    <3>1. \A j \in 0..(n - 1) - 1 : j + 1 \in 0..n - 1 /\ (x + 1) + j = x + (j + 1)
      OBVIOUS
    <3>2. \A j \in 0..(n - 1) - 1 : Trails(At(s, (x + 1) + j))
      BY <2>3, <3>1
    <3>3. n - 1 \in 1..5 /\ n - 1 \in 1..3
      OBVIOUS
    <3> QED
      BY <3>2, <3>3, ForeseesBytes
  <2>6. InMultibyte(st) = handle_multibyte_case(AsianStates, st) /\ n \in 1..5
    BY <1>3 DEF InMultibyte
  <2> QED
    BY <1>1, <2>2, <2>4, <2>5, <2>6
<1> QED
  BY <1>2, <1>3

(* The first byte of such a character, and what else is above 127. *)
LEMMA HighByteSound ==
  ASSUME NEW s \in Line, NEW x \in Nat, NEW st \in Unforeseeing
  PROVE  SoundOrUndef(s, x, HighByte(s, x, st))
<1>1. \A y : At(s, y) \in 0..255
  BY AtCode DEF Code
<1>2. CASE At(s, x) < \h80
  BY <1>2, Undefined DEF HighByte
<1>3. CASE ~(At(s, x) < \h80)
  <2>1. At(s, x) # DIAMOND
    BY <1>1, <1>3 DEF DIAMOND
  <2>2. SoundOrUndef(s, x, is_unicode_case(s, x, st))
    <3> DEFINE K == {n \in 1..5 : At(s, x) \in UtfLeads[n] /\ \A j \in 1..n : At(s, x + j) \in \h80..\hBF}
    <3>1. CASE K = {}
      BY <3>1, Undefined DEF is_unicode_case
    <3>2. CASE K # {}
      <4>1. PICK n \in K : n = CHOOSE m \in K : TRUE
        BY <3>2
      <4>2. is_unicode_case(s, x, st) = TOKEN(UtfStates[n])
        BY <3>2, <4>1 DEF is_unicode_case
      <4>3. n \in 1..5 /\ \A j \in 1..n : At(s, x + j) \in \h80..\hBF
        BY <4>1
      <4>4. \A j \in 0..n - 1 : j + 1 \in 1..n /\ (x + 1) + j = x + (j + 1)
        BY <4>3
      <4>5. \A j \in 0..n - 1 : Continues(At(s, (x + 1) + j))
        BY <4>3, <4>4 DEF Continues
      <4>6. Foreseen(s, x + 1, UtfStates[n])
        BY <4>3, <4>5, ForeseesBytes
      <4> QED
        BY <2>1, <4>2, <4>6, TakenForeseeing DEF SoundOrUndef
    <3> QED
      BY <3>1, <3>2
  <2>3. SoundOrUndef(s, x, is_asian_case(s, x, st))
    <3>1. ASSUME Trails(At(s, x + 1))
          PROVE  Sound(s, x, TOKEN("fASIAN_1"))
      <4>1. \A j \in 0..1 - 1 : Trails(At(s, (x + 1) + j))
        BY <3>1
      <4>2. Foreseen(s, x + 1, "fASIAN_1")
        BY <4>1, ForeseesBytes, AsianNames
      <4> QED
        BY <2>1, <4>2, TakenForeseeing
    <3>2. ASSUME Trails(At(s, x + 1)), Trails(At(s, x + 2))
          PROVE  Sound(s, x, TOKEN("fASIAN_2"))
      <4>1. \A j \in 0..2 - 1 : Trails(At(s, (x + 1) + j))
        <5>1. (x + 1) + 0 = x + 1 /\ (x + 1) + 1 = x + 2
          OBVIOUS
        <5> QED
          BY <3>2, <5>1
      <4>2. Foreseen(s, x + 1, "fASIAN_2")
        BY <4>1, ForeseesBytes, AsianNames
      <4> QED
        BY <2>1, <4>2, TakenForeseeing
    <3>3. \A d \in DoubleBytes : At(s, x + 1) \in d[2] => Trails(At(s, x + 1))
      BY <1>1 DEF DoubleBytes, Trails
    <3>4. At(s, x + 1) \in {\hFD, \hFE} /\ At(s, x + 2) \in \hA1..\hFE
            => Trails(At(s, x + 1)) /\ Trails(At(s, x + 2))
      BY DEF Trails
    <3> QED
      BY <3>1, <3>2, <3>3, <3>4, Undefined DEF is_asian_case, SoundOrUndef
  <2>4. SoundOrUndef(s, x, IF At(s, x) < \hA0 THEN DISCARD(st) ELSE UNDEF(st))
    BY LeftOutTo, Undefined DEF SoundOrUndef
  <2> QED
    BY <1>3, <2>2, <2>3, <2>4, EitherSound DEF HighByte
<1> QED
  BY <1>2, <1>3

(* Letters, digits and marks. *)
LEMMA ListenedTo ==
  ASSUME NEW s, NEW x
  PROVE  /\ ispunct(At(s, x + 1)) => Foreseen(s, x + 1, "fANSX_1")
         /\ isdigit(At(s, x + 1)) => Foreseen(s, x + 1, "fANSX_2")
         /\ Letter(At(s, x + 1)) => Foreseen(s, x + 1, "fANSX_3")
BY ForeseesOne

LEMMA EndSound == ASSUME NEW s, NEW x, At(s, x) # DIAMOND PROVE Sound(s, x, TOKEN_END)
BY TakenTo DEF Unforeseeing

LEMMA SymbolicSound ==
  ASSUME NEW s, NEW x, NEW st \in Unforeseeing
  PROVE  /\ SoundOrUndef(s, x, is_symbolic_case(s, x, st))
         /\ Sound(s, x, handle_symbolic_case(s, x, st))
<1>1. "fSYMBOL" \in Unforeseeing /\ "fDEF" \in Unforeseeing
  BY DEF Unforeseeing
<1>2. CASE ~ispunct(At(s, x))
  BY <1>1, <1>2, Undefined, LeftOutTo DEF is_symbolic_case, handle_symbolic_case
<1>3. CASE ispunct(At(s, x))
  <2>1. At(s, x) # DIAMOND
    BY <1>3, NoDiamond
  <2>2. Sound(s, x, TOKEN("fSYMBOL")) /\ Sound(s, x, TOKEN(st)) /\ Sound(s, x, TOKEN_END)
        /\ Sound(s, x, IGNORE(st))
    BY <1>1, <2>1, TakenTo, LeftOutTo
  <2>3. Sound(s, x, [TOKEN_END EXCEPT !.state = st])
    <3>1. [TOKEN_END EXCEPT !.state = st] = [good |-> "TOKEN_END", state |-> st]
      BY DEF TOKEN_END
    <3> QED
      BY <2>1, <3>1, NothingForeseen DEF Sound
  <2> QED
    BY <1>3, <2>2, <2>3 DEF is_symbolic_case, handle_symbolic_case, SoundOrUndef
<1> QED
  BY <1>2, <1>3

LEMMA AlphaNumberSymbolSound ==
  ASSUME NEW s, NEW x, NEW st
  PROVE  /\ SoundOrUndef(s, x, is_alpha_number_symbol_case(s, x, st))
         /\ SoundOrUndef(s, x, is_number_symbol_case(s, x, st))
         /\ st \in {"fANSX_1", "fANSX_2", "fANSX_3"} /\ Foreseen(s, x, st)
              => Sound(s, x, handle_alpha_number_symbol_case(s, x, st))
<1>1. isalpha(At(s, x + 1)) => Letter(At(s, x + 1))
  BY DEF Letter
<1>2. ASSUME At(s, x) # DIAMOND
      PROVE  /\ Sound(s, x, TOKEN_END)
             /\ ispunct(At(s, x + 1)) => Sound(s, x, TOKEN("fANSX_1")) /\ Sound(s, x, IGNORE("fANSX_1"))
             /\ isdigit(At(s, x + 1)) => Sound(s, x, TOKEN("fANSX_2"))
             /\ Letter(At(s, x + 1)) => Sound(s, x, TOKEN("fANSX_3")) /\ Sound(s, x, IGNORE("fANSX_3"))
  BY <1>2, ListenedTo, TakenForeseeing, LeftOut, EndSound
<1>3. SoundOrUndef(s, x, is_alpha_number_symbol_case(s, x, st))
  <2>1. CASE ~isalpha(At(s, x))
    BY <2>1, Undefined DEF is_alpha_number_symbol_case
  <2>2. CASE isalpha(At(s, x))
    <3>1. At(s, x) # DIAMOND
      BY <2>2, NoDiamond
    <3> QED
      BY <1>1, <1>2, <2>2, <3>1 DEF is_alpha_number_symbol_case, SoundOrUndef
  <2> QED
    BY <2>1, <2>2
<1>4. SoundOrUndef(s, x, is_number_symbol_case(s, x, st))
  <2>1. CASE ~isdigit(At(s, x))
    BY <2>1, Undefined DEF is_number_symbol_case
  <2>2. CASE isdigit(At(s, x))
    <3>1. At(s, x) # DIAMOND
      BY <2>2, NoDiamond
    <3> QED
      BY <1>2, <2>2, <3>1 DEF is_number_symbol_case, SoundOrUndef
  <2> QED
    BY <2>1, <2>2
<1>5. ASSUME st \in {"fANSX_1", "fANSX_2", "fANSX_3"}, Foreseen(s, x, st)
      PROVE  Sound(s, x, handle_alpha_number_symbol_case(s, x, st))
  <2>1. At(s, x) # DIAMOND
    BY <1>5, NoDiamond DEF Foreseen
  <2>2. CASE st = "fANSX_1"
    BY <1>2, <2>1, <2>2 DEF handle_alpha_number_symbol_case
  <2>3. CASE st = "fANSX_2"
    BY <1>2, <2>1, <2>3 DEF handle_alpha_number_symbol_case
  <2>4. CASE st = "fANSX_3"
    BY <1>2, <2>1, <2>4 DEF handle_alpha_number_symbol_case
  <2> QED
    BY <1>5, <2>2, <2>3, <2>4
<1> QED
  BY <1>3, <1>4, <1>5

LEMMA NotMultibyte ==
  /\ \A st \in Unforeseeing : ~Multibyte(st)
  /\ \A st \in {"fANSX_1", "fANSX_2", "fANSX_3", "fCUR", "fMUL", "fADD", "fSEP_2", "fSEP_3"} : ~Multibyte(st)
BY UtfNames, AsianNames DEF Multibyte, Counts, Unforeseeing

LEMMA AdpSound ==
  ASSUME NEW s \in Line, NEW x \in Nat, NEW st, Foreseen(s, x, st)
  PROVE  Sound(s, x, is_adp_char(s, x, st))
<1>0. "fDEF" \in Unforeseeing /\ "fSYMBOL" \in Unforeseeing
  BY DEF Unforeseeing
<1>1. CASE st = "fDEF"
  <2>1. is_adp_char(s, x, st) =
          OrElse(OrElse(HighByte(s, x, st), is_alpha_number_symbol_case(s, x, st)),
                 OrElse(OrElse(is_number_symbol_case(s, x, st), is_symbolic_case(s, x, st)), DISCARD(st)))
    BY <1>0, <1>1, NotMultibyte, Zenon DEF is_adp_char
  <2>2. SoundOrUndef(s, x, OrElse(HighByte(s, x, st), is_alpha_number_symbol_case(s, x, st)))
    BY <1>0, <1>1, HighByteSound, AlphaNumberSymbolSound, EitherSound
  <2>3. SoundOrUndef(s, x, OrElse(is_number_symbol_case(s, x, st), is_symbolic_case(s, x, st)))
    BY <1>0, <1>1, AlphaNumberSymbolSound, SymbolicSound, EitherSound
  <2>4. Sound(s, x, DISCARD(st))
    BY <1>0, <1>1, LeftOutTo
  <2> QED
    BY <2>1, <2>2, <2>3, <2>4, EitherSound
<1>2. CASE st \in {"fANSX_1", "fANSX_2", "fANSX_3"}
  <2>1. is_adp_char(s, x, st) = handle_alpha_number_symbol_case(s, x, st)
    BY <1>2, NotMultibyte DEF is_adp_char
  <2> QED
    BY <1>2, <2>1, AlphaNumberSymbolSound
<1>3. CASE st = "fSYMBOL"
  <2>1. is_adp_char(s, x, st) = handle_symbolic_case(s, x, st)
    BY <1>0, <1>3, NotMultibyte DEF is_adp_char
  <2> QED
    BY <1>0, <1>3, <2>1, SymbolicSound
<1>4. CASE Multibyte(st)
  <2>1. is_adp_char(s, x, st) = InMultibyte(st)
    BY <1>0, <1>4, NotMultibyte DEF is_adp_char
  <2> QED
    BY <1>4, <2>1, BytesTaken
<1>5. CASE st \notin {"fDEF", "fANSX_1", "fANSX_2", "fANSX_3", "fSYMBOL"} /\ ~Multibyte(st)
  <2>1. is_adp_char(s, x, st) = DISCARD("fDEF")
    BY <1>5 DEF is_adp_char
  <2> QED
    BY <1>0, <2>1, LeftOutTo
<1> QED
  BY <1>1, <1>2, <1>3, <1>4, <1>5

(* Numbers with letters, names with marks, repetitions, money, addresses. *)
LEMMA NumberedSound ==
  ASSUME NEW s, NEW x, NEW st
  PROVE  /\ SoundOrUndef(s, x, is_alpha_number_case(s, x, st))
         /\ SoundOrUndef(s, x, is_number_alpha_case(s, x, st))
         /\ Sound(s, x, handle_alpha_number_case(s, x))
         /\ Sound(s, x, handle_number_alpha_case(s, x))
<1>1. {"fDEF", "fANX", "fNAX"} \subseteq Unforeseeing
  BY DEF Unforeseeing
<1>2. isalpha(At(s, x)) \/ isdigit(At(s, x)) => At(s, x) # DIAMOND
  BY NoDiamond
<1>3. isalpha(At(s, x)) \/ isdigit(At(s, x)) =>
        /\ Sound(s, x, TOKEN("fANX")) /\ Sound(s, x, TOKEN("fNAX")) /\ Sound(s, x, TOKEN_END)
  BY <1>1, <1>2, TakenTo
<1>4. Sound(s, x, DISCARD("fDEF"))
  BY <1>1, LeftOutTo
<1>5. SoundOrUndef(s, x, is_alpha_number_case(s, x, st))
  BY <1>3, Undefined DEF is_alpha_number_case, SoundOrUndef
<1>6. SoundOrUndef(s, x, is_number_alpha_case(s, x, st))
  BY <1>3, Undefined DEF is_number_alpha_case, SoundOrUndef
<1>7. Sound(s, x, handle_alpha_number_case(s, x))
  BY <1>3, <1>4 DEF handle_alpha_number_case
<1>8. Sound(s, x, handle_number_alpha_case(s, x))
  BY <1>3, <1>4 DEF handle_number_alpha_case
<1> QED
  BY <1>5, <1>6, <1>7, <1>8

LEMMA MultiAlphaSound ==
  ASSUME NEW s, NEW x, NEW st
  PROVE  /\ SoundOrUndef(s, x, is_multi_alpha_case(s, x, st))
         /\ Foreseen(s, x, "fMUL") => Sound(s, x, handle_multi_alpha_case(s, x))
<1>1. isalpha(At(s, x + 1)) \/ SET1(At(s, x + 1)) => Foreseen(s, x + 1, "fMUL")
  BY ForeseesOne
<1>2. SoundOrUndef(s, x, is_multi_alpha_case(s, x, st))
  <2>1. CASE isalpha(At(s, x)) /\ SET1(At(s, x + 1))
    <3>1. Sound(s, x, TOKEN("fMUL"))
      BY <1>1, <2>1, NoDiamond, TakenForeseeing
    <3> QED
      BY <3>1, Undefined DEF is_multi_alpha_case, SoundOrUndef
  <2>2. CASE ~(isalpha(At(s, x)) /\ SET1(At(s, x + 1)))
    BY <2>2, Undefined DEF is_multi_alpha_case
  <2> QED
    BY <2>1, <2>2
<1>3. ASSUME Foreseen(s, x, "fMUL")
      PROVE  Sound(s, x, handle_multi_alpha_case(s, x))
  <2>1. At(s, x) # DIAMOND
    BY <1>3, NoDiamond DEF Foreseen
  <2>2. Sound(s, x, TOKEN_END)
    BY <2>1, EndSound
  <2>3. isalpha(At(s, x + 1)) \/ SET1(At(s, x + 1)) => Sound(s, x, TOKEN("fMUL"))
    BY <1>1, <2>1, TakenForeseeing
  <2> QED
    BY <2>2, <2>3 DEF handle_multi_alpha_case
<1> QED
  BY <1>2, <1>3

LEMMA RepeatSound ==
  ASSUME NEW s, NEW x \in Nat, NEW st
  PROVE  /\ ispunct(At(s, x)) => SoundOrUndef(s, x, is_repeat_case(s, x, st))
         /\ st \in {"fSEP_1", "fSEP_2", "fSEP_3"} /\ Foreseen(s, x, st)
              => Sound(s, x, handle_repeat_case(s, x, st))
<1>0. (x + 1) + 1 = x + 2 /\ {"fDEF", "fSEP_1"} \subseteq Unforeseeing
  BY DEF Unforeseeing
<1>1. ispunct(At(s, x + 1)) =>
        /\ Foreseen(s, x + 1, "fSEP_2")
        /\ At(s, x + 2) = At(s, x + 1) => Foreseen(s, x + 1, "fSEP_3")
  BY <1>0, ForeseesOne
<1>2. ASSUME ispunct(At(s, x))
      PROVE  SoundOrUndef(s, x, is_repeat_case(s, x, st))
  <2>1. CASE At(s, x + 1) # At(s, x)
    BY <2>1, Undefined DEF is_repeat_case
  <2>2. CASE At(s, x + 1) = At(s, x)
    <3>1. Sound(s, x, TOKEN("fSEP_2"))
      BY <1>1, <1>2, <2>2, NoDiamond, TakenForeseeing
    <3>2. At(s, x + 2) = At(s, x) => Sound(s, x, TOKEN("fSEP_3"))
      BY <1>1, <1>2, <2>2, NoDiamond, TakenForeseeing
    <3> QED
      BY <2>2, <3>1, <3>2 DEF is_repeat_case, SoundOrUndef
  <2> QED
    BY <2>1, <2>2
<1>3. ASSUME st \in {"fSEP_1", "fSEP_2", "fSEP_3"}, Foreseen(s, x, st)
      PROVE  Sound(s, x, handle_repeat_case(s, x, st))
  <2>1. CASE st = "fSEP_1"
    <3>1. handle_repeat_case(s, x, st) = DISCARD(IF At(s, x) # At(s, x + 1) THEN "fDEF" ELSE st)
      BY <2>1 DEF handle_repeat_case
    <3> QED
      BY <1>0, <2>1, <3>1, LeftOutTo
  <2>2. CASE st = "fSEP_2"
    <3>1. handle_repeat_case(s, x, st) = TOKEN("fSEP_1")
      BY <2>2 DEF handle_repeat_case
    <3>2. At(s, x) # DIAMOND
      BY <1>3, <2>2, NoDiamond DEF Foreseen
    <3> QED
      BY <1>0, <3>1, <3>2, TakenTo
  <2>3. CASE st = "fSEP_3"
    <3>1. handle_repeat_case(s, x, st) = TOKEN("fSEP_2")
      BY <2>3 DEF handle_repeat_case
    <3>2. ispunct(At(s, x)) /\ At(s, x + 1) = At(s, x)
      BY <1>3, <2>3 DEF Foreseen
    <3> QED
      BY <1>1, <3>1, <3>2, NoDiamond, TakenForeseeing
  <2> QED
    BY <1>3, <2>1, <2>2, <2>3
<1> QED
  BY <1>2, <1>3

LEMMA CurrencySound ==
  ASSUME NEW s, NEW x, NEW st
  PROVE  /\ SoundOrUndef(s, x, is_currency_case(s, x, st))
         /\ Foreseen(s, x, "fCUR") => Sound(s, x, handle_currency_case(s, x))
<1>1. isdigit(At(s, x + 1)) \/ SET2(At(s, x + 1)) => Foreseen(s, x + 1, "fCUR")
  BY ForeseesOne
<1>2. SoundOrUndef(s, x, is_currency_case(s, x, st))
  <2>1. CASE At(s, x) \in {Dollar, \hA3} /\ isdigit(At(s, x + 1))
    <3>1. At(s, x) # DIAMOND
      BY <2>1 DEF DIAMOND, Dollar
    <3>2. Sound(s, x, TOKEN("fCUR"))
      BY <1>1, <2>1, <3>1, TakenForeseeing
    <3> QED
      BY <3>2, Undefined DEF is_currency_case, SoundOrUndef
  <2>2. CASE ~(At(s, x) \in {Dollar, \hA3} /\ isdigit(At(s, x + 1)))
    BY <2>2, Undefined DEF is_currency_case
  <2> QED
    BY <2>1, <2>2
<1>3. ASSUME Foreseen(s, x, "fCUR")
      PROVE  Sound(s, x, handle_currency_case(s, x))
  <2>1. At(s, x) # DIAMOND
    BY <1>3, NoDiamond DEF Foreseen
  <2>2. Sound(s, x, TOKEN_END)
    BY <2>1, EndSound
  <2>3. isdigit(At(s, x + 1)) \/ SET2(At(s, x + 1)) => Sound(s, x, TOKEN("fCUR"))
    BY <1>1, <2>1, TakenForeseeing
  <2> QED
    BY <2>2, <2>3 DEF handle_currency_case
<1> QED
  BY <1>2, <1>3

LEMMA AddressSound ==
  ASSUME NEW s \in Line, NEW x \in Nat \ {0}, NEW st \in Unforeseeing
  PROVE  /\ Sound(s, x, DISCARD(is_address_case(s, x, st).state))
         /\ Foreseen(s, x, "fADD") => Sound(s, x, handle_address_case(s, x))
<1>0. Len(s) \in Nat
  BY DEF Line
<1>1. \A j \in 1..Len(s) : At(s, j) = s[j]
  BY DEF At
<1>2. Sound(s, x, DISCARD(is_address_case(s, x, st).state))
  <2>1. ASSUME NEW j \in x + 1..Len(s), At(s, j) = Greater, \A b \in x + 1..j - 1 : SET3(At(s, b))
        PROVE  Foreseen(s, x + 1, "fADD")
    <3>1. j \in 1..Len(s) /\ \A b \in x + 1..j - 1 : b \in 1..Len(s)
      BY <1>0
    <3>2. s[j] = Greater /\ \A b \in x + 1..j - 1 : SET3(s[b])
      BY <1>1, <2>1, <3>1
    <3> QED
      BY <3>2, ForeseesOne
  <2>2. is_address_case(s, x, st).state \in {"fADD", st}
    BY DEF is_address_case, UNDEF
  <2>3. is_address_case(s, x, st).state = "fADD" => st = "fADD" \/ Foreseen(s, x + 1, "fADD")
    BY <2>1 DEF is_address_case, UNDEF
  <2>4. st # "fADD"
    BY DEF Unforeseeing
  <2> QED
    BY <2>2, <2>3, <2>4, LeftOut, LeftOutTo
<1>3. ASSUME Foreseen(s, x, "fADD")
      PROVE  Sound(s, x, handle_address_case(s, x))
  <2>1. PICK j \in x..Len(s) : s[j] = Greater /\ \A b \in x..j - 1 : SET3(s[b])
    BY <1>3 DEF Foreseen
  <2>2. x \in 1..Len(s)
    BY <1>0, <2>1
  <2>3. At(s, x) = s[x]
    BY <1>1, <2>2
  <2>4. CASE j = x
    <3>1. handle_address_case(s, x) = DISCARD("fDEF")
      BY <2>1, <2>3, <2>4 DEF handle_address_case
    <3>2. "fDEF" \in Unforeseeing
      BY DEF Unforeseeing
    <3> QED
      BY <3>1, <3>2, LeftOutTo
  <2>5. CASE j # x
    <3>1. x \in x..j - 1 /\ j \in x + 1..Len(s) /\ \A b \in x + 1..j - 1 : b \in x..j - 1
      BY <1>0, <2>1, <2>5
    <3>2. SET3(At(s, x))
      BY <2>1, <2>3, <3>1
    <3>3. Foreseen(s, x + 1, "fADD")
      BY <2>1, <3>1, ForeseesOne
    <3>4. At(s, x) # DIAMOND /\ At(s, x) # Greater
      BY <3>2, NoDiamond DEF SET3
    <3> QED
      BY <3>3, <3>4, LeftOut, TakenForeseeing DEF handle_address_case
  <2> QED
    BY <2>4, <2>5
<1> QED
  BY <1>2, <1>3

LEMMA CefSound ==
  ASSUME NEW s \in Line, NEW x \in Nat \ {0}, NEW st, Foreseen(s, x, st)
  PROVE  Sound(s, x, is_cef_char(s, x, st))
<1>0. {"fDEF", "fANX", "fNAX", "fSEP_1"} \subseteq Unforeseeing
  BY DEF Unforeseeing
<1>1. CASE st = "fDEF"
  <2>1. PICK c : c = At(s, x)
    OBVIOUS
  <2>2. is_cef_char(s, x, st) =
          IF HighByte(s, x, st).good # "UNDEF" THEN HighByte(s, x, st)
          ELSE IF isalpha(c) THEN OrElse(OrElse(is_alpha_number_case(s, x, st), is_multi_alpha_case(s, x, st)),
                                         TOKEN(st))
          ELSE IF ispunct(c) THEN OrElse(OrElse(is_repeat_case(s, x, st), is_currency_case(s, x, st)),
                                         DISCARD(is_address_case(s, x, st).state))
          ELSE IF isdigit(c) THEN OrElse(is_number_alpha_case(s, x, st), DISCARD(st))
          ELSE DISCARD(st)
    BY <1>0, <1>1, <2>1, NotMultibyte, Zenon DEF is_cef_char
  <2>3. HighByte(s, x, st).good # "UNDEF" => Sound(s, x, HighByte(s, x, st))
    BY <1>0, <1>1, HighByteSound DEF SoundOrUndef
  <2>4. isalpha(c) => Sound(s, x, OrElse(OrElse(is_alpha_number_case(s, x, st), is_multi_alpha_case(s, x, st)),
                                         TOKEN(st)))
    <3> SUFFICES ASSUME isalpha(c)
                 PROVE  Sound(s, x, OrElse(OrElse(is_alpha_number_case(s, x, st), is_multi_alpha_case(s, x, st)),
                                           TOKEN(st)))
      OBVIOUS
    <3>1. Sound(s, x, TOKEN(st))
      BY <1>0, <1>1, <2>1, NoDiamond, TakenTo
    <3> QED
      BY <3>1, NumberedSound, MultiAlphaSound, EitherSound
  <2>5. ispunct(c) => Sound(s, x, OrElse(OrElse(is_repeat_case(s, x, st), is_currency_case(s, x, st)),
                                         DISCARD(is_address_case(s, x, st).state)))
    BY <1>0, <1>1, <2>1, RepeatSound, CurrencySound, AddressSound, EitherSound
  <2>6. Sound(s, x, DISCARD(st))
    BY <1>0, <1>1, LeftOutTo
  <2>7. Sound(s, x, OrElse(is_number_alpha_case(s, x, st), DISCARD(st)))
    BY <2>6, NumberedSound, EitherSound
  <2> QED
    BY <2>2, <2>3, <2>4, <2>5, <2>6, <2>7
<1>2. CASE st = "fANX"
  <2>1. is_cef_char(s, x, st) = handle_alpha_number_case(s, x)
    BY <1>0, <1>2, NotMultibyte DEF is_cef_char
  <2> QED
    BY <2>1, NumberedSound
<1>3. CASE st = "fNAX"
  <2>1. is_cef_char(s, x, st) = handle_number_alpha_case(s, x)
    BY <1>0, <1>3, NotMultibyte DEF is_cef_char
  <2> QED
    BY <2>1, NumberedSound
<1>4. CASE st = "fMUL"
  <2>1. is_cef_char(s, x, st) = handle_multi_alpha_case(s, x)
    BY <1>4, NotMultibyte DEF is_cef_char
  <2> QED
    BY <1>4, <2>1, MultiAlphaSound
<1>5. CASE st = "fADD"
  <2>1. is_cef_char(s, x, st) = handle_address_case(s, x)
    BY <1>5, NotMultibyte DEF is_cef_char
  <2> QED
    BY <1>0, <1>5, <2>1, AddressSound
<1>6. CASE st = "fCUR"
  <2>1. is_cef_char(s, x, st) = handle_currency_case(s, x)
    BY <1>6, NotMultibyte DEF is_cef_char
  <2> QED
    BY <1>6, <2>1, CurrencySound
<1>7. CASE st \in {"fSEP_1", "fSEP_2", "fSEP_3"}
  <2>1. is_cef_char(s, x, st) = handle_repeat_case(s, x, st)
    BY <1>0, <1>7, NotMultibyte DEF is_cef_char
  <2> QED
    BY <1>7, <2>1, RepeatSound
<1>8. CASE Multibyte(st)
  <2>1. is_cef_char(s, x, st) = InMultibyte(st)
    BY <1>0, <1>8, NotMultibyte DEF is_cef_char
  <2> QED
    BY <1>8, <2>1, BytesTaken
<1>9. CASE /\ st \notin {"fDEF", "fANX", "fNAX", "fMUL", "fADD", "fCUR", "fSEP_1", "fSEP_2", "fSEP_3"}
           /\ ~Multibyte(st)
  <2>1. is_cef_char(s, x, st) = DISCARD("fDEF")
    BY <1>9 DEF is_cef_char
  <2> QED
    BY <1>0, <2>1, LeftOutTo
<1> QED
  BY <1>1, <1>2, <1>3, <1>4, <1>5, <1>6, <1>7, <1>8, <1>9

LEMMA Cef2Sound ==
  ASSUME NEW s \in Line, NEW x \in Nat, NEW st, Foreseen(s, x, st)
  PROVE  Sound(s, x, is_cef2_char(s, x, st))
<1> DEFINE Atoms == {"fCEF2_ATOM", "fCEF2_DOTTED_ATOM", "fCEF2_COLON_ATOM"}
<1>0. Atoms \subseteq Unforeseeing /\ "fDEF" \in Unforeseeing
  BY DEF Unforeseeing
<1>1. At(s, x) # DIAMOND => \A a \in Atoms : Sound(s, x, TOKEN(a))
  BY <1>0, TakenTo
<1>2. Sound(s, x, DISCARD("fDEF"))
  BY <1>0, LeftOutTo
<1>3. ATOM(At(s, x)) => At(s, x) # DIAMOND
  BY NoDiamond
<1>4. AfterMark(s, x, Dot) \/ AfterMark(s, x, Colon) => At(s, x) # DIAMOND
  BY <1>3 DEF AfterMark, Dot, Colon, DIAMOND
<1>5. CASE st = "fDEF"
  <2>1. is_cef2_char(s, x, st) =
          OrElse(HighByte(s, x, st), IF ATOM(At(s, x)) THEN TOKEN("fCEF2_ATOM") ELSE DISCARD(st))
    BY <1>0, <1>5, NotMultibyte, Zenon DEF is_cef2_char
  <2>2. Sound(s, x, IF ATOM(At(s, x)) THEN TOKEN("fCEF2_ATOM") ELSE DISCARD(st))
    BY <1>1, <1>2, <1>3, <1>5
  <2> QED
    BY <1>0, <1>5, <2>1, <2>2, HighByteSound, EitherSound
<1>6. CASE st = "fCEF2_ATOM"
  <2>1. is_cef2_char(s, x, st) = handle_cef2_atom_case(s, x, st)
    BY <1>0, <1>6, NotMultibyte DEF is_cef2_char
  <2> QED
    BY <1>1, <1>2, <1>3, <1>4, <1>6, <2>1 DEF handle_cef2_atom_case
<1>7. CASE st = "fCEF2_DOTTED_ATOM"
  <2>1. is_cef2_char(s, x, st) = handle_cef2_marked_case(s, x, st, Dot)
    BY <1>0, <1>7, NotMultibyte DEF is_cef2_char
  <2> QED
    BY <1>1, <1>2, <1>4, <1>7, <2>1 DEF handle_cef2_marked_case
<1>8. CASE st = "fCEF2_COLON_ATOM"
  <2>1. is_cef2_char(s, x, st) = handle_cef2_marked_case(s, x, st, Colon)
    BY <1>0, <1>8, NotMultibyte DEF is_cef2_char
  <2> QED
    BY <1>1, <1>2, <1>4, <1>8, <2>1 DEF handle_cef2_marked_case
<1>9. CASE Multibyte(st)
  <2>1. is_cef2_char(s, x, st) = InMultibyte(st)
    BY <1>0, <1>9, NotMultibyte DEF is_cef2_char
  <2> QED
    BY <1>9, <2>1, BytesTaken
<1>10. CASE st \notin {"fDEF"} \cup Atoms /\ ~Multibyte(st)
  <2>1. is_cef2_char(s, x, st) = DISCARD("fDEF")
    BY <1>10 DEF is_cef2_char
  <2> QED
    BY <1>2, <2>1
<1> QED
  BY <1>5, <1>6, <1>7, <1>8, <1>9, <1>10

(* The other classes never leave the first state. *)
Machines == {"ADP", "CEF", "CEF2"}

LEMMA GoodCharSound ==
  ASSUME NEW s \in Line, NEW x \in Nat \ {0}, NEW st, NEW cp \in CharParsers, Foreseen(s, x, st),
         cp \notin Machines => st = "fDEF"
  PROVE  /\ At(s, x) # 0 => Sound(s, x, good_char(s, x, st, cp))
         /\ At(s, x) = 0 => good_char(s, x, st, cp) = DISCARD(st)
         /\ cp \notin Machines => good_char(s, x, st, cp).state = "fDEF"
<1>0. "fDEF" \in Unforeseeing
  BY DEF Unforeseeing
<1>1. CASE At(s, x) = 0
  <2>1. good_char(s, x, st, cp) = DISCARD(st)
    BY <1>1 DEF good_char
  <2> QED
    BY <1>1, <2>1 DEF DISCARD
<1>2. CASE At(s, x) # 0 /\ cp \in Machines
  <2>1. good_char(s, x, st, cp) = IF cp = "ADP" THEN is_adp_char(s, x, st)
                                  ELSE IF cp = "CEF" THEN is_cef_char(s, x, st)
                                  ELSE is_cef2_char(s, x, st)
    BY <1>2 DEF good_char, Machines
  <2>2. /\ Sound(s, x, is_adp_char(s, x, st))
        /\ Sound(s, x, is_cef_char(s, x, st))
        /\ Sound(s, x, is_cef2_char(s, x, st))
    BY AdpSound, CefSound, Cef2Sound
  <2> QED
    BY <1>2, <2>1, <2>2
<1>3. CASE At(s, x) # 0 /\ cp \notin Machines
  <2>1. PICK b \in {isgraph(At(s, x)), isalpha(At(s, x)), isalnum(At(s, x))}, g \in {"TOKEN", "TOKEN_END"} :
          good_char(s, x, st, cp) = [good |-> IF b THEN g ELSE "DISCARD", state |-> st]
    <3>1. cp \in {"CHAR", "ALPHA", "ALNUM", "GRAPH"}
      BY <1>3 DEF CharParsers, Machines
    <3>2. CASE cp = "CHAR"
      BY <1>3, <3>2 DEF good_char
    <3>3. CASE cp = "ALPHA"
      BY <1>3, <3>3 DEF good_char
    <3>4. CASE cp = "ALNUM"
      BY <1>3, <3>4 DEF good_char
    <3>5. CASE cp = "GRAPH"
      BY <1>3, <3>5 DEF good_char
    <3> QED
      BY <3>1, <3>2, <3>3, <3>4, <3>5
  <2>2. b => At(s, x) # DIAMOND
    BY NoDiamond
  <2>3. Foreseen(s, x + 1, "fDEF")
    BY <1>0, NothingForeseen
  <2> QED
    BY <1>3, <2>1, <2>2, <2>3 DEF Sound
<1> QED
  BY <1>1, <1>2, <1>3

(* A character is lowered in its place, which is seen no differently. *)
LEMMA LoweredSound ==
  ASSUME NEW s \in Line, NEW x \in Nat \ {0}, NEW t, NEW c,
         x \in DOMAIN s => t = [s EXCEPT ![x] = c] /\ c \in {s[x], tolower(s[x])},
         x \notin DOMAIN s => t = s
  PROVE  /\ t \in Line
         /\ \A st : Foreseen(s, x, st) => Foreseen(t, x, st)
<1>1. CASE x \notin DOMAIN s
  BY <1>1
<1>2. CASE x \in DOMAIN s
  <2>1. s[x] \in Code /\ DOMAIN s = 1..Len(s) /\ Len(s) \in Nat
    BY <1>2 DEF Line
  <2>2. c \in Code
    <3>1. PICK a \in 0..255 : a = s[x]
      BY <2>1 DEF Code
    <3>2. tolower(a) \in 0..255
      BY <3>1 DEF tolower, isupper
    <3> QED
      BY <1>2, <3>1, <3>2 DEF Code
  <2>3. t \in Line /\ Len(t) = Len(s) /\ t[x] = c /\ \A y \in 1..Len(s) : y # x => t[y] = s[y]
    <3>1. t = [s EXCEPT ![x] = c]
      BY <1>2
    <3>2. s \in Seq(Code) /\ x \in 1..Len(s)
      BY <1>2, <2>1 DEF Line
    <3>3. t \in Seq(Code) /\ Len(t) = Len(s)
      BY <2>2, <3>1, <3>2
    <3>4. t[x] = c /\ \A y \in 1..Len(s) : y # x => t[y] = s[y]
      BY <2>1, <3>1, <3>2
    <3> QED
      BY <3>3, <3>4 DEF Line
  <2>4. At(s, x) = s[x] /\ At(t, x) = c
    BY <1>2, <2>1, <2>3 DEF At
  <2>5. \A y : y # x => At(t, y) = At(s, y)
    BY <2>3 DEF At
  <2>6. PICK a \in Code : a = s[x]
    BY <2>1
  <2>7. c = a \/ (isupper(a) /\ c = a + 32)
    BY <1>2, <2>6 DEF tolower
  <2>8. /\ ispunct(a) => c = a
        /\ isdigit(a) => c = a
        /\ isalpha(a) => isalpha(c)
        /\ Letter(a) => Letter(c)
        /\ SET1(a) \/ SET2(a) => c = a
        /\ SET3(a) => SET3(c)
        /\ a = Greater => c = a
        /\ Continues(a) => c = a
        /\ Trails(a) => Trails(c)
    BY <2>6, <2>7 DEF isupper, isalpha, isdigit, isalnum, isgraph, ispunct, Letter, ISO8859, SET1, SET2, SET3,
                      Greater, Quote, Dash, Dot, Comma, Continues, Trails, Code
  <2>9. ASSUME NEW st, Foreseen(s, x, st)
        PROVE  Foreseen(t, x, st)
    <3>1. /\ st = "fANSX_1" => ispunct(At(t, x))
          /\ st = "fANSX_2" => isdigit(At(t, x))
          /\ st = "fANSX_3" => Letter(At(t, x))
          /\ st = "fCUR" => isdigit(At(t, x)) \/ SET2(At(t, x))
          /\ st = "fMUL" => isalpha(At(t, x)) \/ SET1(At(t, x))
          /\ st = "fSEP_2" => ispunct(At(t, x))
      BY <2>4, <2>6, <2>8, <2>9 DEF Foreseen
    <3>2. st = "fSEP_3" => ispunct(At(t, x)) /\ At(t, x + 1) = At(t, x)
      <4>1. x + 1 # x
        OBVIOUS
      <4> QED
        BY <2>4, <2>5, <2>6, <2>8, <2>9, <4>1 DEF Foreseen
    <3>3. st = "fADD" => \E j \in x..Len(t) : t[j] = Greater /\ \A b \in x..j - 1 : SET3(t[b])
      <4> SUFFICES ASSUME st = "fADD"
                   PROVE  \E j \in x..Len(t) : t[j] = Greater /\ \A b \in x..j - 1 : SET3(t[b])
        OBVIOUS
      <4>1. PICK j \in x..Len(s) : s[j] = Greater /\ \A b \in x..j - 1 : SET3(s[b])
        BY <2>9 DEF Foreseen
      <4>2. t[j] = Greater
        BY <2>1, <2>3, <2>6, <2>8, <4>1
      <4>3. \A b \in x..j - 1 : SET3(t[b])
        BY <2>1, <2>3, <2>6, <2>8, <4>1
      <4> QED
        BY <2>3, <4>1, <4>2, <4>3
    <3>4. \A n \in 1..5 : st = UtfStates[n] => \A j \in 0..n - 1 : Continues(At(t, x + j))
      <4> SUFFICES ASSUME NEW n \in 1..5, st = UtfStates[n], NEW j \in 0..n - 1
                   PROVE  Continues(At(t, x + j))
        OBVIOUS
      <4>1. Continues(At(s, x + j))
        BY <2>9, Ahead
      <4>2. j = 0 \/ x + j # x
        OBVIOUS
      <4>3. CASE j = 0
        <5>1. x + j = x
          BY <4>3
        <5> QED
          BY <2>4, <2>6, <2>8, <4>1, <5>1
      <4> QED
        BY <2>5, <4>1, <4>2, <4>3
    <3>5. \A n \in 1..3 : st = AsianStates[n] => \A j \in 0..n - 1 : Trails(At(t, x + j))
      <4> SUFFICES ASSUME NEW n \in 1..3, st = AsianStates[n], NEW j \in 0..n - 1
                   PROVE  Trails(At(t, x + j))
        OBVIOUS
      <4>1. Trails(At(s, x + j))
        BY <2>9, Ahead
      <4>2. j = 0 \/ x + j # x
        OBVIOUS
      <4>3. CASE j = 0
        <5>1. x + j = x
          BY <4>3
        <5> QED
          BY <2>4, <2>6, <2>8, <4>1, <5>1
      <4> QED
        BY <2>5, <4>1, <4>2, <4>3
    <3> QED
      BY <3>1, <3>2, <3>3, <3>4, <3>5 DEF Foreseen
  <2> QED
    BY <2>3, <2>9
<1> QED
  BY <1>1, <1>2

(* At the end of a line nothing more was foreseen. *)
Foreseeing == {"fANSX_1", "fANSX_2", "fANSX_3", "fCUR", "fMUL", "fADD", "fSEP_2", "fSEP_3"}
Calm(st) ==
  /\ st \notin Foreseeing
  /\ \A n \in 1..5 : st # UtfStates[n]
  /\ \A n \in 1..3 : st # AsianStates[n]

LEMMA CalmForeseesNothing == ASSUME NEW s, NEW x, NEW st, Calm(st) PROVE Foreseen(s, x, st)
BY DEF Calm, Foreseen, Foreseeing

LEMMA CalmAtEnd ==
  ASSUME NEW s \in Line, NEW x \in Nat \ {0}, NEW st, Foreseen(s, x, st), At(s, x) = 0
  PROVE  Calm(st)
<1>1. ~ispunct(0) /\ ~isdigit(0) /\ ~isalpha(0) /\ ~Letter(0) /\ ~SET1(0) /\ ~SET2(0) /\ ~SET3(0)
  BY DEF isupper, isalpha, isdigit, isalnum, isgraph, ispunct, Letter, ISO8859, SET1, SET2, SET3, Quote, Dash, Dot,
         Comma
<1>2. ~Continues(0) /\ ~Trails(0) /\ Greater # 0
  BY DEF Continues, Trails, Greater
<1>3. st \notin Foreseeing \ {"fADD"}
  BY <1>1 DEF Foreseen, Foreseeing
<1>4. st # "fADD"
  <2> SUFFICES ASSUME st = "fADD"
               PROVE  FALSE
    OBVIOUS
  <2>1. PICK j \in x..Len(s) : s[j] = Greater /\ \A b \in x..j - 1 : SET3(s[b])
    BY DEF Foreseen
  <2>2. Len(s) \in Nat
    BY DEF Line
  <2>3. x \in 1..Len(s)
    BY <2>1, <2>2
  <2>4. s[x] = 0
    BY <2>3 DEF At
  <2>5. j # x /\ x \in x..j - 1
    BY <1>2, <2>1, <2>2, <2>4
  <2> QED
    BY <1>1, <2>1, <2>4, <2>5
<1>5. \A n \in 1..5 : st # UtfStates[n]
  <2> SUFFICES ASSUME NEW n \in 1..5, st = UtfStates[n]
               PROVE  FALSE
    OBVIOUS
  <2>1. 0 \in 0..n - 1 /\ x + 0 = x
    OBVIOUS
  <2> QED
    BY <1>2, <2>1, Ahead
<1>6. \A n \in 1..3 : st # AsianStates[n]
  <2> SUFFICES ASSUME NEW n \in 1..3, st = AsianStates[n]
               PROVE  FALSE
    OBVIOUS
  <2>1. 0 \in 0..n - 1 /\ x + 0 = x
    OBVIOUS
  <2> QED
    BY <1>2, <2>1, Ahead
<1> QED
  BY <1>3, <1>4, <1>5, <1>6 DEF Calm, Foreseeing

-----------------------------------------------------------------------------
(* The buffer: places d[1], d[2], ... of the DIAMONDs in b, the n + 1 of an *)
(* n-gram, which no token longer than MAX_TOKEN_LEN + 1 keeps apart.        *)

T == MAX_TOKEN_LEN + 2

Cut(b, n, d) ==
  /\ d \in [1..n + 1 -> Nat] /\ d[1] = 1
  /\ {d[j] : j \in 1..n + 1} = Diamonds(b)
  /\ \A j, m \in 1..n + 1 : j < m => d[j] < d[m]
  /\ \A j \in 1..n : d[j + 1] <= d[j] + T

LEMMA Sizes == T \in Nat /\ MAX_TOKEN_LEN \in Nat \ {0} /\ MAX_SUBMATCH \in Nat \ {0} /\ EXTRA_TOKEN_LEN \in Nat
BY TokenizerAssumption DEF T

LEMMA SmallestOfNat ==
  ASSUME NEW S, S \subseteq Nat, S # {}
  PROVE  \E m \in S : \A y \in S : ~(y < m)
<1> DEFINE R == {d \in Nat \X Nat : d[1] < d[2]}
<1>1. IsWellFoundedOn(R, Nat)
  <2>1. R = OpToRel(<, Nat)
    BY Zenon DEF OpToRel
  <2> QED
    BY <2>1, NatLessThanWellFounded, Zenon
<1>2. PICK m \in S : \A y \in S : <<y, m>> \notin R
  <2> HIDE DEF R
  <2> QED
    BY <1>1, WFMin
<1>3. \A y \in S : ~(y < m)
  BY <1>2
<1> QED
  BY <1>3

LEMMA CutReach ==
  ASSUME NEW b, NEW n \in Nat, NEW d, Cut(b, n, d)
  PROVE  \A j \in 1..n + 1 : d[j] \in Nat /\ d[j] <= (j - 1) * T + 1
<1>1. d \in [1..n + 1 -> Nat] /\ d[1] = 1 /\ T \in Nat
  BY Sizes DEF Cut
<1>2. \A j \in 1..n : d[j + 1] <= d[j] + T
  BY DEF Cut
<1> DEFINE Far == {j \in 1..n + 1 : ~(d[j] <= (j - 1) * T + 1)}
<1>3. SUFFICES ASSUME Far # {}
               PROVE  FALSE
  BY <1>1
<1>4. PICK m \in Far : \A y \in Far : ~(y < m)
  <2>1. Far \subseteq Nat
    OBVIOUS
  <2> HIDE DEF Far
  <2> QED
    BY <1>3, <2>1, SmallestOfNat
<1>5. m # 1
  BY <1>1
<1>6. PICK j \in 1..n : m = j + 1
  BY <1>5
<1>7. d[j] <= (j - 1) * T + 1
  BY <1>4, <1>6
<1>8. (j - 1) * T + T = j * T
  BY <1>1
<1>9. d[j] \in Nat /\ d[j + 1] \in Nat /\ (j - 1) * T \in Nat /\ j * T \in Nat
  BY <1>1
<1>10. d[j + 1] <= j * T + 1
  <2>1. PICK a \in Nat, c \in Nat, x \in Nat, y \in Nat, t \in Nat :
          a = (j - 1) * T /\ c = j * T /\ x = d[j] /\ y = d[j + 1] /\ t = T
    BY <1>1, <1>9
  <2>2. y <= x + t /\ x <= a + 1 /\ a + t = c
    BY <1>2, <1>7, <1>8, <2>1
  <2>3. y <= c + 1
    BY <2>2
  <2> QED
    BY <2>1, <2>3
<1>11. ~(d[j + 1] <= j * T + 1)
  <2>1. (j + 1) - 1 = j
    OBVIOUS
  <2> QED
    BY <1>6, <2>1
<1> QED
  BY <1>10, <1>11

LEMMA CutLast ==
  ASSUME NEW b \in Seq(Code), NEW n \in Nat, NEW d, Cut(b, n, d)
  PROVE  /\ d[n + 1] \in Diamonds(b) /\ \A m \in Diamonds(b) : m <= d[n + 1]
         /\ d[n + 1] \in 1..Len(b)
         /\ 1 \in Diamonds(b)
<1>1. d \in [1..n + 1 -> Nat] /\ d[1] = 1 /\ {d[j] : j \in 1..n + 1} = Diamonds(b)
  BY DEF Cut
<1>2. \A j \in 1..n + 1 : j < n + 1 => d[j] < d[n + 1]
  BY DEF Cut
<1>3. d[n + 1] \in Diamonds(b) /\ 1 \in Diamonds(b)
  BY <1>1
<1>4. \A m \in Diamonds(b) : m <= d[n + 1]
  BY <1>1, <1>2
<1>5. Diamonds(b) \subseteq 1..Len(b)
  BY DEF Diamonds
<1> QED
  BY <1>3, <1>4, <1>5

LEMMA CutOne == \E d : Cut(<<DIAMOND>>, 0, d) /\ d[0 + 1] = 1
<1> DEFINE d == [j \in 1..0 + 1 |-> 1]
<1>1. d \in [1..0 + 1 -> Nat] /\ d[0 + 1] = 1 /\ d[1] = 1 /\ {d[j] : j \in 1..0 + 1} = {1}
  OBVIOUS
<1>2. Diamonds(<<DIAMOND>>) = {1}
  BY DEF Diamonds
<1> HIDE DEF d
<1>3. \A j, m \in 1..0 + 1 : ~(j < m)
  OBVIOUS
<1>4. 1..0 = {}
  OBVIOUS
<1>5. Cut(<<DIAMOND>>, 0, d)
  BY <1>1, <1>2, <1>3, <1>4 DEF Cut
<1> QED
  BY <1>1, <1>5

LEMMA CutGrows ==
  ASSUME NEW b \in Seq(Code), NEW n \in Nat, NEW d, Cut(b, n, d), NEW c \in Code, c # DIAMOND
  PROVE  Cut(Append(b, c), n, d)
<1>1. Diamonds(Append(b, c)) = Diamonds(b)
  BY DEF Diamonds
<1> QED
  BY <1>1 DEF Cut

LEMMA CutCloses ==
  ASSUME NEW b \in Seq(Code), NEW n \in Nat, NEW d, Cut(b, n, d), Len(b) + 1 <= d[n + 1] + T
  PROVE  \E e : Cut(Append(b, DIAMOND), n + 1, e) /\ e[n + 2] = Len(b) + 1
<1> DEFINE e == [j \in 1..(n + 1) + 1 |-> IF j = n + 2 THEN Len(b) + 1 ELSE d[j]]
           full == Append(b, DIAMOND)
<1>1. d \in [1..n + 1 -> Nat] /\ d[1] = 1 /\ {d[j] : j \in 1..n + 1} = Diamonds(b)
  BY DEF Cut
<1>2. \A j, m \in 1..n + 1 : j < m => d[j] < d[m]
  BY DEF Cut
<1>3. \A j \in 1..n : d[j + 1] <= d[j] + T
  BY DEF Cut
<1>4. Len(b) \in Nat /\ \A j \in 1..n + 1 : d[j] \in 1..Len(b)
  <2>1. Diamonds(b) \subseteq 1..Len(b)
    BY DEF Diamonds
  <2> QED
    BY <1>1, <2>1
<1>5. e \in [1..(n + 1) + 1 -> Nat] /\ e[n + 2] = Len(b) + 1 /\ \A j \in 1..n + 1 : e[j] = d[j]
  BY <1>1, <1>4
<1> HIDE DEF e
<1>6. Diamonds(full) = Diamonds(b) \cup {Len(b) + 1}
  BY DEF Diamonds
<1>7. {e[j] : j \in 1..(n + 1) + 1} = {d[j] : j \in 1..n + 1} \cup {Len(b) + 1}
  <2>1. 1..(n + 1) + 1 = (1..n + 1) \cup {n + 2}
    OBVIOUS
  <2> QED
    BY <1>5, <2>1
<1>8. \A j, m \in 1..(n + 1) + 1 : j < m => e[j] < e[m]
  <2> SUFFICES ASSUME NEW j \in 1..(n + 1) + 1, NEW m \in 1..(n + 1) + 1, j < m
               PROVE  e[j] < e[m]
    OBVIOUS
  <2>1. j \in 1..n + 1
    OBVIOUS
  <2>2. CASE m \in 1..n + 1
    BY <1>2, <1>5, <2>1, <2>2
  <2>3. CASE m = n + 2
    BY <1>4, <1>5, <2>1, <2>3
  <2> QED
    BY <2>2, <2>3
<1>9. \A j \in 1..n + 1 : e[j + 1] <= e[j] + T
  <2> SUFFICES ASSUME NEW j \in 1..n + 1
               PROVE  e[j + 1] <= e[j] + T
    OBVIOUS
  <2>1. CASE j \in 1..n
    <3>1. j + 1 \in 1..n + 1
      BY <2>1
    <3> QED
      BY <1>3, <1>5, <2>1, <3>1
  <2>2. CASE j = n + 1
    <3>1. e[j + 1] = Len(b) + 1 /\ e[j] = d[n + 1]
      BY <1>5, <2>2
    <3> QED
      BY <3>1
  <2> QED
    BY <2>1, <2>2
<1>10. Cut(full, n + 1, e)
  <2>1. e[1] = 1
    BY <1>1, <1>5
  <2> QED
    BY <1>1, <1>5, <1>6, <1>7, <1>8, <1>9, <2>1 DEF Cut
<1> QED
  BY <1>5, <1>10

(* The oldest token makes room. *)
LEMMA CutMoves ==
  ASSUME NEW b \in Seq(Code), NEW n \in Nat \ {0}, NEW d, Cut(b, n, d), d[n + 1] = Len(b)
  PROVE  /\ Moved(b) \in Seq(Code)
         /\ \E e : Cut(Moved(b), n - 1, e) /\ e[n] = Len(Moved(b))
<1>1. d \in [1..n + 1 -> Nat] /\ d[1] = 1 /\ {d[j] : j \in 1..n + 1} = Diamonds(b)
  BY DEF Cut
<1>2. \A j, m \in 1..n + 1 : j < m => d[j] < d[m]
  BY DEF Cut
<1>3. \A j \in 1..n : d[j + 1] <= d[j] + T
  BY DEF Cut
<1>4. Len(b) \in Nat /\ \A j \in 1..n + 1 : d[j] \in 1..Len(b)
  <2>1. Diamonds(b) \subseteq 1..Len(b)
    BY DEF Diamonds
  <2> QED
    BY <1>1, <2>1
<1>5. PICK f \in 2..Len(b) : f = d[2]
  <2>1. 2 \in 1..n + 1 /\ 1 \in 1..n + 1 /\ 1 < 2
    OBVIOUS
  <2>2. d[1] < d[2]
    BY <1>2, <2>1
  <2> QED
    BY <1>1, <1>4, <2>1, <2>2
<1>6. f \in Diamonds(b) \ {1} /\ \A m \in Diamonds(b) \ {1} : f <= m
  <2>1. 2 \in 1..n + 1
    OBVIOUS
  <2>2. \A j \in 1..n + 1 : d[j] # 1 => d[2] <= d[j]
    <3> SUFFICES ASSUME NEW j \in 1..n + 1, d[j] # 1
                 PROVE  d[2] <= d[j]
      OBVIOUS
    <3>1. j # 1
      BY <1>1
    <3>2. j = 2 \/ 2 < j
      BY <3>1
    <3> QED
      BY <1>2, <1>4, <2>1, <3>2
  <2> QED
    BY <1>1, <1>5, <2>1, <2>2
<1> DEFINE later == Diamonds(b) \ {1}
           small == CHOOSE m \in later : \A y \in later : m <= y
<1>7. small = f
  <2>1. small \in later /\ \A y \in later : small <= y
    <3> HIDE DEF later
    <3>1. \E m \in later : \A y \in later : m <= y
      BY <1>6 DEF later
    <3> QED
      BY <3>1
  <2>2. later \subseteq Nat
    BY <1>1
  <2> HIDE DEF small
  <2> QED
    BY <1>6, <2>1, <2>2
<1>8. Moved(b) = SubSeq(b, f, Len(b))
  <2>1. Moved(b) = SubSeq(b, small, Len(b))
    BY Zenon DEF Moved
  <2> HIDE DEF small
  <2> QED
    BY <1>7, <2>1
<1> PICK t : t = SubSeq(b, f, Len(b))
  OBVIOUS
<1>9. t \in Seq(Code) /\ Len(t) = Len(b) - f + 1 /\ \A j \in 1..Len(t) : t[j] = b[f + j - 1]
  BY <1>4, <1>5
<1> DEFINE e == [j \in 1..(n - 1) + 1 |-> d[j + 1] - f + 1]
<1>10. \A j \in 1..n : j + 1 \in 1..n + 1 /\ d[j + 1] \in f..Len(b)
  <2> SUFFICES ASSUME NEW j \in 1..n
               PROVE  j + 1 \in 1..n + 1 /\ d[j + 1] \in f..Len(b)
    OBVIOUS
  <2>1. j + 1 \in 1..n + 1 /\ 1 \in 1..n + 1 /\ 1 < j + 1
    OBVIOUS
  <2>2. d[j + 1] # 1
    BY <1>1, <1>2, <2>1
  <2>3. d[j + 1] \in Diamonds(b) \ {1}
    BY <1>1, <2>1, <2>2
  <2> QED
    BY <1>4, <1>6, <2>1, <2>3
<1>11. e \in [1..(n - 1) + 1 -> Nat] /\ \A j \in 1..n : e[j] = d[j + 1] - f + 1
  BY <1>5, <1>10
<1> HIDE DEF e
<1>12. e[1] = 1
  BY <1>5, <1>11
<1>13. {e[j] : j \in 1..(n - 1) + 1} = Diamonds(t)
  <2>1. (n - 1) + 1 = n
    OBVIOUS
  <2>2. ASSUME NEW j \in 1..n
        PROVE  e[j] \in Diamonds(t)
    <3>1. d[j + 1] \in Diamonds(b)
      BY <1>1, <1>10
    <3>2. b[d[j + 1]] = DIAMOND
      BY <3>1 DEF Diamonds
    <3>3. e[j] \in 1..Len(t) /\ f + e[j] - 1 = d[j + 1]
      <4>1. PICK y \in f..Len(b) : y = d[j + 1]
        BY <1>10
      <4>2. e[j] = y - f + 1
        BY <1>11, <4>1
      <4>3. y - f + 1 \in 1..Len(b) - f + 1 /\ f + (y - f + 1) - 1 = y
        BY <1>4
      <4>4. e[j] \in 1..Len(b) - f + 1 /\ f + e[j] - 1 = y
        BY <4>2, <4>3, Zenon
      <4> QED
        BY <1>9, <4>1, <4>4, Zenon
    <3>4. DOMAIN t = 1..Len(t)
      BY <1>9
    <3> QED
      BY <1>9, <3>2, <3>3, <3>4 DEF Diamonds
  <2>3. ASSUME NEW y \in Diamonds(t)
        PROVE  \E j \in 1..n : e[j] = y
    <3>1. y \in 1..Len(t) /\ t[y] = DIAMOND
      BY <1>9 DEF Diamonds
    <3>2. f + y - 1 \in 1..Len(b) /\ b[f + y - 1] = DIAMOND
      <4>1. y \in 1..Len(b) - f + 1 /\ t[y] = b[f + y - 1]
        BY <1>9, <3>1
      <4>2. PICK l \in Nat : l = Len(b)
        BY <1>5
      <4>3. f + y - 1 \in 1..l
        BY <4>1, <4>2
      <4> QED
        BY <3>1, <4>1, <4>2, <4>3, Zenon
    <3>3. f + y - 1 \in Diamonds(b)
      BY <3>2 DEF Diamonds
    <3>4. PICK j \in 1..n + 1 : d[j] = f + y - 1
      BY <1>1, <3>3
    <3>5. j # 1
      BY <1>1, <1>5, <3>1, <3>4
    <3>6. j - 1 \in 1..n /\ (j - 1) + 1 = j
      BY <3>5
    <3>7. e[j - 1] = (f + y - 1) - f + 1
      BY <1>11, <3>4, <3>6
    <3>8. e[j - 1] = y
      BY <1>5, <1>9, <3>1, <3>7
    <3> QED
      BY <3>6, <3>8
  <2> QED
    BY <2>1, <2>2, <2>3
<1>14. \A j, m \in 1..(n - 1) + 1 : j < m => e[j] < e[m]
  <2> SUFFICES ASSUME NEW j \in 1..n, NEW m \in 1..n, j < m
               PROVE  e[j] < e[m]
    OBVIOUS
  <2>1. d[j + 1] < d[m + 1]
    BY <1>2, <1>10
  <2>2. PICK x \in f..Len(b), y \in f..Len(b) : x = d[j + 1] /\ y = d[m + 1]
    BY <1>10
  <2>3. e[j] = x - f + 1 /\ e[m] = y - f + 1 /\ x < y
    BY <1>11, <2>1, <2>2
  <2> QED
    BY <1>4, <1>5, <2>3
<1>15. \A j \in 1..n - 1 : e[j + 1] <= e[j] + T
  <2> SUFFICES ASSUME NEW j \in 1..n - 1
               PROVE  e[j + 1] <= e[j] + T
    OBVIOUS
  <2>1. j \in 1..n /\ j + 1 \in 1..n
    OBVIOUS
  <2>2. d[(j + 1) + 1] <= d[j + 1] + T
    BY <1>3, <2>1
  <2>3. PICK x \in f..Len(b), y \in f..Len(b), u \in Nat : x = d[j + 1] /\ y = d[(j + 1) + 1] /\ u = T
    BY <1>10, <2>1, Sizes
  <2>4. e[j] = x - f + 1 /\ e[j + 1] = y - f + 1 /\ y <= x + u
    BY <1>11, <2>1, <2>2, <2>3
  <2>5. e[j + 1] <= e[j] + u
    BY <1>4, <1>5, <2>4
  <2> QED
    BY <2>3, <2>5
<1>16. Cut(t, n - 1, e)
  BY <1>11, <1>12, <1>13, <1>14, <1>15 DEF Cut
<1>17. e[n] = Len(t)
  BY <1>4, <1>5, <1>9, <1>11
<1> QED
  BY <1>8, <1>9, <1>16, <1>17

-----------------------------------------------------------------------------
(* The invariant: the buffer holds at most input.w tokens, and every one is  *)
(* still short enough; between lines it ends with a DIAMOND, and after the   *)
(* end of a file, until the next begins, perhaps with two.                   *)

Valued(n) == n \in Nat /\ n <= input.w /\ (input.w = 1 => n = 0)
Filled(b, n, ts) ==
  /\ b \in Seq(Code) /\ Valued(n)
  /\ \E d : Cut(b, n, d) /\ ts \in {d[n + 1], d[n + 1] + 1} /\ Len(b) < ts + MAX_TOKEN_LEN
Closed(b, n) ==
  /\ b \in Seq(Code) /\ Valued(n)
  /\ \E d : Cut(b, n, d) /\ d[n + 1] = Len(b)

BufferInv ==
  /\ input \in Inputs /\ row \in Nat /\ line \in Line
  /\ file \in 0..Len(input.files) /\ (pc \in {"line", "regex", "std", "reset"} => file # 0)
  /\ pc \in {"options", "file", "line", "regex", "std", "reset", "end", "fatal"}
  /\ IF pc \in {"options", "fatal"} THEN o = 0 ELSE ValidOrder(input.w)
  /\ pc \in {"regex", "std"} => Filled(h, o, tstart)
  /\ pc = "regex" => p = 1
  /\ pc \notin {"std", "file", "end"} => Closed(h, o)
  /\ pc \in {"file", "end"} => Valued(o) /\ Len(h) \in Nat /\ Len(h) <= o * T + 2
  /\ input.cp \notin Machines => state = "fDEF"
  /\ pc = "std" => p \in Nat \ {0} /\ Foreseen(line, p, state)
  /\ pc # "std" => Calm(state)

LEMMA InputOf ==
  ASSUME input \in Inputs
  PROVE  input.w \in Nat /\ input.cp \in CharParsers /\ input.files \in Seq(Seq(Line))
<1>1. Char \subseteq Code
  BY DEF Char, Code
<1>2. input.files \in Seq(Seq(Seq(Char))) /\ input.w \in Nat /\ input.cp \in CharParsers
  BY TokenizerAssumption
<1>3. Seq(Char) \subseteq Seq(Code)
  BY <1>1
<1>4. Seq(Seq(Char)) \subseteq Seq(Seq(Code))
  BY <1>3
<1>5. input.files \in Seq(Seq(Seq(Code)))
  BY <1>2, <1>4
<1> QED
  BY <1>2, <1>5 DEF Line

LEMMA EmptyCloses ==
  ASSUME input.w \in Nat
  PROVE  Closed(<<DIAMOND>>, 0)
<1>1. <<DIAMOND>> \in Seq(Code) /\ Len(<<DIAMOND>>) = 1 /\ Valued(0)
  <2>1. DIAMOND \in Code
    BY DEF DIAMOND, Code
  <2> QED
    BY <2>1 DEF Valued
<1> QED
  BY <1>1, CutOne DEF Closed

LEMMA ClosedIsFilled ==
  ASSUME NEW b, NEW n, Closed(b, n)
  PROVE  Filled(b, n, Len(b)) /\ Filled(b, n, Len(b) + 1)
<1>1. PICK d : Cut(b, n, d) /\ d[n + 1] = Len(b)
  BY DEF Closed
<1>2. Len(b) \in Nat /\ Len(b) < Len(b) + MAX_TOKEN_LEN /\ Len(b) < (Len(b) + 1) + MAX_TOKEN_LEN
  BY Sizes DEF Closed
<1> QED
  BY <1>1, <1>2 DEF Closed, Filled

LEMMA LastCloses ==
  ASSUME NEW b \in Seq(Code), Valued(o), NEW d, Cut(b, o, d), b[Len(b)] = DIAMOND
  PROVE  Closed(b, o)
<1>1. o \in Nat
  BY DEF Valued
<1>2. d[o + 1] \in 1..Len(b) /\ \A m \in Diamonds(b) : m <= d[o + 1]
  BY <1>1, CutLast
<1>3. Len(b) \in Diamonds(b)
  BY <1>2 DEF Diamonds
<1>4. d[o + 1] = Len(b)
  BY <1>2, <1>3
<1> QED
  BY <1>4 DEF Closed

LEMMA EndTokenCloses ==
  ASSUME input.w \in Nat \ {0}, Valued(o), NEW b \in Seq(Code), NEW d, Cut(b, o, d), Len(b) + 1 <= d[o + 1] + T
  PROVE  /\ Closed(EndToken(b).h, EndToken(b).o)
         /\ EndToken(b).tstart \in {Len(EndToken(b).h), Len(EndToken(b).h) + 1}
<1>1. o \in Nat /\ o <= input.w
  BY DEF Valued
<1>2. CASE input.w = 1
  <2>1. EndToken(b).h = <<DIAMOND>> /\ EndToken(b).o = o /\ EndToken(b).tstart = 1
    BY <1>2 DEF EndToken
  <2>2. o = 0 /\ Len(<<DIAMOND>>) = 1
    BY <1>2 DEF Valued
  <2> QED
    BY <2>1, <2>2, EmptyCloses
<1>3. CASE input.w # 1
  <2> PICK full : full = Append(b, DIAMOND)
    OBVIOUS
  <2>1. full \in Seq(Code) /\ Len(full) = Len(b) + 1
    <3>1. DIAMOND \in Code
      BY DEF DIAMOND, Code
    <3> QED
      BY <3>1
  <2>2. PICK e : Cut(full, o + 1, e) /\ e[o + 2] = Len(full)
    BY <1>1, <2>1, CutCloses
  <2>3. CASE o + 1 > input.w
    <3>1. EndToken(b).h = Moved(full) /\ EndToken(b).o = o /\ EndToken(b).tstart = Len(Moved(full)) + 1
      BY <1>3, <2>3 DEF EndToken
    <3>2. o + 1 \in Nat \ {0} /\ (o + 1) + 1 = o + 2 /\ (o + 1) - 1 = o
      BY <1>1
    <3>3. Moved(full) \in Seq(Code) /\ \E f : Cut(Moved(full), o, f) /\ f[o + 1] = Len(Moved(full))
      BY <2>1, <2>2, <3>2, CutMoves
    <3> QED
      BY <3>1, <3>3 DEF Closed
  <2>4. CASE ~(o + 1 > input.w)
    <3>1. EndToken(b).h = full /\ EndToken(b).o = o + 1 /\ EndToken(b).tstart = Len(full)
      BY <1>3, <2>4 DEF EndToken
    <3>2. Valued(o + 1) /\ (o + 1) + 1 = o + 2
      BY <1>1, <1>3, <2>4 DEF Valued
    <3> QED
      BY <2>1, <2>2, <3>1, <3>2 DEF Closed
  <2> QED
    BY <2>3, <2>4
<1> QED
  BY <1>2, <1>3

(* One character. *)
LEMMA CharKeeps ==
  ASSUME BufferInv, TokenizeChar
  PROVE  BufferInv'
<1> DEFINE low == Lowered(<<line[p]>>)[1]
           s == IF p \in DOMAIN line THEN [line EXCEPT ![p] = low] ELSE line
           c == At(s, p)
           g == good_char(s, p, state, input.cp)
           held == IF g.good \in {"TOKEN", "TOKEN_END"} /\ Fits(MAX_TOKEN_LEN + 1) THEN Append(h, c) ELSE h
           goes_on == g.good = "IGNORE" \/ (g.good = "TOKEN" /\ Fits(MAX_TOKEN_LEN))
           next == IF goes_on \/ (Last(held) = DIAMOND /\ ~Resets(c))
                   THEN [h |-> IF g.good = "IGNORE" THEN h ELSE held, tstart |-> tstart, o |-> o, told |-> <<>>]
                   ELSE EndToken(held)
           b == IF Resets(c) /\ ~goes_on THEN Cleared ELSE next
<1>1. /\ pc = "std"
      /\ line' = s /\ state' = g.state
      /\ h' = b.h /\ tstart' = b.tstart /\ o' = b.o
      /\ p' = p + 1
      /\ pc' = IF c = 0 THEN "reset" ELSE pc
      /\ UNCHANGED <<input, file, row>>
  BY Zenon DEF TokenizeChar, fileVars, optionVars, regexVars
<1>2. /\ input \in Inputs /\ row \in Nat /\ line \in Line /\ ValidOrder(input.w)
      /\ file \in 0..Len(input.files) /\ file # 0
      /\ Filled(h, o, tstart) /\ p \in Nat \ {0} /\ Foreseen(line, p, state)
      /\ input.cp \notin Machines => state = "fDEF"
  BY <1>1 DEF BufferInv
<1>3. input.w \in Nat \ {0} /\ input.cp \in CharParsers
  BY <1>2, InputOf DEF ValidOrder
<1>4. s \in Line /\ Foreseen(s, p, state)
  <2>1. p \in DOMAIN line => s = [line EXCEPT ![p] = low]
    OBVIOUS
  <2>2. p \notin DOMAIN line => s = line
    OBVIOUS
  <2>3. low \in {line[p], tolower(line[p])}
    <3> PICK a : a = line[p]
      OBVIOUS
    <3>1. Lowered(<<a>>)[1] \in {a, tolower(a)}
      BY DEF Lowered
    <3> QED
      BY <3>1
  <2> HIDE DEF s, low
  <2> QED
    BY <1>2, <2>1, <2>2, <2>3, LoweredSound
<1> HIDE DEF s
<1>5. c \in Code
  BY <1>4, AtCode
<1>6. /\ c # 0 => Sound(s, p, g)
      /\ c = 0 => g = DISCARD(state)
      /\ input.cp \notin Machines => g.state = "fDEF"
  BY <1>2, <1>3, <1>4, GoodCharSound
<1>7. /\ g.good \in {"TOKEN", "TOKEN_END"} => c # DIAMOND /\ c # 0
      /\ c # 0 => Foreseen(s, p + 1, g.state)
      /\ c = 0 => g.state = state /\ ~goes_on /\ g.good = "DISCARD"
  BY <1>6 DEF Sound, DISCARD
<1> HIDE DEF c, g
<1>8. PICK d : Cut(h, o, d) /\ tstart \in {d[o + 1], d[o + 1] + 1} /\ Len(h) < tstart + MAX_TOKEN_LEN
  BY <1>2 DEF Filled
<1>9. h \in Seq(Code) /\ Valued(o) /\ o \in Nat
  BY <1>2 DEF Filled, Valued
<1>10. d[o + 1] \in 1..Len(h) /\ Len(h) \in Nat /\ tstart \in Nat /\ 1 \in Diamonds(h)
  BY <1>8, <1>9, CutLast
<1>11. /\ held \in Seq(Code) /\ Cut(held, o, d) /\ Len(held) <= tstart + MAX_TOKEN_LEN
       /\ Last(held) = DIAMOND => held = h
       /\ goes_on /\ g.good # "IGNORE" => Len(held) < tstart + MAX_TOKEN_LEN
  <2>1. CASE g.good \in {"TOKEN", "TOKEN_END"}
    <3>1. Fits(MAX_TOKEN_LEN + 1)
      BY <1>8, <1>10, Sizes DEF Fits
    <3>2. held = Append(h, c)
      BY <2>1, <3>1
    <3> HIDE DEF held
    <3>3. held \in Seq(Code) /\ Len(held) = Len(h) + 1 /\ held[Len(held)] = c
      BY <1>5, <1>9, <3>2
    <3>4. Cut(held, o, d)
      BY <1>5, <1>7, <1>8, <1>9, <2>1, <3>2, CutGrows
    <3>5. Last(held) # DIAMOND
      BY <1>7, <2>1, <3>3 DEF Last
    <3>6. Len(held) <= tstart + MAX_TOKEN_LEN
      BY <1>8, <1>10, <3>3, Sizes
    <3>7. goes_on /\ g.good # "IGNORE" => Len(held) < tstart + MAX_TOKEN_LEN
      BY <3>3 DEF Fits
    <3> QED
      BY <3>3, <3>4, <3>5, <3>6, <3>7
  <2>2. CASE g.good \notin {"TOKEN", "TOKEN_END"}
    <3>1. held = h
      BY <2>2
    <3> HIDE DEF held
    <3>2. Len(h) <= tstart + MAX_TOKEN_LEN
      BY <1>8, <1>10, Sizes
    <3> QED
      BY <1>8, <1>9, <2>2, <3>1, <3>2
  <2> QED
    BY <2>1, <2>2
<1> HIDE DEF held
<1>12. PICK e : e = EndToken(held)
  OBVIOUS
<1>13. Closed(e.h, e.o) /\ e.tstart \in {Len(e.h), Len(e.h) + 1}
  <2>1. Len(held) \in Nat /\ Len(held) + 1 <= d[o + 1] + T
    BY <1>8, <1>10, <1>11, Sizes DEF T
  <2> QED
    BY <1>3, <1>9, <1>11, <1>12, <2>1, EndTokenCloses
<1>14. Filled(b.h, b.o, b.tstart) /\ (c = 0 => Closed(b.h, b.o))
  <2>1. CASE Resets(c) /\ ~goes_on
    <3>1. b.h = <<DIAMOND>> /\ b.o = 0 /\ b.tstart = Len(<<DIAMOND>>)
      BY <2>1 DEF Cleared
    <3>2. Closed(<<DIAMOND>>, 0)
      BY <1>3, EmptyCloses
    <3> HIDE DEF b
    <3> QED
      BY <3>1, <3>2, ClosedIsFilled
  <2>2. CASE goes_on /\ g.good = "IGNORE"
    <3>1. b.h = h /\ b.o = o /\ b.tstart = tstart
      BY <2>2
    <3> HIDE DEF b
    <3> QED
      BY <1>2, <1>7, <2>2, <3>1
  <2>3. CASE goes_on /\ g.good # "IGNORE"
    <3>1. b.h = held /\ b.o = o /\ b.tstart = tstart
      BY <2>3
    <3>2. Filled(held, o, tstart)
      BY <1>8, <1>9, <1>11, <2>3 DEF Filled
    <3> HIDE DEF b
    <3> QED
      BY <1>7, <2>3, <3>1, <3>2
  <2>4. CASE ~Resets(c) /\ ~goes_on /\ Last(held) = DIAMOND
    <3>1. b.h = held /\ b.o = o /\ b.tstart = tstart
      BY <2>4
    <3>2. held = h /\ h[Len(h)] = DIAMOND
      BY <1>11, <2>4 DEF Last
    <3>3. Closed(h, o)
      BY <1>8, <1>9, <3>2, LastCloses
    <3> HIDE DEF b
    <3> QED
      BY <1>2, <3>1, <3>2, <3>3
  <2>5. CASE ~Resets(c) /\ ~goes_on /\ Last(held) # DIAMOND
    <3>1. b = e
      BY <1>12, <2>5
    <3> HIDE DEF b
    <3> QED
      BY <1>13, <3>1, ClosedIsFilled
  <2> QED
    BY <2>1, <2>2, <2>3, <2>4, <2>5
<1> HIDE DEF b, goes_on
<1>15. p' \in Nat \ {0} /\ (c # 0 => Foreseen(line', p', state')) /\ (c = 0 => Calm(state'))
  <2>1. c = 0 => Calm(state)
    BY <1>2, <1>4, CalmAtEnd DEF c
  <2> QED
    BY <1>1, <1>2, <1>7, <2>1
<1>16. Filled(h, o, tstart)' /\ (c = 0 => Closed(h, o)')
  BY <1>1, <1>14 DEF Filled, Closed, Valued
<1>17. input.cp \notin Machines => state' = "fDEF"
  BY <1>1, <1>6
<1> QED
  BY <1>1, <1>2, <1>4, <1>15, <1>16, <1>17 DEF BufferInv

LEMMA ClosedLength ==
  ASSUME Closed(h, o)
  PROVE  Len(h) \in Nat /\ Len(h) <= o * T + 2
<1>1. PICK d : Cut(h, o, d) /\ d[o + 1] = Len(h)
  BY DEF Closed
<1>2. h \in Seq(Code) /\ o \in Nat /\ T \in Nat /\ o + 1 \in 1..o + 1 /\ (o + 1) - 1 = o
  BY Sizes DEF Closed, Valued
<1>3. Len(h) \in Nat /\ Len(h) <= o * T + 1
  BY <1>1, <1>2, CutReach
<1>4. PICK n \in Nat : n = o * T
  BY <1>2
<1> QED
  BY <1>3, <1>4

LEMMA OthersKeep ==
  ASSUME BufferInv, Next, ~TokenizeChar
  PROVE  BufferInv'
<1>0. input \in Inputs /\ row \in Nat /\ line \in Line /\ input.w \in Nat
      /\ input.files \in Seq(Seq(Line)) /\ file \in 0..Len(input.files)
  BY InputOf DEF BufferInv
<1> USE DEF optionVars, fileVars, regexVars, stdVars
<1>1. CASE LoadRegex
  <2>1. /\ pc = "options" /\ pc' \in {"options", "fatal"}
        /\ UNCHANGED <<input, file, row, line, p, state, h, tstart, o>>
    BY <1>1 DEF LoadRegex
  <2> QED
    BY <2>1 DEF BufferInv, Closed, Valued
<1>2. CASE StartReading
  <2>1. /\ pc = "options" /\ pc' = IF ValidOrder(input.w) THEN "file" ELSE "fatal"
        /\ UNCHANGED <<input, file, row, line, p, state, h, tstart, o>>
    BY <1>2 DEF StartReading
  <2>2. Closed(h, o) /\ o = 0
    BY <2>1 DEF BufferInv
  <2>3. Len(h) \in Nat /\ Len(h) <= o * T + 2
    BY <2>2, ClosedLength
  <2> QED
    BY <2>1, <2>2, <2>3 DEF BufferInv, Closed, Valued
<1>9. CASE BeginFile
  <2>1. /\ pc = "file" /\ pc' = "line" /\ file' = file + 1 /\ file < Len(input.files) /\ row' = 0
        /\ UNCHANGED <<input, line, p, state>>
        /\ h' = <<DIAMOND>> /\ o' = 0
    BY <1>9 DEF BeginFile, Cleared
  <2>2. Closed(<<DIAMOND>>, 0)
    BY <1>0, EmptyCloses
  <2>3. Closed(h, o)'
    BY <2>1, <2>2 DEF Closed, Valued
  <2>4. file' \in 0..Len(input.files) /\ file' # 0
    BY <1>0, <2>1
  <2> QED
    BY <2>1, <2>3, <2>4 DEF BufferInv
<1>10. CASE EndOfFiles
  <2>1. pc = "file" /\ pc' = "end" /\ UNCHANGED <<input, file, row, line, p, state, h, tstart, o>>
    BY <1>10 DEF EndOfFiles
  <2> QED
    BY <2>1 DEF BufferInv, Valued
<1>3. CASE ReadLine
  <2>1. /\ pc = "line" /\ row < Len(input.files[file]) /\ row' = row + 1
        /\ line' = input.files[file][row + 1] /\ p' = 1
        /\ tstart' = CHOOSE n \in Diamonds(h) : \A m \in Diamonds(h) : m <= n
        /\ pc' \in {"line", "regex", "std"}
        /\ UNCHANGED <<input, file, state, h, o>>
    BY <1>3 DEF ReadLine
  <2>2. line' \in Line
    <3>1. file \in 1..Len(input.files)
      BY <1>0, <2>1 DEF BufferInv
    <3>2. input.files[file] \in Seq(Line)
      BY <1>0, <3>1
    <3> QED
      BY <1>0, <2>1, <3>2
  <2>3. Closed(h, o) /\ Calm(state) /\ ValidOrder(input.w)
    BY <2>1 DEF BufferInv
  <2>4. PICK d : Cut(h, o, d) /\ d[o + 1] = Len(h)
    BY <2>3 DEF Closed
  <2>5. Len(h) \in Nat /\ Diamonds(h) \subseteq Nat /\ Len(h) \in Diamonds(h) /\ \A m \in Diamonds(h) : m <= Len(h)
    <3>1. h \in Seq(Code) /\ o \in Nat
      BY <2>3 DEF Closed, Valued
    <3>2. Diamonds(h) \subseteq Nat
      BY <3>1 DEF Diamonds
    <3> QED
      BY <2>4, <3>1, <3>2, CutLast
  <2>6. tstart' = Len(h)
    <3> DEFINE n == CHOOSE n \in Diamonds(h) : \A m \in Diamonds(h) : m <= n
    <3>1. n \in Diamonds(h) /\ \A m \in Diamonds(h) : m <= n
      BY <2>5
    <3> HIDE DEF n
    <3>2. n = Len(h)
      BY <2>5, <3>1
    <3> QED
      BY <2>1, <3>2 DEF n
  <2>7. Filled(h, o, tstart)' /\ Closed(h, o)'
    <3>1. Filled(h, o, Len(h))
      BY <2>3, ClosedIsFilled
    <3> QED
      BY <2>1, <2>3, <2>6, <3>1 DEF Filled, Closed, Valued
  <2>8. Foreseen(line', 1, state)
    BY <2>3, CalmForeseesNothing
  <2> QED
    BY <1>0, <2>1, <2>2, <2>3, <2>7, <2>8 DEF BufferInv
<1>4. CASE RegexMatch
  <2>1. pc = "regex" /\ UNCHANGED <<input, pc, file, row, line, p, state, h, tstart, o>>
    BY <1>4 DEF RegexMatch
  <2> QED
    BY <2>1 DEF BufferInv, Filled, Closed, Valued
<1>5. CASE NextRegex
  <2>1. pc = "regex" /\ pc' \in {"regex", "line", "std"} /\ UNCHANGED <<input, file, row, line, p, state, h, tstart, o>>
    BY <1>5 DEF NextRegex
  <2>2. p = 1 /\ Foreseen(line, 1, state)
    BY <2>1, CalmForeseesNothing DEF BufferInv
  <2> QED
    BY <2>1, <2>2 DEF BufferInv, Filled, Closed, Valued
<1>6. CASE ResetAfterLine
  <2>1. /\ pc = "reset" /\ pc' = "line" /\ UNCHANGED <<input, file, row, line, p, state>>
        /\ (h' = h /\ o' = o) \/ (h' = <<DIAMOND>> /\ o' = 0)
    BY <1>6 DEF ResetAfterLine, Cleared
  <2>2. Closed(h, o) /\ Closed(<<DIAMOND>>, 0)
    BY <1>0, <2>1, EmptyCloses DEF BufferInv
  <2>3. Closed(h, o)'
    BY <2>1, <2>2 DEF Closed, Valued
  <2> QED
    BY <2>1, <2>3 DEF BufferInv
<1>7. CASE Flush
  <2>1. /\ pc = "line" /\ pc' = "file" /\ UNCHANGED <<input, file, row, line, p, state, o>>
        /\ h' \in {h, <<DIAMOND>>, Append(h, DIAMOND)}
    BY <1>7 DEF Flush
  <2>2. Closed(h, o) /\ ValidOrder(input.w)
    BY <2>1 DEF BufferInv
  <2>3. PICK d : Cut(h, o, d) /\ d[o + 1] = Len(h)
    BY <2>2 DEF Closed
  <2>4. h \in Seq(Code) /\ o \in Nat /\ T \in Nat
    BY <2>2, Sizes DEF Closed, Valued
  <2>5. Len(h) \in Nat /\ Len(h) <= o * T + 1
    <3>1. o + 1 \in 1..o + 1 /\ (o + 1) - 1 = o
      BY <2>4
    <3> QED
      BY <2>3, <2>4, <3>1, CutReach
  <2>6. Len(h') \in Nat /\ Len(h') <= o * T + 2
    <3>1. PICK n \in Nat : n = o * T
      BY <2>4
    <3>2. Len(Append(h, DIAMOND)) = Len(h) + 1 /\ Len(<<DIAMOND>>) = 1
      BY <2>4
    <3>3. Len(h) <= n + 1
      BY <2>5, <3>1
    <3>4. Len(h') \in Nat /\ Len(h') <= n + 2
      <4>1. Len(h') \in {Len(h), 1, Len(h) + 1}
        BY <2>1, <3>2
      <4>2. PICK l \in Nat : l = Len(h)
        BY <2>5
      <4>3. \A y \in {l, 1, l + 1} : y \in Nat /\ y <= n + 2
        BY <3>3, <4>2
      <4> QED
        BY <4>1, <4>2, <4>3, Zenon
    <3> QED
      BY <3>1, <3>4
  <2> QED
    BY <2>1, <2>2, <2>6 DEF BufferInv, Closed, Valued
<1>8. CASE Done
  <2>1. UNCHANGED <<input, pc, file, row, line, p, state, h, tstart, o>>
    BY <1>8 DEF Done, vars
  <2> QED
    BY <2>1 DEF BufferInv, Closed, Filled, Valued
<1> QED
  BY <1>1, <1>2, <1>3, <1>4, <1>5, <1>6, <1>7, <1>8, <1>9, <1>10 DEF Next

LEMMA BufferInvHolds == Spec => []BufferInv
<1>1. Init => BufferInv
  <2> SUFFICES ASSUME Init
               PROVE  BufferInv
    OBVIOUS
  <2>1. /\ input \in Inputs /\ pc = "options" /\ file = 0 /\ row = 0 /\ line = <<>> /\ state = "fDEF"
        /\ h = <<DIAMOND>> /\ o = 0
    BY DEF Init, Cleared
  <2>2. Closed(h, o)
    BY <2>1, InputOf, EmptyCloses
  <2>3. Calm("fDEF")
    BY UtfNames, AsianNames DEF Calm, Foreseeing, UtfStates, AsianStates
  <2>4. <<>> \in Line
    BY DEF Line
  <2> QED
    BY <2>1, <2>2, <2>3, <2>4 DEF BufferInv
<1>2. BufferInv /\ [Next]_vars => BufferInv'
  <2> SUFFICES ASSUME BufferInv, [Next]_vars
               PROVE  BufferInv'
    OBVIOUS
  <2>1. CASE UNCHANGED vars
    BY <2>1 DEF vars, BufferInv, Closed, Filled, Valued
  <2> QED
    BY <2>1, CharKeeps, OthersKeep
<1> QED
  BY <1>1, <1>2, PTL DEF Spec

(* Some order is allowed, and the tokens of the highest one, each a          *)
(* DIAMOND longer than it may be told, fit in as MAX_SUBMATCH of the length  *)
(* reserved would (9, 30 and 4 in dbacl.h).                                  *)
SizesSuffice == MAX_SUBMATCH > 2 /\ MAX_SUBMATCH + 2 <= MAX_TOKEN_LEN + EXTRA_TOKEN_LEN

LEMMA InvGivesRoom ==
  ASSUME BufferInv, SizesSuffice
  PROVE  BufferHolds
<1>1. PICK a \in Nat, w \in Nat, m \in Nat, x \in Nat : a = MAX_SUBMATCH - 2 /\ w = o /\ m = MAX_TOKEN_LEN /\ x = EXTRA_TOKEN_LEN
  <2>1. o \in Nat
    BY DEF BufferInv, Closed, Filled, Valued
  <2> QED
    BY <2>1, Sizes DEF SizesSuffice
<1>2. o <= MAX_SUBMATCH - 2
  <2>1. CASE pc \in {"options", "fatal"}
    BY <1>1, <2>1 DEF BufferInv
  <2>2. CASE pc \notin {"options", "fatal"}
    <3>1. Valued(o) /\ input.w \in 1..MAX_SUBMATCH - 2
      BY <2>2 DEF BufferInv, Closed, Filled, ValidOrder
    <3> QED
      BY <3>1, Sizes DEF Valued
  <2> QED
    BY <2>1, <2>2
<1>3. Len(h) \in Nat /\ Len(h) <= w * T + 1 + m
  <2>1. CASE pc \in {"file", "end"}
    <3>1. Len(h) \in Nat /\ Len(h) <= o * T + 2
      BY <2>1 DEF BufferInv
    <3>2. PICK n \in Nat : n = o * T
      BY <1>1, Sizes
    <3> QED
      BY <1>1, <3>1, <3>2, Sizes
  <2>2. CASE pc \notin {"file", "end"}
    <3>1. Filled(h, o, tstart) \/ Filled(h, o, Len(h))
      BY <2>2, ClosedIsFilled DEF BufferInv
    <3>2. PICK ts : Filled(h, o, ts)
      BY <3>1
    <3>3. PICK d : Cut(h, o, d) /\ ts \in {d[o + 1], d[o + 1] + 1} /\ Len(h) < ts + MAX_TOKEN_LEN
      BY <3>2 DEF Filled
    <3>4. h \in Seq(Code) /\ o \in Nat /\ o + 1 \in 1..o + 1 /\ (o + 1) - 1 = o
      BY <3>2 DEF Filled, Valued
    <3>5. d[o + 1] \in Nat /\ d[o + 1] <= o * T + 1
      BY <3>3, <3>4, CutReach
    <3>6. PICK n \in Nat, y \in Nat : n = o * T /\ y = d[o + 1]
      BY <1>1, <3>5, Sizes
    <3>7. ts <= n + 2 /\ ts \in Nat /\ Len(h) \in Nat
      BY <3>3, <3>4, <3>5, <3>6
    <3> QED
      BY <1>1, <3>3, <3>6, <3>7, Sizes
  <2> QED
    BY <2>1, <2>2
<1>4. w * T <= a * T
  <2>1. T \in Nat /\ w <= a
    BY <1>1, <1>2, Sizes
  <2> QED
    BY <1>1, <2>1
<1>5. a * T = a * m + 2 * a
  BY <1>1 DEF T
<1>6. (MAX_TOKEN_LEN + 1) * MAX_SUBMATCH = a * m + 2 * m + a + 2
  <2>1. MAX_SUBMATCH = a + 2 /\ MAX_TOKEN_LEN = m
    BY <1>1, Sizes
  <2>2. (m + 1) * (a + 2) = a * m + 2 * m + a + 2
    BY <1>1
  <2> QED
    BY <2>1, <2>2
<1>7. a + 4 <= m + x
  BY <1>1, Sizes DEF SizesSuffice
<1>8. PICK q \in Nat, y \in Nat : q = a * m /\ y = w * T
  BY <1>1, Sizes
<1>9. Len(h) + 5 <= q + 2 * m + a + 2 + x
  <2>1. Len(h) <= y + 1 + m /\ y <= q + 2 * a
    BY <1>3, <1>4, <1>5, <1>8
  <2>2. PICK l \in Nat : l = Len(h)
    BY <1>3
  <2> QED
    BY <1>7, <2>1, <2>2
<1> QED
  BY <1>1, <1>6, <1>8, <1>9 DEF BufferHolds

(* The holding buffer always has room, whatever the lines, the character    *)
(* class and the order: std_tokenizer() limits the length of each token and *)
(* their number, and no machine of good_char() lets a character through     *)
(* that would be taken for the mark between two of them.                    *)
THEOREM RoomInBuffer == SizesSuffice /\ Spec => []BufferHolds
<1>1. CASE SizesSuffice
  <2>1. BufferInv => BufferHolds
    BY <1>1, InvGivesRoom
  <2> QED
    BY <2>1, BufferInvHolds, PTL
<1>2. CASE ~SizesSuffice
  BY <1>2
<1> QED
  BY <1>1, <1>2

=============================================================================
