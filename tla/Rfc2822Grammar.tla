--------------------------- MODULE Rfc2822Grammar ---------------------------
(***************************************************************************)
(* The grammar of RFC 2822, chapter 3, which rfc2822.c names as what its   *)
(* recognisers accept in their strict form.  It is the reference that they *)
(* are checked against, and is no translation of them: a production maps a *)
(* set of places in the line to the set of all places where a phrase of it *)
(* that begins at one of them can end.                                     *)
(*                                                                         *)
(* Two productions are as liberal as the code: a domain literal may nest,  *)
(* and the zone of a date may be missing.  A year has four digits.         *)
(***************************************************************************)
EXTENDS HeaderLine

Char(P, S) == {p + 1 : p \in {q \in P : At(q) \in S}}
Opt(P, f(_)) == P \cup f(P)

(* Any number of times: the least set that f does not add to. *)
Star(P, f(_)) ==
  LET star[S \in SUBSET Places] ==
        LET T == S \cup f(S) IN IF T = S THEN S ELSE star[T]
  IN star[P]

Star1(P, f(_)) == Star(f(P), f)

(* f, any number of times, with a separator before all but the first. *)
SeparatedBy(P, f(_), S) == LET more(Q) == f(Char(Q, S)) IN Star(f(P), more)

(* Up to the bracket that matches, with quoted characters. *)
Bracketed(P, open, close) ==
  LET ends[p \in Places] ==
        CASE At(p) = "nul"  -> {}
          [] At(p) = close  -> {p + 1}
          [] At(p) = "\\"   -> IF At(p + 1) = "nul" THEN {} ELSE ends[p + 2]
          [] At(p) = open /\ open # close -> UNION {ends[q] : q \in ends[p + 1]}
          [] OTHER          -> ends[p + 1]
  IN UNION {ends[p] : p \in Char(P, {open})}

Fws(P) ==
  LET wsp(Q) == Char(Q, Blank)
      folded(Q) == Char(Star(Q, wsp), {"nl"})
  IN Star1(P \cup folded(P), wsp)

Comment(P) == Bracketed(P, "(", ")")
CommentOrFws(P) == Comment(P) \cup Fws(P)
CommentsFws(P) == Star1(P, CommentOrFws)
OptCfws(P) == Opt(P, CommentsFws)
InCfws(P, f(_)) == OptCfws(f(OptCfws(P)))

AtextRun(P) == LET c(Q) == Char(Q, Atext) IN Star1(P, c)
DotAtomText(P) == SeparatedBy(P, AtextRun, {"."})
Atom(P) == InCfws(P, AtextRun)
DotAtom(P) == InCfws(P, DotAtomText)
NoFoldQuote(P) == Bracketed(P, "\"", "\"")
QuotedString(P) == InCfws(P, NoFoldQuote)
NoFoldLiteral(P) == Bracketed(P, "[", "]")
DomainLiteral(P) == OptCfws(NoFoldLiteral(P))
Word(P) == Atom(P) \cup QuotedString(P)
Phrase(P) == Star1(P, Word)

Domain(P) == DotAtom(P) \cup DomainLiteral(P)
AddrSpec(P) == Domain(Char(DotAtom(P) \cup QuotedString(P), {"@"}))
InAngles(P) == Char(AddrSpec(Char(P, {"<"})), {">"})
AngleAddr(P) == InCfws(P, InAngles)
Mailbox(P) == AddrSpec(P) \cup AngleAddr(Opt(P, Phrase))
MailboxList(P) == SeparatedBy(P, Mailbox, {","})
Group(P) ==
  LET start == Char(Phrase(P), {":"})
  IN OptCfws(Char(start \cup MailboxList(start) \cup CommentsFws(start), {";"}))
Address(P) == Mailbox(P) \cup Group(P)
AddressList(P) == SeparatedBy(P, Address, {","})

IdInAngles(P) ==
  LET left == Char(P, {"<"})
      right == Char(DotAtomText(left) \cup NoFoldQuote(left), {"@"})
  IN Char(DotAtomText(right) \cup NoFoldLiteral(right), {">"})
MsgId(P) == InCfws(P, IdInAngles)
Refs(P) == Star1(P, MsgId)

AngleOrEmpty(P) ==
  LET start == OptCfws(Char(P, {"<"})) IN Char(start \cup AddrSpec(start), {">"})
Path(P) == InCfws(P, AngleOrEmpty)

Digits2(P) == Char(Char(P, {"d"}), {"d"})
Digits4(P) == Digits2(Digits2(P))
DayOfWeek(P) == Char(Char(Opt(P, Fws), DayNames), {","})
Day(P) == LET one == Char(Opt(P, Fws), {"d"}) IN one \cup Char(one, {"d"})
Month(P) == Fws(Char(Fws(P), MonthNames))
TimeOfDay(P) ==
  LET minute == Digits2(Char(Digits2(P), {":"}))
  IN minute \cup Digits2(Char(minute, {":"}))
Zone(P) == Opt(P, LAMBDA Q : Digits4(Char(Q, {"+", "-"})))
DateTime(P) ==
  OptCfws(Zone(Fws(TimeOfDay(Fws(Digits4(Month(Day(Opt(P, DayOfWeek)))))))))

ItemName(P) ==
  LET more(Q) == Char(Q, Alpha \cup {"d", "-"}) IN Star(Char(P, Alpha), more)
ItemValue(P) == Star1(P, AngleAddr) \cup AddrSpec(P) \cup Domain(P)
NameValPair(P) == ItemValue(CommentsFws(ItemName(P)))
NameValList(P) ==
  LET more(Q) == NameValPair(CommentsFws(Q))
      bare == OptCfws(P)
  IN OptCfws(bare \cup Star(NameValPair(bare), more))

(* What a line of the field must be, from its colon on. *)
Body(f, P) ==
  CASE f \in {"To", "Cc", "Reply-To"}          -> AddressList(P)
    [] f = "Bcc"                               -> AddressList(P) \cup OptCfws(P)
    [] f = "From"                              -> MailboxList(P)
    [] f = "Sender"                            -> Mailbox(P)
    [] f = "Message-ID"                        -> MsgId(P)
    [] f \in {"In-Reply-To", "References"}     -> Refs(P)
    [] f = "Return-Path"                       -> Path(P)
    [] f = "Date"                              -> DateTime(P)
    [] f = "Received"                          -> DateTime(Char(NameValList(P), {";"}))

(* The line is one of the standard; white space may come before its end. *)
Standard(f) ==
  \E p \in Body(f, Char({1}, {":"})) :
    /\ p >= Len(line) - 1
    /\ \A q \in p .. Len(line) : At(q) \in Space

=============================================================================
