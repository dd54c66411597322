---------------------------- MODULE HeaderParse ----------------------------
(***************************************************************************)
(* How a complete header line is tried against the four standards, what    *)
(* state the header gets and where its mailboxes are found (hparse.c).     *)
(***************************************************************************)
EXTENDS Rfc822, Rfc2822, Rfc2822Grammar

------------------------------------------------------------------------------
(* Recognising a line.                                                     *)

(* The strictest of the three readings that accepts, which decides. *)
Forms == <<"2822", "2822obs", "2822lax">>
Liberties == <<Strict, Obsolete, Lax>>
Readings == {Strict, Obsolete, Lax}

Read2822(end) ==
  {Forms[CHOOSE i \in S : \A j \in S : i <= j] :
     S \in {{i \in 1 .. 3 : Found(end[Liberties[i]])}} \ {{}}}

Read822(r) == IF Found(r) THEN {"822"} ELSE IF r = Hang THEN {"hang"} ELSE {}
Read821(r) == IF Found(r) THEN {"821"} ELSE {}

mkh_return_path ==
  Read822(parse_822_return) \cup Read821(parse_821_return_path_line)
    \cup Read2822([opt \in Readings |-> parse_2822_return(opt)])
    \cup IF Found(parse_2821_return_path_line(Strict)) THEN {"2821"} ELSE {}

(* The test that would add BAD_DATA reads what a Date line keeps there: in a *)
(* Received line that is the place of the link, NULL or an address, never   *)
(* the -1 that the date of the line is compared with.                      *)
mkh_received ==
  Read822(parse_822_received) \cup Read821(parse_821_time_stamp_line)
    \cup (IF Found(parse_2821_time_stamp_line(Strict)) THEN {"2821"}
          ELSE IF Found(parse_2821_time_stamp_line(Lax2821)) THEN {"2821lax"} ELSE {})
    \cup Read2822([opt \in Readings |-> parse_2822_received(opt)])

mkh_reply_to ==
  Read822(parse_822_reply_to)
    \cup Read2822([opt \in Readings |-> parse_2822_reply_to(opt)])
mkh_from ==
  Read822(parse_822_from) \cup Read2822([opt \in Readings |-> parse_2822_from(opt)])
mkh_sender ==
  Read822(parse_822_sender) \cup Read2822([opt \in Readings |-> parse_2822_sender(opt)])
mkh_to ==
  Read822(parse_822_to) \cup Read2822([opt \in Readings |-> parse_2822_to(opt)])
mkh_cc ==
  Read822(parse_822_cc) \cup Read2822([opt \in Readings |-> parse_2822_cc(opt)])
mkh_bcc ==
  Read822(parse_822_bcc) \cup Read2822([opt \in Readings |-> parse_2822_bcc(opt)])
mkh_message_id ==
  Read822(parse_822_message_id)
    \cup Read2822([opt \in Readings |-> parse_2822_message_id(opt)])
mkh_in_reply_to ==
  Read822(parse_822_in_reply_to)
    \cup Read2822([opt \in Readings |-> parse_2822_in_reply_to(opt)])
mkh_references ==
  Read822(parse_822_references)
    \cup Read2822([opt \in Readings |-> parse_2822_references(opt)])
mkh_subject ==
  Read822(parse_822_subject) \cup Read2822([opt \in Readings |-> parse_2822_subject(opt)])

(* Resent-From is tried as From by RFC 822, and is not.                    *)
mkh_resent_from == Read2822([opt \in Readings |-> parse_2822_resent_from(opt)])
mkh_resent_reply_to ==
  Read822(parse_822_resent_reply_to)
    \cup Read2822([opt \in Readings |-> parse_2822_resent_reply_to(opt)])
mkh_resent_sender ==
  Read822(parse_822_resent_sender)
    \cup Read2822([opt \in Readings |-> parse_2822_resent_sender(opt)])
mkh_resent_to ==
  Read822(parse_822_resent_to)
    \cup Read2822([opt \in Readings |-> parse_2822_resent_to(opt)])
mkh_resent_cc ==
  Read822(parse_822_resent_cc)
    \cup Read2822([opt \in Readings |-> parse_2822_resent_cc(opt)])
mkh_resent_bcc ==
  Read822(parse_822_resent_bcc)
    \cup Read2822([opt \in Readings |-> parse_2822_resent_bcc(opt)])
mkh_resent_date ==
  Read822(parse_822_resent_date)
    \cup Read2822([opt \in Readings |-> parse_2822_resent_date(opt)])
mkh_resent_message_id ==
  Read822(parse_822_resent_message_id)
    \cup Read2822([opt \in Readings |-> parse_2822_resent_message_id(opt)])

(* The first place from p on whose character is in S, or the end. *)
From(p, S) ==
  LET next[q \in Places] == IF At(q) \in S \cup {"nul"} THEN q ELSE next[q + 1]
  IN next[p]

(***************************************************************************)
(* Whether the time can be worked out, if the numbers are in range: there  *)
(* is the name of a month, a year of four digits and, somewhere after the  *)
(* time, what could be a zone.                                             *)
(***************************************************************************)
cvt_date ==
  LET month == From(From(1, {"d"}), Alpha)
      year == From(month, {"d"})
      hour == From(From(year, Space), {"d"})
      minute == From(From(hour, {":"}), {"d"})
      colon == From(minute, {":"})
      time == IF At(colon) = ":" THEN From(colon, {"d"}) ELSE minute
  IN /\ At(month) \in MonthNames
     /\ RunOf(year, {"d"}) >= year + 4
     /\ At(From(time, Alpha \cup {"+", "-"})) # "nul"

(* The states a Date header can get, as the numbers are in range or not. *)
mkh_date ==
  LET readings == Read822(parse_822_date) \cup Read2822([opt \in Readings |-> parse_2822_date(opt)])
  IN {readings \cup {"BAD_DATA"}} \cup
     {x \in {readings} : readings # {} /\ cvt_date}

(* The states that a line of field f can be given. *)
make_new_header(f) ==
  CASE f = "Return-Path"       -> {mkh_return_path}
    [] f = "Received"          -> {mkh_received}
    [] f = "Reply-To"          -> {mkh_reply_to}
    [] f = "From"              -> {mkh_from}
    [] f = "Sender"            -> {mkh_sender}
    [] f = "Resent-Reply-To"   -> {mkh_resent_reply_to}
    [] f = "Resent-From"       -> {mkh_resent_from}
    [] f = "Resent-Sender"     -> {mkh_resent_sender}
    [] f = "Date"              -> mkh_date
    [] f = "Resent-Date"       -> {mkh_resent_date}
    [] f = "To"                -> {mkh_to}
    [] f = "Resent-To"         -> {mkh_resent_to}
    [] f = "Cc"                -> {mkh_cc}
    [] f = "Resent-Cc"         -> {mkh_resent_cc}
    [] f = "Bcc"               -> {mkh_bcc}
    [] f = "Resent-Bcc"        -> {mkh_resent_bcc}
    [] f = "Message-ID"        -> {mkh_message_id}
    [] f = "Resent-Message-ID" -> {mkh_resent_message_id}
    [] f = "In-Reply-To"       -> {mkh_in_reply_to}
    [] f = "References"        -> {mkh_references}
    [] f = "Subject"           -> {mkh_subject}
    [] OTHER                   -> {{}}

(***************************************************************************)
(* Where the list of a line begins and ends, as the reading found it that  *)
(* was tried last: the one that accepted, or the most liberal one.         *)
(***************************************************************************)
TriedLast(state) ==
  IF "2822" \in state THEN Strict ELSE IF "2822obs" \in state THEN Obsolete ELSE Lax

Token(f, state) ==
  LET opt == TriedLast(state)
      begin == Value2822(opt)
      end == CASE f \in AddressLists -> skip_2822_address_list(begin, opt)
               [] f \in MailboxLists -> skip_2822_mailbox_list(begin, opt)
               [] OTHER              -> skip_2822_mailbox(begin, opt)
  IN IF f \in Printable /\ Found(end) THEN <<begin, end>> ELSE <<NULL, NULL>>

------------------------------------------------------------------------------
(* How the recognisers compare, for a line of field f.                     *)

(* What a recogniser of RFC 2822 says of the line.  Those of Cc, Reply-To   *)
(* and In-Reply-To make the same calls as those of To and References.      *)
Recognised(f, opt) ==
  CASE f \in {"To", "Cc", "Reply-To"} -> parse_2822_to(opt)
    [] f = "Bcc"         -> parse_2822_bcc(opt)
    [] f = "From"        -> parse_2822_from(opt)
    [] f = "Sender"      -> parse_2822_sender(opt)
    [] f = "Message-ID"  -> parse_2822_message_id(opt)
    [] f \in {"In-Reply-To", "References"} -> parse_2822_references(opt)
    [] f = "Return-Path" -> parse_2822_return(opt)
    [] f = "Date"        -> parse_2822_date(opt)
    [] f = "Received"    -> parse_2822_received(opt)

(* The strict form accepts, or the grammar of the standard does. *)
StrictIsStandard(f) ==
  \A strict \in {Found(Recognised(f, Strict))}, standard \in {Standard(f)} :
    IF f = "Received" THEN strict => standard ELSE strict = standard

StrictIsObsolete(f) ==
  \A accepted \in {{opt \in {Strict, Obsolete} : Found(Recognised(f, opt))}} :
    Strict \in accepted => Obsolete \in accepted

(* A parenthesis inside a literal. *)
LiteralParenthesis ==
  \E p, q \in DOMAIN line :
    /\ p < q /\ At(p) = "[" /\ At(q) \in {"(", ")"}
    /\ \A r \in p + 1 .. q - 1 : At(r) # "]"

TransportAccepted(f) ==
  /\ f = "Received" =>
       /\ Found(parse_2821_time_stamp_line(Strict)) /\ ~LiteralParenthesis
            => Found(parse_2822_received(Strict))
       /\ Found(parse_821_time_stamp_line) => Found(parse_822_received)
  /\ f = "Return-Path" =>
       (Found(parse_2821_return_path_line(Strict)) => Found(parse_2822_return(Strict)))

=============================================================================
