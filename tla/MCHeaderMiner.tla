--------------------------- MODULE MCHeaderMiner ---------------------------
(***************************************************************************)
(* Messages for TLC: well-formed lines of every field and what becomes of  *)
(* them when one character is lost, changed or added, each alone in a      *)
(* message; and messages of a few lines.                                   *)
(***************************************************************************)
EXTENDS HeaderMiner

CONSTANT Damaged  \* whether the first kind of message is used

Replaced(t, S) == {[t EXCEPT ![i] = c] : i \in 1 .. Len(t) - 1, c \in S}
Lost(t) == {SubSeq(t, 1, i - 1) \o SubSeq(t, i + 1, Len(t)) : i \in 1 .. Len(t) - 1}
Added(t, S) == {SubSeq(t, 1, i - 1) \o <<c>> \o SubSeq(t, i, Len(t)) : i \in 1 .. Len(t), c \in S}
Changed(t, S) == {t} \cup Replaced(t, S) \cup Lost(t) \cup Added(t, S)

(* Characters that a line of addresses, or of another kind, is damaged by. *)
AddressChars == {"a", "sp", "(", ")", "<", ">", "[", "]", ":", ";", "@", ",", ".", "\"", "\\"}
DateChars == {"a", "d", "sp", "(", ")", ":", ",", "+", "Mon", "Jan", "GMT"}
StampChars == {"a", "d", "sp", "<", ">", ";", "@", ".", "[", "]", "(", ")", "via", "with", "id", "for"}

a == <<"a">>
Addr == <<"a", "@", "a">>
Angle == <<"<">> \o Addr \o <<">">>

AddressLines == {
  <<":", "sp">> \o Addr \o <<",">> \o Addr,
  <<":", "sp", "a", "sp">> \o Angle,
  <<":", "a", ":">> \o Addr \o <<";">>,
  <<":", "\"", ",", "\"", "sp">> \o Angle,
  <<":", "a", ".", "a", "@", "[", "a", "]", "sp", "(", "a", ")">>,
  <<":", "<", "@", "a", ":">> \o Addr \o <<">">>,
  <<"sp", ":", "a", "sp", "a", ".", "sp">> \o Angle}

IdLines == {
  <<":", "sp">> \o Angle,
  <<":", "sp">> \o Angle \o <<"sp">> \o Angle,
  <<":", "<", "\"", "a", "\"", "@", "[", "a", "]", ">">>}

(* Hosts have names of two parts or addresses in brackets, as a transport    *)
(* writes them, with and without a route.                                   *)
Host == <<"a", ".", "a">>
Dotted == <<"a", "@">> \o Host
ReturnLines == {
  <<":", "sp", "<", ">">>,
  <<":", "sp">> \o Angle,
  <<":", "<", "@", "a", ":">> \o Addr \o <<">">>,
  <<":", "sp", "<">> \o Dotted \o <<">">>,
  <<":", "<", "a", "@", "[", "a", "]", ">">>,
  <<":", "<", "@">> \o Host \o <<":">> \o Dotted \o <<">">>}

Time == <<"d", "d", ":", "d", "d">>
Year == <<"d", "d", "d", "d">>
DateLines == {
  <<":", "sp", "Mon", ",", "sp", "d", "sp", "Jan", "sp">> \o Year \o <<"sp">> \o Time \o <<":", "d", "d", "sp", "+">> \o Year,
  <<":", "sp", "d", "d", "sp", "Jan", "sp", "d", "d", "sp">> \o Time \o <<"sp", "GMT">>,
  <<":", "sp", "d", "d", "sp", "Jan", "sp">> \o Year \o <<"sp">> \o Time \o <<"sp">>}

Stamp == <<";", "sp", "d", "sp", "Jan", "sp">> \o Year \o <<"sp">> \o Time \o <<"sp", "+">> \o Year
From2 == <<":", "sp", "from", "sp", "a", ".", "a", "sp", "by", "sp", "a", ".", "a", "sp">>
StampLines == {
  From2 \o <<";", "sp", "d", "d", "sp", "Jan", "sp", "d", "d", "sp">> \o Time \o <<":", "d", "d", "sp", "GMT">>,
  From2 \o Stamp,
  From2 \o <<"via", "sp", "a", "sp", "with", "sp", "a", "sp", "id", "sp", "a", "sp", "for", "sp">> \o Angle \o <<"sp">> \o Stamp,
  <<":", "sp", "from", "sp", "a", ".", "a", "sp", "(", "[", "d", "]", ")", "sp", "by", "sp", "a", ".", "a", "sp">> \o Stamp}

Another == [field |-> "Other", text |-> <<":", "nl">>]

Alone(fields, texts, S) ==
  {<<[field |-> f, text |-> t], Another>> : f \in fields, t \in UNION {Changed(u \o <<"nl">>, S) : u \in texts}}

DamagedLines ==
  Alone({"To", "From", "Bcc"}, AddressLines, AddressChars)
    \cup Alone({"References", "Message-ID"}, IdLines, AddressChars)
    \cup Alone({"Return-Path"}, ReturnLines, AddressChars)
    \cup Alone({"Date"}, DateLines, DateChars)
    \cup Alone({"Received"}, StampLines, StampChars)
    \cup {<<[field |-> f, text |-> t \o <<"nl">>], Another>> :
            f \in {"Cc", "Reply-To", "Sender", "Subject", "Other", "In-Reply-To",
                   "Resent-To", "Resent-Cc", "Resent-Bcc", "Resent-Reply-To", "Resent-From",
                   "Resent-Sender", "Resent-Message-ID"}, t \in AddressLines \cup IdLines}
    \cup {<<[field |-> "Resent-Date", text |-> t \o <<"nl">>], Another>> : t \in DateLines}

L(f, t) == [field |-> f, text |-> t \o <<"nl">>]
FewLines == {
  L("To", <<":", "sp", "a", "sp">> \o Angle \o <<",">> \o Addr),
  L("Sender", <<":", "sp", "a">>),
  L("From", <<":", "\"", ",", "\"", "sp">> \o Angle),
  L("Cc", <<":", ",">> \o Addr),
  L(Continued, <<"sp">> \o Angle),
  [field |-> Empty, text |-> <<"nl">>]}

Messages ==
  (IF Damaged THEN DamagedLines ELSE {}) \cup UNION {[1 .. n -> FewLines] : n \in 0 .. 4}

=============================================================================
