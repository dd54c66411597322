---------------------------- MODULE HeaderChars ----------------------------
(***************************************************************************)
(* The characters of header lines, the positions in them, and the fields.  *)
(*                                                                         *)
(* A pointer into the line is a position, from 1 to Len(line) + 1, where   *)
(* the line ends; NULL is 0.  A recogniser takes a position, or NULL, and  *)
(* returns the position after what it skipped, or NULL.  A recogniser that *)
(* loops for ever returns Hang, and so does everything that calls it.      *)
(***************************************************************************)
EXTENDS Integers, Sequences

NULL == 0
Hang == -1

(* Neither NULL nor Hang. *)
Found(p) == p > 0

(***************************************************************************)
(* The characters that the code tells apart.  Words that it compares with  *)
(* strncasecmp() are single characters here, and are letters to all other  *)
(* tests.                                                                  *)
(***************************************************************************)
DayNames == {"Mon"}
MonthNames == {"Jan"}
ZoneNames == {"GMT"}
ReceivedWords == {"from", "by", "via", "with", "id", "for"}
Words == DayNames \cup MonthNames \cup ZoneNames \cup ReceivedWords

Alpha == {"a"} \cup Words
Blank == {"sp"}
Space == Blank \cup {"nl"}
Atext == Alpha \cup {"d", "-", "+", "#"}
Specials == {"(", ")", "<", ">", "[", "]", ":", ";", "@", ",", ".", "\"", "\\"}
Chars == Atext \cup Space \cup Specials

(* The fields whose mailboxes are looked for (hparse.c). *)
AddressLists == {"To", "Cc", "Bcc", "Reply-To",
                 "Resent-To", "Resent-Cc", "Resent-Bcc", "Resent-Reply-To"}
MailboxLists == {"From", "Resent-From"}
Mailboxes == {"Sender", "Resent-Sender"}
Printable == AddressLists \cup MailboxLists \cup Mailboxes

=============================================================================
