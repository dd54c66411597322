---------------------------- MODULE HeaderMiner ----------------------------
(***************************************************************************)
(* hmine: the header lines of a message are collected, folded lines        *)
(* together, each is tried against the four standards and kept on a stack, *)
(* and at the end the mailboxes found are printed (hmine.c, hparse.c).     *)
(***************************************************************************)
EXTENDS HeaderChars, FiniteSets, SequencesExt

CONSTANTS
  Inputs,     \* the messages: sequences of lines [field, text]
  HlinesMax,  \* headers that the stack has room for
  TextMax,    \* characters that the text buffer has room for at first
  BufLen      \* length of the buffer that a mailbox is printed from

ASSUME SizesAssumption ==
  HlinesMax \in Nat \ {0} /\ TextMax \in Nat \ {0} /\ BufLen \in Nat \ (0 .. 3)


VARIABLES
  line,       \* the line that is collected, without the name of its field
  input,      \* the message
  read,       \* number of its lines that have been read
  field,      \* the field of the line that is collected, or NoLine
  in_header,  \* FALSE once the empty line has been read
  hlines,     \* the stack
  used,       \* number of characters in the text buffer
  room,       \* number of characters it has room for
  mem,        \* "fine" until an allocation fails, then "failed", but "null" while
              \* the line last read is not in the buffer (pptextbuf is NULL)
  pc,         \* "read", "print", "done"; "hung"; "overrun": written past the stack
  buf,        \* the buffer that mailboxes are printed from
  printed     \* for each header of the stack what was printed for it

vars == <<line, input, read, field, in_header, hlines, used, room, mem, pc, buf, printed>>

NoLine == "none"
Continued == "continued"
Empty == "empty"

Fields == Printable \cup
  {"Return-Path", "Received", "Date", "Resent-Date", "Message-ID",
   "Resent-Message-ID", "In-Reply-To", "References", "Subject", "Other", Continued}

(* A message: its lines, the empty one that ends the header, and those of  *)
(* the body.                                                               *)
ASSUME InputsAssumption ==
  \A i \in Inputs : i \in Seq([field : Fields \cup {Empty}, text : Seq(Chars)])

States == {"822", "821", "2822", "2822obs", "2822lax", "2821", "2821lax", "BAD_DATA"}

Graded == {"To", "Cc", "Reply-To", "Bcc", "From", "Sender", "Message-ID",
           "In-Reply-To", "References", "Return-Path", "Date", "Received"}

------------------------------------------------------------------------------
(* How the line l is parsed, with the ends e of its simplest tokens.       *)

Scan(l) == INSTANCE HeaderLine WITH line <- l
Parse(l, e) == INSTANCE HeaderParse WITH line <- l, ends <- e

(* The headers that a complete line l of field f can become. *)
Made(f, l) ==
  UNION {{[field |-> f, text |-> l, state |-> state,
           token |-> Parse(l, e)!Token(f, state), live |-> TRUE] :
            state \in Parse(l, e)!make_new_header(f)} : e \in {Scan(l)!Ends}}

------------------------------------------------------------------------------
(* Collecting the header.                                                  *)

Init ==
  /\ input \in Inputs
  /\ read = 0 /\ line = <<>> /\ field = NoLine /\ in_header = TRUE
  /\ hlines = <<>> /\ used = 0 /\ room = TextMax /\ mem = "fine"
  /\ pc = "read"
  /\ buf = <<>>
  /\ printed = <<>>

(* What the stack can be once the collected line, now complete, is on it. *)
head_push_header == {Append(hlines, h) : h \in Made(field, line)}

(***************************************************************************)
(* A line goes into the text buffer.  Where that grows it may move, and    *)
(* what the stack says of its headers is then about freed memory.  If it   *)
(* cannot grow, or no further, the line is not kept; what is collected     *)
(* next is still added to the line before it, or takes its place.          *)
(***************************************************************************)
Fault_NeverGrown(l, stack, intact) ==
  /\ used' = used + Len(l.text) + (IF l.field = Continued THEN 0 ELSE 1)
  /\ hlines' = stack /\ UNCHANGED <<room, mem>>
  /\ line' = IF l.field = Continued THEN line \o l.text ELSE l.text
  /\ field' = IF l.field = Continued /\ field # NoLine THEN field ELSE l.field

head_append_hline(l, stack, intact) ==
  LET n == Len(l.text)
      enough[r \in Nat \ {0}] == IF used + n >= r THEN enough[2 * r] ELSE r
      folded == l.field = Continued
      moved == [i \in DOMAIN stack |-> [stack[i] EXCEPT !.live = FALSE]]
  IN /\ \/ /\ room' = enough[room]
           /\ used' = used + n + (IF folded THEN 0 ELSE 1)
           /\ line' = IF folded THEN line \o l.text ELSE l.text
           /\ field' = IF folded /\ field # NoLine THEN field ELSE l.field
           /\ mem' = IF intact THEN "fine" ELSE "failed"
        \/ /\ \E r \in room .. used + n : enough[r] = enough[room] /\ room' = r
           /\ mem' = "null"
           /\ UNCHANGED <<used, line, field>>
     /\ hlines' \in (IF room' = room THEN {stack} ELSE {stack, moved})

(* fill_textbuf() returns the next line. *)
GetLine == pc = "read" /\ read < Len(input) /\ read' = read + 1

NextLine == input[read + 1]

(* The line read shows that the one before it is complete. *)
Fault_FoldIsHeader(l) == field # NoLine /\ mem # "null"

Completes(l) == field # NoLine /\ mem # "null" /\ l.field # Continued

(* A line that begins the header, or continues a folded line of it. *)
CollectLine ==
  /\ GetLine /\ in_header /\ NextLine.field # Empty /\ ~Completes(NextLine)
  /\ head_append_hline(NextLine, hlines, mem = "fine")
  /\ UNCHANGED <<input, in_header, pc, buf, printed>>

CompleteLine ==
  /\ GetLine /\ in_header /\ NextLine.field # Empty /\ Completes(NextLine)
  /\ \E stack \in head_push_header :
       IF "hang" \in stack[Len(stack)].state
       THEN pc' = "hung" /\ UNCHANGED <<line, field, hlines, used, room, mem>>
       ELSE head_append_hline(NextLine, stack, mem = "fine") /\ UNCHANGED pc
  /\ UNCHANGED <<input, in_header, buf, printed>>

(***************************************************************************)
(* To grow the stack 2 * max bytes are asked for, which is not enough for  *)
(* a single header: the next one is written past the end, and the program  *)
(* may crash.  If not even they can be had the header is left out.         *)
(***************************************************************************)
OverrunStack ==
  /\ GetLine /\ in_header /\ NextLine.field # Empty /\ Completes(NextLine)
  /\ Len(hlines) >= HlinesMax
  /\ pc' = "overrun"
  /\ UNCHANGED <<line, input, field, in_header, hlines, used, room, mem, buf, printed>>

LeaveHeaderOut ==
  /\ GetLine /\ in_header /\ NextLine.field # Empty /\ Completes(NextLine)
  /\ Len(hlines) >= HlinesMax
  /\ head_append_hline(NextLine, hlines, FALSE)
  /\ UNCHANGED <<input, in_header, pc, buf, printed>>

EndHeader ==
  /\ GetLine /\ in_header /\ NextLine.field = Empty
  /\ in_header' = FALSE
  /\ UNCHANGED <<line, input, field, hlines, used, room, mem, pc, buf, printed>>

SkipBody ==
  /\ GetLine /\ ~in_header
  /\ UNCHANGED <<line, input, field, in_header, hlines, used, room, mem, pc, buf, printed>>

EndOfFile ==
  /\ pc = "read" /\ read = Len(input)
  /\ pc' = "print"
  /\ UNCHANGED <<line, input, read, field, in_header, hlines, used, room, mem, buf, printed>>

------------------------------------------------------------------------------
(* Printing the mailboxes (print_summary).                                 *)

(* The last place of c in text, or 0. *)
strrchr(text, c) ==
  LET places == {i \in DOMAIN text : text[i] = c}
  IN IF places = {} THEN 0 ELSE CHOOSE i \in places : \A j \in places : j <= i

bracketize_mailbox(text) ==
  LET opening == strrchr(text, "<")
  IN IF /\ strrchr(text, ";") = 0
        /\ opening = 0 \/ opening >= strrchr(text, ">")
        /\ Len(text) + 2 < BufLen
     THEN <<"<">> \o text \o <<">">> ELSE text

(***************************************************************************)
(* The text from begin up to the next comma, or to the end, or as much of  *)
(* it as there is room for; next is where the text after it begins.  Where *)
(* a line was folded, the white space is one blank, and the character that *)
(* follows it is skipped with it.                                          *)
(***************************************************************************)
Fault_DelimiterPrinted(text, begin, end) ==
  LET next == {p \in begin .. end - 1 : text[p] = ","}
  IN [text |-> SubSeq(text, begin, end - 1), next |-> IF next = {} THEN end ELSE Min(next) + 1]

unfold_token(text, begin, end) ==
  LET blank(p) == p < end /\ text[p] \in Space
      past[p \in Nat] == IF blank(p) THEN past[p + 1] ELSE p
      unfold[n \in 0 .. BufLen - 1] == [p \in Nat |->
        IF p >= end \/ n = 0 THEN [text |-> <<>>, next |-> p]
        ELSE IF text[p] = "," THEN [text |-> <<>>, next |-> p + 1]
        ELSE LET folded == text[p] = "nl"
                 rest == unfold[n - 1][(IF folded THEN past[p] ELSE p) + 1]
             IN [text |-> <<IF folded THEN "sp" ELSE text[p]>> \o rest.text,
                 next |-> rest.next]]
  IN unfold[BufLen - 1][past[begin]]

(* The pieces of a list that are printed. *)
PrintedPieces(text, begin, end) ==
  LET pieces[p \in Nat] ==
        LET piece == unfold_token(text, p, end)
            first == <<bracketize_mailbox(piece.text)>>
        IN IF piece.next >= end THEN first ELSE first \o pieces[piece.next]
  IN pieces[begin]

(***************************************************************************)
(* One header of the stack, whose text is read where the tokens point.     *)
(* The mailbox of a Sender is printed from the buffer even if none was     *)
(* found and nothing was put there.                                        *)
(***************************************************************************)
print_mailbox(h, text, content) ==
  LET found == h.token[1] # NULL
      lists == h.field \in AddressLists \cup MailboxLists
      one == bracketize_mailbox(
               IF found THEN unfold_token(text, h.token[1], h.token[2]).text ELSE content)
      out == CASE lists /\ found          -> PrintedPieces(text, h.token[1], h.token[2])
               [] h.field \in Mailboxes    -> <<one>>
               [] OTHER                   -> <<>>
  IN /\ printed' = Append(printed, out)
     /\ buf' = IF out = <<>> THEN buf ELSE out[Len(out)]

(* Freed memory may hold anything, the same text too. *)
TextOf(h) == IF h.live THEN {h.text} ELSE {h.text, [i \in DOMAIN h.text |-> "a"]}

(* The buffer is not initialised. *)
Content == IF \A i \in DOMAIN printed : printed[i] = <<>> THEN {<<>>, <<"a">>} ELSE {buf}

PrintHeader ==
  /\ pc = "print" /\ Len(printed) < Len(hlines)
  /\ LET h == hlines[Len(printed) + 1]
     IN \E text \in TextOf(h), content \in Content : print_mailbox(h, text, content)
  /\ UNCHANGED <<line, input, read, field, in_header, hlines, used, room, mem, pc>>

Exit ==
  /\ pc = "print" /\ Len(printed) = Len(hlines)
  /\ pc' = "done"
  /\ UNCHANGED <<line, input, read, field, in_header, hlines, used, room, mem, buf, printed>>

Next == \/ CollectLine \/ CompleteLine \/ OverrunStack \/ LeaveHeaderOut \/ EndHeader
        \/ SkipBody \/ EndOfFile \/ PrintHeader \/ Exit

Spec == Init /\ [][Next]_vars /\ WF_vars(Next)

------------------------------------------------------------------------------
(* Properties.                                                             *)

TypeOK ==
  /\ input \in Inputs /\ read \in 0 .. Len(input)
  /\ line \in Seq(Chars) /\ field \in Fields \cup {NoLine}
  /\ in_header \in BOOLEAN /\ pc \in {"read", "print", "done", "hung", "overrun"}
  /\ hlines \in Seq([field : Fields, text : Seq(Chars), state : SUBSET States,
                     token : (0 .. used) \X (0 .. used), live : BOOLEAN])
  /\ used \in Nat /\ room \in Nat /\ used <= room
  /\ mem \in {"fine", "failed", "null"}
  /\ buf \in Seq(Chars) /\ printed \in Seq(Seq(Seq(Chars)))

(***************************************************************************)
(* Each header is kept once, in its order, with all the lines it was       *)
(* folded over and none of another's: when a message is read, what is on   *)
(* the stack is what the lines read so far are when they are divided       *)
(* before each line that does not begin with a blank, all but the last,    *)
(* which may not be complete, as long as the buffer and the stack could be *)
(* given the memory asked for (hprocess_file, head_append_hline).          *)
(***************************************************************************)
Heads == {i \in 1 .. read : /\ i = 1 \/ input[i].field # Continued
                            /\ \A j \in 1 .. i : input[j].field # Empty}

Complete == {i \in Heads : \E j \in Heads : i < j}

LastOf(i) ==
  CHOOSE j \in i .. read : /\ \A k \in i + 1 .. j : input[k].field = Continued
                           /\ j = read \/ input[j + 1].field # Continued

HeaderFrom(i) == FlattenSeq([k \in 1 .. LastOf(i) - i + 1 |-> input[i + k - 1].text])

StackedWhole ==
  pc \notin {"hung", "overrun"} /\ mem = "fine" =>
    /\ Len(hlines) = Cardinality(Complete)
    /\ \A i \in Complete :
         LET h == hlines[Cardinality({j \in Complete : j <= i})]
         IN h.field = input[i].field /\ h.text = HeaderFrom(i)

(***************************************************************************)
(* The strict form of the recognisers of RFC 2822 accepts exactly what the *)
(* standard says a line of the field is, but for a Received line, of which *)
(* it accepts only such lines (rfc2822.c).                                 *)
(***************************************************************************)
StrictAsStandard ==
  field \in Graded =>
    \A e \in {Scan(line)!Ends} : Parse(line, e)!StrictIsStandard(field)

(***************************************************************************)
(* A line that the strict form accepts is accepted too if liberties may be *)
(* taken: the obsolete form never stops at a prefix that the strict form   *)
(* got past (the OBS branches of rfc2822.c).                               *)
(***************************************************************************)
LibertiesOnlyAdd ==
  field \in Graded =>
    \A e \in {Scan(line)!Ends} : Parse(line, e)!StrictIsObsolete(field)

(***************************************************************************)
(* The lines that a transport adds are lines of a message: what RFC 2821   *)
(* accepts RFC 2822 accepts, and what RFC 821 accepts of Received RFC 822  *)
(* does, though the recognisers share next to nothing (rfc822.c,           *)
(* rfc2822.c).  A literal that holds a parenthesis is no part of a comment *)
(* for RFC 2822, where the address of a host has to be in one.             *)
(***************************************************************************)
TransportIsFormat ==
  field \in {"Received", "Return-Path"} =>
    \A e \in {Scan(line)!Ends} : Parse(line, e)!TransportAccepted(field)

(***************************************************************************)
(* Only a list or a route whose first character is a comma, after white    *)
(* space or a comment, hangs hmine (skip_822_sharp).                       *)
(***************************************************************************)
HangsOnlyAtComma ==
  pc = "hung" =>
    \E p, q \in DOMAIN line :
      /\ p < q /\ line[p] \in {":", "<", ")"} /\ line[q] = ","
      /\ \A r \in p + 1 .. q - 1 : line[r] \in Space

(***************************************************************************)
(* What is printed of a header that is not folded is what it holds, in its *)
(* order: no character is lost, repeated or taken from another header,     *)
(* whatever the commas and the length of the buffer (print_mailbox,        *)
(* unfold_token).                                                          *)
(***************************************************************************)
Bare(text) ==
  FlattenSeq([i \in DOMAIN text |->
    IF text[i] \in Space \cup {"<", ">", ","} THEN <<>> ELSE <<text[i]>>])

PrintedInFull ==
  \A i \in DOMAIN printed :
    LET h == hlines[i]
        token == SubSeq(h.text, h.token[1], h.token[2] - 1)
    IN h.live /\ h.token[1] # NULL /\ h.field \notin Mailboxes
         /\ ~(\E j \in DOMAIN token : token[j] = "nl")
         => Bare(FlattenSeq(printed[i])) = Bare(token)

=============================================================================
