----------------------------- MODULE MailFilter -----------------------------
(***************************************************************************)
(* The mail filter of dbacl -T email (mbw.c: mbox_line_filter() and the     *)
(* decoding caches; fh.c: the resets, and the loop over the lines of a      *)
(* file).  A line is one action: it moves the parser between the headers,   *)
(* the bodies and the attachment headers of messages, decides whether the   *)
(* line is shown, and sets the markup filter that a shown line then goes    *)
(* through.  Decoded text waits in a cache until a place to break it comes, *)
(* and later overwrites the line that happens to be read at the time.       *)
(*                                                                         *)
(* A line is what the tests of the code see in it.  A decoded character is  *)
(* part of a word ("w") or a place to break ("s": white space, or the       *)
(* ampersand), together with the type of the part it belongs to.  Left out: *)
(* which words of a header a mark like ';' cuts off, and which lines of     *)
(* plain or armoured text look like encoded blocks (any line may).          *)
(*                                                                         *)
(* A definition named Fault_... is no part of the model: it is the one that *)
(* follows it with a bug, to see that a property would notice.             *)
(***************************************************************************)
EXTENDS Naturals, Sequences, FiniteSetsExt

CONSTANTS
  Lines,        \* the lines of a file
  OptionSets,   \* sets of -T options
  Decoded,      \* lines as decoders see them: [text, len], a sequence of "w"
                \* and "s" that a line of len characters decodes to
  TailLen,      \* 70: a longer tail of a decoded line is not kept together
  PageLen,      \* system_pagesize: what is taken to fit on any line
  MaxCached,    \* bound: no line is decoded that would make a cache longer
  CheckLines,   \* 5: lines that are checked for a corrupted boundary
  Interrupted   \* may a decoded line that was broken off be followed by a
                \* line that ends the part without an empty line or boundary?

Kinds ==
  {"empty", "word", "cont", "from", "subject", "standard", "extended", "received",
   "returned", "dated", "unknown", "type", "encoding", "content", "param", "boundary",
   "digest", "armor", "unarmor", "dashes"}

PlainTypes == {"UNDEF", "MESSAGE_RFC822", "TEXT_PLAIN"}
MarkupTypes == {"TEXT_RICH", "TEXT_UNKNOWN", "TEXT_HTML"}
RawMarkupTypes == {"TEXT_XML", "TEXT_SGML"}
OctetTypes == {"OCTET_STREAM", "APPLICATION_MSWORD"}
MediaTypes == {"IMAGE", "AUDIO", "VIDEO", "MODEL", "OTHER"}
Types ==
  PlainTypes \cup MarkupTypes \cup RawMarkupTypes \cup OctetTypes \cup MediaTypes
Encodings == {"UNDEF", "ID", "B64", "QP", "BIN", "SEVEN"}

Options ==
  {"plain", "noplain", "atts", "headers", "noheaders", "theaders", "xheaders",
   "filter"}

ASSUME MailFilterAssumption ==
  /\ TailLen \in Nat \ {0}
  /\ PageLen \in Nat /\ TailLen <= PageLen
  /\ MaxCached \in Nat
  /\ CheckLines \in Nat \ {0}
  /\ OptionSets \subseteq SUBSET Options
  /\ \A d \in Decoded : d.text \in Seq({"w", "s"}) /\ d.len \in Nat /\ Len(d.text) <= d.len
  /\ \A l \in Lines :
       /\ l.is \in Kinds
       /\ l.is = "type" => l.val \in Types \cup {"multipart"}
       /\ l.is = "encoding" => l.val \in Encodings
  /\ Interrupted \in BOOLEAN

VARIABLES
  options,     \* m_options and u_options
  mstate,      \* mbox.state
  substate,    \* mbox.substate; mbox.armor is maENABLED just if it is "ARMOR"
  header,      \* mbox.header: type and encoding
  body,        \* mbox.body
  skip,        \* mbox.skip_until_boundary
  skipHeader,  \* mbox.skip_header
  prevEmpty,   \* mbox.prev_line_empty
  check,       \* mbox.corruption_check
  known,       \* mbox.boundary holds a boundary
  b64, qp,     \* mbox.b64_dc, mbox.qp_dc: what is cached
  room,        \* and their max_line_len
  fitted,      \* history: a cache never held more than its max_line_len
  xml,         \* xml.parser, or "NONE" where xml.state is DISABLED
  notHeader,   \* not_header of count_mbox_messages()
  extra,       \* extra_lines to come, or Reading
  out          \* what became of the line

parser == <<mstate, substate, header, body, skip, skipHeader, prevEmpty, check, known>>
caches == <<b64, qp, room, fitted>>
vars == <<options, parser, caches, xml, notHeader, extra, out>>

Reading == 3
Mime(t, e) == [type |-> t, encoding |-> e]
Undefined == Mime("UNDEF", "UNDEF")

-----------------------------------------------------------------------------
(* Lines.                                                                  *)

Dashed(l) == l.is \in {"boundary", "digest", "armor", "unarmor", "dashes"}
MimeHeader(l) == l.is \in {"type", "encoding", "content"}

(* scan_header_type().  A line that is no header at all continues one. *)
HeaderType(l) ==
  CASE l.is \in {"subject", "standard"} -> "STANDARD"
    [] l.is = "extended" -> "EXTENDED"
    [] l.is \in {"received", "returned"} -> "TRACE"
    [] MimeHeader(l) -> "MIME"
    [] l.is \in {"dated", "unknown"} -> "UNDEF"
    [] OTHER -> "CONT"

(* extract_mime_types(), on the mime types m. *)
Described(m, l) ==
  CASE l.is = "type" ->
         [m EXCEPT !.type = IF l.val = "multipart" THEN "TEXT_PLAIN" ELSE l.val]
    [] l.is = "encoding" -> [m EXCEPT !.encoding = l.val]
    [] OTHER -> m

(* extract_mime_boundary(): l names a boundary. *)
NamesBoundary(l) == l.is = "param" \/ l.val = "multipart"

Octet(t) == t \in OctetTypes

(* select_xml_defaults() *)
Defaults(t) ==
  CASE t \in MarkupTypes -> IF "plain" \in options THEN "DISABLE"
                            ELSE IF t = "TEXT_HTML" THEN "SMART" ELSE "DUMB"
    [] OTHER -> IF "noplain" \in options THEN "DUMB" ELSE "DISABLE"

(* reset_xml_character_filter(): the parser it leaves.  Where a filter is    *)
(* within a tag or a comment is the matter of XmlFilter.                    *)
Reset(r) == IF r = "DISABLE" THEN "NONE" ELSE r

-----------------------------------------------------------------------------
(* Decoding caches.  Work is what step 2 of mbox_line_filter() does with a  *)
(* line: whether it is processed, the text that overwrites it, whether it   *)
(* is an octet stream, the filter it forces, the caches it leaves, and the  *)
(* text that was decoded from it.                                          *)

Coders == {"B64", "QP"}
Least(m, n) == IF m < n THEN m ELSE n
Words(s) == \E i \in DOMAIN s : s[i][1] = "w"
Spaced(c, i) == i < Len(c) /\ c[i + 1][1] = "s"

(* flush_cache(dc, line, 1) on one cache and, if it is empty, on the other:  *)
(* what lies behind max_line_len is dropped.                                *)
Full(b, q) == IF b # <<>> THEN b ELSE q
Pending == Full(b64, qp)
Start(c, n) == SubSeq(c, 1, Least(Len(c), n))
Whole(b, q, r) == IF b # <<>> THEN Start(b, r["B64"]) ELSE Start(q, r["QP"])

(* flush_cache(dc, line, 0): how much of cache c is flushed onto a line with *)
(* room for n characters.                                                   *)
Break(c, n) ==
  LET end == Least(Len(c), n)
  IN  Max({i \in 0..end : i = 0 \/ Spaced(c, i) \/ i + TailLen = end})

(* adjust_cache_size(): the longest line so far.                            *)
Longest(r, e, n) == [r EXCEPT ![e] = IF @ < n THEN n ELSE @]

Work(p) ==
  [process |-> p, text |-> <<>>, octet |-> FALSE, force |-> "UNDEF",
   b64 |-> b64, qp |-> qp, room |-> room, fits |-> fitted, fed |-> <<>>]

Fault_FlushedAsHeader ==
  [Work(Pending # <<>>) EXCEPT
     !.text = Whole(b64, qp, room),
     !.octet = Pending # <<>> /\ Octet(header.type),
     !.force = IF Pending # <<>> THEN Defaults(header.type) ELSE "UNDEF",
     !.b64 = <<>>,
     !.qp = IF b64 # <<>> THEN qp ELSE <<>>]

Fault_FlushedUnseen ==
  [Work(FALSE) EXCEPT
     !.text = Whole(b64, qp, room),
     !.b64 = <<>>,
     !.qp = IF b64 # <<>> THEN qp ELSE <<>>]

Fault_FlushedTwice ==
  [Work(Pending # <<>>) EXCEPT
     !.text = Whole(b64, qp, room),
     !.octet = Pending # <<>> /\ Octet(body.type),
     !.force = IF Pending # <<>> THEN Defaults(body.type) ELSE "UNDEF"]

(* "flush caches" when a header, a body or an attachment begins. *)
Flushed ==
  [Work(Pending # <<>>) EXCEPT
     !.text = Whole(b64, qp, room),
     !.octet = Pending # <<>> /\ Octet(body.type),
     !.force = IF Pending # <<>> THEN Defaults(body.type) ELSE "UNDEF",
     !.b64 = <<>>,
     !.qp = IF b64 # <<>> THEN qp ELSE <<>>]

Fault_Unregistered(d) ==
  LET e == body.encoding
      fed == [i \in DOMAIN d.text |-> <<d.text[i], body.type>>]
      c == (IF e = "QP" THEN qp ELSE b64) \o fed
      n == Break(c, room[e])
      rest == SubSeq(c, n + 1, Len(c))
  IN  [Work(n > 0) EXCEPT
         !.text = SubSeq(c, 1, n),
         !.octet = Octet(body.type),
         !.b64 = IF e = "QP" THEN b64 ELSE rest,
         !.qp = IF e = "QP" THEN rest ELSE qp,
         !.fits = fitted /\ Len(c) <= room[e],
         !.fed = fed]

(* b64_line_filter() or qp_line_filter() of a line that decodes to d.       *)
Decode(d) ==
  LET e == body.encoding
      r == Longest(room, e, d.len)
      fed == [i \in DOMAIN d.text |-> <<d.text[i], body.type>>]
      c == (IF e = "QP" THEN qp ELSE b64) \o fed
      n == Break(c, r[e])
      rest == SubSeq(c, n + 1, Len(c))
  IN  [Work(n > 0) EXCEPT
         !.text = SubSeq(c, 1, n),
         !.octet = Octet(body.type),
         !.b64 = IF e = "QP" THEN b64 ELSE rest,
         !.qp = IF e = "QP" THEN rest ELSE qp,
         !.room = r,
         !.fits = fitted /\ Len(c) <= r[e],
         !.fed = fed]

(* What line l decodes to: the end of the line is one or two spaces, except *)
(* in base64 or after a soft line break.  The extra lines end in "\r\n".    *)
Coded(t) == [text |-> t, len |-> Len(t)]

Decodings(l) ==
  CASE l.is # "empty" -> Decoded
    [] l.is = "empty" /\ body.encoding = "QP" ->
         IF extra = Reading THEN {Coded(<<"s">>), Coded(<<"s", "s">>)}
                            ELSE {Coded(<<"s", "s">>)}
    [] OTHER -> {[text |-> <<>>, len |-> IF extra = Reading THEN 1 ELSE 2]}

(* Step 3 of mbox_line_filter(), for work w on line l, then what            *)
(* process_file() does with the line: a shown line passes the markup        *)
(* filter, and messages are counted.                                       *)
Process(l, w) ==
  LET processed == w.process \/ w.octet
      late == ~processed /\ l.is = "empty" /\ Full(w.b64, w.qp) # <<>>
      hidden == mstate' = "BODY" /\ skip'
      r == IF w.force # "UNDEF" THEN w.force
           ELSE IF mstate' # "BODY" THEN "DISABLE"
           ELSE IF hidden THEN "UNDEF" ELSE Defaults(body'.type)
      x == IF r = "UNDEF" THEN xml ELSE Reset(r)
      shown == l.is = "empty" \/ (processed /\ (hidden => w.force # "UNDEF"))
      text == IF late THEN Whole(w.b64, w.qp, w.room) ELSE w.text
  IN  /\ b64' = IF late THEN <<>> ELSE w.b64
      /\ qp' = IF late /\ w.b64 = <<>> THEN <<>> ELSE w.qp
      /\ room' = w.room
      /\ fitted' = w.fits
      /\ out' = [shown |-> shown,
                 text |-> text,
                 fed |-> w.fed,
                 xml |-> x,
                 strings |-> w.octet,
                 message |-> notHeader /\ mstate' = "HEADER"]
      /\ xml' = x
      /\ notHeader' = (mstate' # "HEADER")
      /\ prevEmpty' = (l.is = "empty")
      /\ UNCHANGED options

-----------------------------------------------------------------------------
(* Headers.                                                                *)

(* Substate s, after a header line l of a message. *)
HeaderSubstate(l, s) ==
  CASE HeaderType(l) = "STANDARD" ->
         IF "noheaders" \in options /\ l.is # "subject" THEN "OTHER" ELSE "TRACK"
    [] HeaderType(l) = "EXTENDED" -> IF "headers" \in options THEN "TRACK" ELSE "OTHER"
    [] HeaderType(l) = "TRACE" -> IF "theaders" \in options THEN "TRACK" ELSE "OTHER"
    [] HeaderType(l) = "MIME" -> "MIME"
    [] HeaderType(l) = "UNDEF" -> "OTHER"
    [] HeaderType(l) = "CONT" -> s

(* The same in the header of an attachment. *)
AttachSubstate(l, s) ==
  IF HeaderType(l) = "STANDARD" THEN "TRACK" ELSE HeaderSubstate(l, s)

(* extract_header_label(): the lines that -T email:xheaders leaves out. *)
Unlisted(l, left) ==
  l.is \in {"dated", "received"} \/ (left /\ l.is \in {"cont", "param", "empty"})

(* extract_mime_label(): whether it shows line l. *)
Labels(l) ==
  CASE "headers" \notin options \/ l.is = "encoding" -> {FALSE}
    [] "headers" \in options /\ l.is = "type" -> {TRUE}
    [] OTHER -> BOOLEAN

(* Line a is analysed as a header, after substate s, types h and            *)
(* skip_header left; l is the line that was read, w the work done so far.   *)
ReadHeader(l, a, s, h, left, w) ==
  LET sub == HeaderSubstate(a, s)
      xheader == sub = "OTHER" /\ "xheaders" \in options
  IN  /\ substate' = sub
      /\ header' = IF sub = "MIME" THEN Described(h, a) ELSE h
      /\ known' = (known \/ (sub = "MIME" /\ NamesBoundary(a)))
      /\ skipHeader' = IF xheader THEN Unlisted(a, left) ELSE left
      /\ \E p \in IF sub = "MIME" THEN Labels(a)
                  ELSE {sub = "TRACK" \/ (xheader /\ ~Unlisted(a, left))} :
           Process(l, [w EXCEPT !.process = p])

(* A header begins: what was cached overwrites the line, and is analysed in *)
(* its place.                                                              *)
Analysed(l) ==
  CASE Pending = <<>> -> {l}
    [] Pending # <<>> /\ Pending[1][1] = "s" -> {[is |-> "cont", val |-> ""]}
    [] OTHER -> Lines

EnterHeader(l) ==
  /\ mstate' = "HEADER"
  /\ body' = Undefined
  /\ skip' = FALSE
  /\ check' = 0
  /\ \E a \in Analysed(l) : ReadHeader(l, a, "OTHER", Undefined, FALSE, Flushed)

(* Line l in the header of an attachment of types b, after substate s. *)
ReadAttach(l, s, b) ==
  LET sub == AttachSubstate(l, s)
  IN  /\ mstate' = "ATTACH"
      /\ substate' = sub
      /\ body' = IF sub = "MIME" THEN Described(b, l) ELSE b
      /\ known' = (known \/ (sub = "MIME" /\ NamesBoundary(l)))
      /\ UNCHANGED <<header, skipHeader>>
      /\ \E p \in IF sub = "MIME" THEN Labels(l) ELSE {sub = "TRACK"} :
           Process(l, Work(p))

(* A body begins: it inherits the types its own header did not give. *)
EnterBody(l, b) ==
  /\ mstate' = "BODY"
  /\ substate' = "TRACK"
  /\ body' = Mime(IF b.type = "UNDEF" THEN header.type ELSE b.type,
                  IF b.encoding = "UNDEF" THEN header.encoding ELSE b.encoding)
  /\ UNCHANGED <<header, skipHeader, known>>
  /\ Process(l, Flushed)

-----------------------------------------------------------------------------
Init ==
  /\ options \in OptionSets
  /\ mstate = "UNDEF"
  /\ substate = "UNDEF"
  /\ header = Undefined
  /\ body = Undefined
  /\ skip = FALSE
  /\ skipHeader = FALSE
  /\ prevEmpty = TRUE
  /\ check = 0
  /\ known = FALSE
  /\ b64 = <<>>
  /\ qp = <<>>
  /\ room = [e \in Coders |-> PageLen]
  /\ fitted = TRUE
  /\ xml = "SMART"
  /\ notHeader = TRUE
  /\ extra = Reading
  /\ out = [shown |-> FALSE, text |-> <<>>, fed |-> <<>>, xml |-> "NONE",
            strings |-> FALSE, message |-> FALSE]

(* Empty lines before the first message. *)
Wait(l) ==
  /\ mstate = "UNDEF"
  /\ l.is = "empty"
  /\ UNCHANGED <<mstate, substate, header, body, skip, skipHeader, check, known>>
  /\ Process(l, Work(FALSE))

StartMessage(l) ==
  /\ mstate = "UNDEF"
  /\ l.is # "empty"
  /\ EnterHeader(l)

HeaderLine(l) ==
  /\ mstate = "HEADER"
  /\ l.is # "empty"
  /\ UNCHANGED <<mstate, body, skip, check>>
  /\ ReadHeader(l, l, substate, header, skipHeader, Work(FALSE))

EndHeader(l) ==
  /\ mstate = "HEADER"
  /\ l.is = "empty"
  /\ check' = CheckLines
  /\ UNCHANGED skip
  /\ EnterBody(l, body)

(* Lines of a body that end it, in the order of the tests.  A line that was *)
(* broken off is not expected to be followed by one of the last three.      *)
AtBoundary(l) == known /\ l.is = "boundary"
AtDigest(l) == l.is = "digest"
AtArmorEnd(l) == l.is = "unarmor" /\ substate = "ARMOR"
AtArmorStart(l) == l.is = "armor" /\ substate # "ARMOR"
AtContent(l) == MimeHeader(l) /\ (prevEmpty \/ check > 0)
AtFrom(l) == l.is = "from" /\ prevEmpty

Expected == Interrupted \/ ~Words(Pending)

Boundary(l) ==
  /\ mstate = "BODY"
  /\ AtBoundary(l)
  /\ mstate' = "ATTACH"
  /\ substate' = "TRACK"
  /\ body' = header
  /\ skip' = (l.val = "end")
  /\ check' = 0
  /\ UNCHANGED <<header, skipHeader, known>>
  /\ Process(l, Flushed)

Digest(l) ==
  /\ mstate = "BODY"
  /\ AtDigest(l)
  /\ Expected
  /\ skip' = FALSE
  /\ check' = 0
  /\ ReadAttach(l, "TRACK", [body EXCEPT !.type = "MESSAGE_RFC822"])

(* An attachment header without a boundary. *)
ContentLine(l) ==
  /\ mstate = "BODY"
  /\ AtContent(l)
  /\ Expected
  /\ skip' = FALSE
  /\ check' = 0
  /\ ReadAttach(l, "MIME", body)

FromLine(l) ==
  /\ mstate = "BODY"
  /\ AtFrom(l)
  /\ EnterHeader(l)

(* Whether a body is shown, line by line or as the text it decodes to. *)
Display(l) ==
  \/ /\ \/ body.type \in MediaTypes
        \/ Octet(body.type) /\ "atts" \notin options
     /\ Process(l, Work(FALSE))
  \/ /\ body.type \notin MediaTypes
     /\ Octet(body.type) => "atts" \in options
     /\ \/ /\ body.encoding \in {"QP", "B64"}
           /\ \E d \in Decodings(l) :
                /\ Len(Pending) + Len(d.text) <= MaxCached
                /\ Process(l, Decode(d))
        \/ /\ body.encoding \notin {"QP", "B64"}
           /\ \E p \in IF \/ body.encoding = "BIN"
                          \/ body.type \in MarkupTypes \cup RawMarkupTypes
                          \/ "plain" \in options
                       THEN {TRUE} ELSE BOOLEAN :
                Process(l, [Work(p) EXCEPT !.octet = Octet(body.type)])

(* The lines still to be checked for an attachment header. *)
ToCheck(l) ==
  CASE AtArmorEnd(l) -> 0
    [] AtArmorStart(l) -> check
    [] prevEmpty /\ ~AtArmorEnd(l) /\ ~AtArmorStart(l) ->
         IF Dashed(l) /\ "plain" \notin options THEN CheckLines ELSE check
    [] OTHER -> IF check > 0 THEN check - 1 ELSE 0

BodyLine(l) ==
  /\ mstate = "BODY"
  /\ ~(AtBoundary(l) \/ AtDigest(l) \/ AtContent(l) \/ AtFrom(l))
  /\ AtArmorStart(l) => Expected
  /\ substate' = CASE AtArmorEnd(l) -> "TRACK"
                   [] AtArmorStart(l) -> "ARMOR"
                   [] OTHER -> substate
  /\ check' = ToCheck(l)
  /\ skip' = (skip /\ ~AtArmorEnd(l))
  /\ UNCHANGED <<mstate, header, body, skipHeader, known>>
  /\ \/ substate' = "ARMOR" /\ \E p \in BOOLEAN : Process(l, Work(p))
     \/ substate' # "ARMOR" /\ skip' /\ Process(l, Work(FALSE))
     \/ substate' # "ARMOR" /\ ~skip' /\ Display(l)

AttachLine(l) ==
  /\ mstate = "ATTACH"
  /\ l.is # "empty"
  /\ UNCHANGED <<skip, check>>
  /\ ReadAttach(l, substate, body)

EndAttach(l) ==
  /\ mstate = "ATTACH"
  /\ l.is = "empty"
  /\ body.type # "MESSAGE_RFC822"
  /\ skip' = FALSE
  /\ check' = 0
  /\ EnterBody(l, IF body = Mime("APPLICATION_MSWORD", "UNDEF")
                  THEN Mime("APPLICATION_MSWORD", "B64") ELSE body)

(* "our mime parse isn't recursive": an enclosed message is a new message. *)
EndEnclosing(l) ==
  /\ mstate = "ATTACH"
  /\ l.is = "empty"
  /\ body.type = "MESSAGE_RFC822"
  /\ EnterHeader(l)

FilterLine(l) ==
  \/ Wait(l) \/ StartMessage(l)
  \/ HeaderLine(l) \/ EndHeader(l)
  \/ Boundary(l) \/ Digest(l) \/ ContentLine(l) \/ FromLine(l) \/ BodyLine(l)
  \/ AttachLine(l) \/ EndAttach(l) \/ EndEnclosing(l)

ReadLine(l) == extra = Reading /\ FilterLine(l) /\ UNCHANGED extra

(* process_file() at the end of the input. *)
Fault_NoExtraLines == 0
ExtraLines == IF "filter" \in options THEN 0 ELSE 2

EndOfInput ==
  /\ extra = Reading
  /\ extra' = ExtraLines
  /\ UNCHANGED <<options, parser, caches, xml, notHeader, out>>

ExtraLine ==
  /\ extra \in 1..2
  /\ FilterLine([is |-> "empty", val |-> ""])
  /\ extra' = extra - 1

(* reset_mbox_line_filter() and reset_xml_character_filter(xml, xmlRESET)   *)
(* before the next file.                                                   *)
NextFile ==
  /\ extra = 0
  /\ mstate' = "UNDEF"
  /\ substate' = "UNDEF"
  /\ header' = Undefined
  /\ body' = Undefined
  /\ skip' = FALSE
  /\ skipHeader' = FALSE
  /\ prevEmpty' = TRUE
  /\ check' = 0
  /\ known' = FALSE
  /\ xml' = "SMART"
  /\ extra' = Reading
  /\ UNCHANGED <<options, caches, notHeader, out>>

Next ==
  \/ \E l \in Lines : ReadLine(l)
  \/ EndOfInput \/ ExtraLine \/ NextFile

Spec == Init /\ [][Next]_vars

-----------------------------------------------------------------------------
(* At most one of the two caches is in use, and within a part it holds text *)
(* of that part only: flush_cache(b64) || flush_cache(qp) empties them      *)
(* both.  Nothing but the tail that may not be broken stays in it from line *)
(* to line, until there was once more in a cache than fits on a line.       *)
CachesInStep ==
  /\ b64 = <<>> \/ qp = <<>>
  /\ fitted => Len(Pending) <= TailLen
  /\ mstate = "BODY" => \A i \in DOMAIN Pending : Pending[i][2] = body.type

(* A word that was decoded is shown when it leaves the cache, on whatever   *)
(* line it overwrites: it is never read as a header.  Not so for a word of  *)
(* an octet stream at the end of a file: all lines of an octet stream count *)
(* as processed, so that the flush at "the end of file [...] artificially   *)
(* marked by an empty line" is passed over.  Nor once more was cached than  *)
(* fits on a line, because an empty line then leaves words in the cache.    *)
Readable(s) == \E i \in DOMAIN s : s[i][1] = "w" /\ ~Octet(s[i][2])

EveryWordShown == fitted /\ Readable(out.text) => out.shown

(* Decoded words go through the markup filter of the part they come from    *)
(* ("we still remember previous type/encoding"), though the line they        *)
(* overwrite is read after that part.                                       *)
FilteredAsItsPart ==
  fitted =>
    \A i \in DOMAIN out.text :
      (out.text[i][1] = "w" /\ (Octet(out.text[i][2]) => mstate \in {"BODY", "ATTACH"})) =>
        /\ out.xml = Reset(Defaults(out.text[i][2]))
        /\ out.strings = Octet(out.text[i][2])

(* What a decoder puts into a cache comes out of it once and in order: the  *)
(* partial flushes lose and repeat nothing.  Only where more was cached than *)
(* fits on a line may a full flush lose the end of it.  A cache outgrows a   *)
(* line slowly, however long the lines are: each adds at most a tail to it, *)
(* because adjust_cache_size() has registered its length.                   *)
LineRead == extra' = extra \/ extra \in 1..2

CutShort(text, decoded) ==
  /\ PageLen <= Len(text) /\ Len(text) <= Len(decoded)
  /\ text = SubSeq(decoded, 1, Len(text))

Kept(text, rest, decoded, fits) ==
  \/ text \o rest = decoded
  \/ ~fits /\ rest = <<>> /\ CutShort(text, decoded)

TextConserved ==
  [][IF LineRead
     THEN /\ Kept(out'.text, Pending', Pending \o out'.fed, fitted')
          /\ Len(Pending') <= Len(Pending) + TailLen
     ELSE Pending' = Pending]_vars

(* count_mbox_messages() counts a message each time a header begins, and    *)
(* only then, over all the files of a corpus.                               *)
MessageCounted ==
  [][LineRead =>
       (out'.message <=> (mstate # "HEADER" /\ mstate' = "HEADER"))]_vars

=============================================================================
