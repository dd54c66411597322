------------------------------ MODULE XmlFilter ------------------------------
(***************************************************************************)
(* The filter that removes markup from a text, in place, line by line      *)
(* (xml_character_filter, mbw.c). One action per state of its machine. A   *)
(* lexeme stands for the characters that the code tests together: a name,  *)
(* an entity, an escape, or one character.                                 *)
(***************************************************************************)
EXTENDS Naturals, Sequences, FiniteSets

CONSTANT Inputs   \* [options, pages]: the options of a run and the pages it reads

VARIABLES
  input,    \* the options and pages of this execution
  page,     \* number of the page being read
  row,      \* number of its line being read, 0 before the first
  line,     \* that line, up to its NUL
  at,       \* how many lexemes of line have been read
  q,        \* what has been written in place of them
  shown,    \* what the earlier lines of the page have become
  xml,      \* XML_State: state, attribute, parser, hide
  beyond    \* line has been read past its NUL: what follows depends on older lines

vars == <<input, page, row, line, at, q, shown, xml, beyond>>

Option(o) == o \in input.options
Here(i) == IF i \in 1 .. Len(line) THEN line[i] ELSE "nul"

(*-------------------------------- lexemes --------------------------------*)
Mined == {"a", "area", "applet", "base", "bgsound", "div", "embed", "frame", "form", "img",
          "iframe", "ilayer", "input", "layer", "link", "object", "span"}
Roots == {"html", "head", "body"}
Alternatives == {"noframes", "nolayer", "noscript", "noembed"}
Hiding == Alternatives \cup {"script", "style", "title"}
Rules == {"br", "hr"}
Attributes == [SRC    |-> {"href", "data", "src", "urn"},
               FORM   |-> {"action", "value"},
               ALT    |-> {"alt", "title"},
               ASTYLE |-> {"class", "style"}]
Events == {"onload", "onclick"}
Names == Mined \cup Roots \cup Hiding \cup Rules \cup Events \cup {"comment"}
           \cup UNION {Attributes[k] : k \in DOMAIN Attributes}

Spaces == {"sp", "nl"}
Bytes == {"ext", "bin"}   \* a byte above 127, a control character
Letters == Names \cup {"t", "javascript:"}   \* t: a letter that begins none of the names
Delimiters == {"?", ";", "#", "&"}
(* What is written for an entity of the table, for those that could be     *)
(* taken for markup, and for a number that is missing.                     *)
Entities == {"&amp;", "&lt;", "&#"}
decode_html_entity ==
  [x \in Entities |-> IF x = "&amp;" THEN "d" ELSE IF x = "&lt;" THEN "(" ELSE "sp"]
AfterAmpersand ==
  [x \in Entities |-> IF x = "&amp;" THEN "amp;" ELSE IF x = "&lt;" THEN "lt;" ELSE "#"]
Queries == Delimiters \cup Entities
Width(x) == IF x \in Spaces \cup Bytes \cup {"nul"} THEN 1 ELSE Len(x)

Size(s) == LET upto[n \in 0 .. Len(s)] == IF n = 0 THEN 0 ELSE upto[n - 1] + Width(s[n])
           IN upto[Len(s)]

Lexemes == Letters \cup Spaces \cup Bytes \cup Queries
             \cup {"<", ">", "/", "!--", "=", "'", "\"", "\\", "-", ":", ".", "%41"}
Written == Lexemes \cup {"|", "d", "(", "amp;", "lt;"}

(* The lengths of these strings in C. The names that are looked for within a *)
(* tag have three letters at least.                                         *)
ASSUME StringLengths ==
  /\ \A x \in Written : Width(x) \in Nat \ {0}
  /\ \A x \in Events \cup UNION {Attributes[k] : k \in DOMAIN Attributes} : Width(x) >= 3
  /\ \A x \in {"t", "d", "|", "<"} : Width(x) = 1
  /\ \A x \in Entities : Width(decode_html_entity[x]) = 1 /\ Width(AfterAmpersand[x]) < Width(x)

(* A page: how the filter is reset before it, its lines, and what a reader  *)
(* would see of it when it is well formed.                                  *)
Page == [reset : {"RESET", "DISABLE", "SMART", "HTML", "DUMB"}, lines : Seq(Seq(Lexemes)),
         wellformed : BOOLEAN, shows : Seq(Written)]

ASSUME XmlFilterAssumption == \A i \in Inputs : i.pages \in Seq(Page) /\ i.pages # <<>>

(*------------------------- xml_attribute_filter() ------------------------*)
(* For the mutant: the caller writes the character too.                    *)
Fault_WrittenTwice(c) == IF c \in Spaces THEN <<c>> ELSE IF c = "%41" THEN <<c, "d">> ELSE <<c, c>>

(* An undecoded entity is its & and then more ordinary characters.         *)
decode_uri_character(c) ==
  IF c \in Spaces THEN <<>> ELSE IF c = "%41" THEN <<"d">> ELSE <<c>>

NextAttribute(a, c) ==
  CASE a = "SRC" /\ c = ":" -> "SRC_NETLOC_PREFIX"
    [] a = "SRC" /\ c = "javascript:" -> "JSCRIPT"
    [] a \in {"SRC_NETLOC_PREFIX", "SRC_NETLOC", "SRC_NETLOC_PATH"} /\ c \in Queries ->
         "SRC_NETLOC_SUFFIX"
    [] a = "SRC_NETLOC_PREFIX" /\ c # "/" -> "SRC_NETLOC"
    [] a = "SRC_NETLOC" /\ c = "/" -> "SRC_NETLOC_PATH"
    [] OTHER -> a

Printed(a, c) ==
  CASE a = "UNDEF" \/ a = "none" -> <<>>
    [] a = "JSCRIPT" \/ (a = "SRC" /\ c = "javascript:") -> IF Option("scripts") THEN <<c>> ELSE <<>>
    [] a = "ASTYLE" -> IF Option("styles") THEN <<c>> ELSE <<>>
    [] a \in {"SRC_NETLOC", "SRC_NETLOC_PATH"} /\ c \in Queries ->
         IF c \in Entities THEN <<AfterAmpersand[c]>> ELSE <<>>
    [] a \in {"SRC_NETLOC_PREFIX", "SRC_NETLOC", "SRC_NETLOC_PATH"} /\ c \notin Queries ->
         decode_uri_character(c)
    [] OTHER -> <<c>>

(* An entity is decoded, and the lexeme after it passed on unseen.         *)
xml_attribute_filter(a, i) ==
  LET entity == a # "UNDEF" /\ Here(i) \in Entities
      last == IF entity THEN i + 1 ELSE i
  IN [attribute |-> NextAttribute(a, Here(last)), last |-> last,
      out |-> (IF entity THEN <<decode_html_entity[Here(i)]>> ELSE <<>>) \o Printed(a, Here(last))]

(*--------------------------------- steps ---------------------------------*)
Reading == row > 0 /\ ~beyond /\ at < Len(line) /\ xml.state # "DISABLED"
In(s) == Reading /\ xml.state = s
C == Here(at + 1)

(* The next n lexemes are replaced by out; NUL is never stepped over, but  *)
(* when the code does not look.                                            *)
Step(n, x, out) ==
  /\ xml' = x /\ q' = q \o out /\ at' = at + n
  /\ beyond' = (at + n > Len(line))
  /\ UNCHANGED <<input, page, row, line, shown>>

To(s) == [xml EXCEPT !.state = s]
ATTRIBSEP == <<"|">>
Mark == IF xml.attribute # "UNDEF" THEN ATTRIBSEP ELSE <<>>

Visible == \/ xml.hide \in {"VISIBLE", "title"}
           \/ xml.hide = "script" /\ Option("scripts")
           \/ xml.hide = "style" /\ Option("styles")

(* TAGMATCH: a name counts when it ends here. *)
Tagmatch(i, names) == Here(i) \in names /\ Here(i + 1) \in Spaces \cup {">", "nul"}
HtmlFound == IF xml.parser = "SMART" THEN "HTML" ELSE xml.parser
HtmlLost == IF xml.parser = "HTML" THEN "SMART" ELSE xml.parser

OpenTag ==
  /\ In("TEXT") /\ C = "<" /\ Here(at + 2) \in Letters
  /\ LET name(names) == Tagmatch(at + 2, names)
         mined == (name(Mined) /\ ~(Here(at + 2) = "a" /\ Here(at + 3) = ">")) \/ name({"body"})
         hide == IF name(Roots) THEN "VISIBLE"
                 ELSE IF name({"comment"}) /\ xml.parser = "HTML" THEN "COMMENT"
                 ELSE IF name(Alternatives) /\ xml.parser = "HTML" /\ Option("alt") THEN "VISIBLE"
                 ELSE IF name(Hiding) THEN Here(at + 2) ELSE xml.hide
     IN Step(2, [state |-> IF mined THEN "XTAG" ELSE "TAG", attribute |-> "UNDEF", hide |-> hide,
                 parser |-> IF name(Roots) THEN HtmlFound ELSE xml.parser],
             IF name(Rules) THEN <<"nl">> ELSE <<>>)

CloseTag ==
  /\ In("TEXT") /\ C = "<" /\ Here(at + 2) = "/"
  /\ LET name(names) == Tagmatch(at + 3, names)
         ends == name(Roots) \/ name({"title"}) \/ (name(Hiding) /\ Here(at + 3) = xml.hide)
     IN Step(2, [state |-> "TAG", attribute |-> "UNDEF",
                 parser |-> IF name(Roots) THEN HtmlLost ELSE xml.parser,
                 hide |-> IF ends THEN "VISIBLE" ELSE xml.hide], <<>>)

Comment ==
  /\ In("TEXT") /\ C = "<" /\ Here(at + 2) = "!--"
  /\ IF Here(at + 3) = ">" THEN Step(3, xml, <<>>) ELSE Step(2, To("CMNT"), <<>>)

Doubled ==
  /\ In("TEXT") /\ C = "<" /\ Here(at + 2) = "<"
  /\ IF xml.parser = "DUMB" THEN Step(2, xml, <<>>)
     ELSE Step(1, xml, IF Visible THEN <<"<">> ELSE <<>>)

Bogus ==
  /\ In("TEXT") /\ C = "<" /\ Here(at + 2) \notin Letters \cup {"/", "!--", "<"}
  /\ Step(2, To("TAG"), <<>>)

(* An ampersand that begins no entity is left out.                         *)
Text ==
  /\ In("TEXT") /\ C # "<"
  /\ Step(1, xml, IF xml.parser = "SMART" \/ ~Visible \/ C = "&" THEN <<>>
                  ELSE IF C \in Entities THEN <<decode_html_entity[C]>> ELSE <<C>>)

(* Tags that are not mined. *)
Tag ==
  /\ In("TAG")
  /\ Step(1, IF C = ">" THEN To("TEXT") ELSE IF C = "=" THEN To("TAGPREQ") ELSE xml, <<>>)

Quoted(prefix, quote) == prefix \o (IF quote = "'" THEN "QUOTE" ELSE "DQUOTE")

(* The next lexeme, and what the attribute filter takes with it.           *)
Filtered(x, i, n, before) ==
  LET f == xml_attribute_filter(x.attribute, i)
  IN Step(f.last - at + n, [x EXCEPT !.attribute = f.attribute], before \o f.out)

BeforeValue(s, prefix) ==
  /\ In(s)
  /\ IF C \in {"'", "\""} THEN Step(1, To(Quoted(prefix, C)), <<>>)
     ELSE IF C \in Spaces THEN Step(1, xml, <<>>)
     ELSE Filtered(To(prefix), at + 1, 0, <<>>)

TagValue == BeforeValue("TAGPREQ", "TAG")
XtagValue == BeforeValue("XTAGPREQ", "XTAG")

TagQuote ==
  \E quote \in {"'", "\""} :
    /\ In(Quoted("TAG", quote))
    /\ IF C = "\\" /\ Here(at + 2) = quote THEN Step(2, xml, <<>>)
       ELSE Step(1, IF C = quote THEN To("TAG") ELSE xml, <<>>)

(* Tags whose attributes are mined. *)
Mines(c, following) ==
  CASE c \in Attributes.SRC /\ Option("links") -> "SRC"
    [] c \in Attributes.FORM /\ Option("forms") -> "SRC"
    [] c \in Attributes.ALT /\ Option("alt") -> "ALT"
    [] c \in Attributes.ASTYLE /\ Option("styles") -> "ASTYLE"
    [] c \in Events /\ following \in Spaces \cup {"=", "nul"} -> "JSCRIPT"
    [] OTHER -> "no"

Xtag ==
  /\ In("XTAG")
  /\ LET x == [xml EXCEPT !.parser = HtmlFound]
         undef(y) == [y EXCEPT !.attribute = "UNDEF"]
         mines == Mines(C, Here(at + 2))
     IN IF x.attribute # "UNDEF" /\ C = "sp"
        THEN Step(1, undef(x), ATTRIBSEP)
        ELSE IF C = ">" THEN Step(1, undef([x EXCEPT !.state = "TEXT"]), Mark)
        ELSE IF C = "=" THEN Step(1, [x EXCEPT !.state = "XTAGPREQ"], <<>>)
        ELSE IF mines # "no"
             THEN Step(1, [x EXCEPT !.attribute = mines], Printed(x.attribute, "t") \o Mark \o ATTRIBSEP)
        ELSE Filtered(x, at + 1, 0, <<>>)

(* A quote after a backslash is part of the value. *)
XtagQuote ==
  \E quote \in {"'", "\""} :
    /\ In(Quoted("XTAG", quote))
    /\ IF C = quote THEN Step(1, [xml EXCEPT !.state = "XTAG", !.attribute = "UNDEF"], Mark)
       ELSE LET f == xml_attribute_filter(xml.attribute, at + 1)
                escaped == Here(f.last) = "\\" /\ Here(f.last + 1) = quote
            IN IF escaped THEN Filtered([xml EXCEPT !.attribute = f.attribute], f.last + 1, 0, f.out)
               ELSE Step(f.last - at, [xml EXCEPT !.attribute = f.attribute], f.out)

InComment ==
  /\ In("CMNT")
  /\ IF C = "-" /\ Here(at + 2) = "-" THEN Step(1, To("TAG"), <<>>)
     ELSE Step(1, xml, IF \/ Option("comments")
                          \/ xml.hide = "script" /\ Option("scripts")
                          \/ xml.hide = "style" /\ Option("styles") THEN <<C>> ELSE <<>>)

(*---------------------------- lines and pages ----------------------------*)
is_binline(s) ==
  LET plain == {i \in 1 .. Len(s) : s[i] # "ext"}
  IN (\E i \in 1 .. Len(s) : s[i] = "bin") \/ Cardinality(plain) < Len(s) \div 2
is_emptyspace(s) == \A i \in 1 .. Len(s) : s[i] \in Spaces

(* reset_xml_character_filter(): at the start of a file, and where a mail  *)
(* announces the type of its next part. The attribute is left as it was.   *)
Fault_TagLeftOpen(x, parser) ==
  [x EXCEPT !.state = IF @ \in {"none", "DISABLED"} THEN "TEXT" ELSE @, !.hide = "VISIBLE", !.parser = parser]
Fresh(x, parser) == [x EXCEPT !.state = "TEXT", !.hide = "VISIBLE", !.parser = parser]
Reset(x, r) ==
  CASE r = "RESET" -> Fresh(x, IF Option("xml") THEN "DUMB" ELSE "SMART")
    [] r = "DISABLE" -> [x EXCEPT !.state = "DISABLED"]
    [] r \in {"SMART", "HTML"} ->
         IF x.state = "DISABLED" \/ x.parser \notin {"HTML", "SMART"} THEN Fresh(x, r) ELSE x
    [] r = "DUMB" -> IF x.state = "DISABLED" \/ x.parser # "DUMB" THEN Fresh(x, r) ELSE x

Pages == input.pages
Init ==
  /\ input \in Inputs
  /\ page = 1 /\ row = 0 /\ line = <<>> /\ at = 0 /\ q = <<>> /\ shown = <<>> /\ beyond = FALSE
  /\ xml = Reset(Reset([state |-> "none", attribute |-> "none", parser |-> "none", hide |-> "none"],
                       "RESET"), Pages[1].reset)

LineRead == row = 0 \/ at = Len(line) \/ xml.state = "DISABLED"
Became == IF xml.state = "DISABLED" THEN line ELSE q

(* In a mail any line of text settles that this is markup.                 *)
NextLine ==
  /\ ~beyond /\ LineRead /\ row < Len(Pages[page].lines)
  /\ LET new == Pages[page].lines[row + 1]
     IN /\ line' = new
        /\ xml' = IF Option("mbox") /\ xml.parser = "SMART" /\ ~is_binline(new) /\ ~is_emptyspace(new)
                  THEN [xml EXCEPT !.parser = "HTML"] ELSE xml
  /\ row' = row + 1 /\ shown' = shown \o Became /\ at' = 0 /\ q' = <<>>
  /\ UNCHANGED <<input, page, beyond>>

PageRead == ~beyond /\ LineRead /\ row = Len(Pages[page].lines)
NextPage ==
  /\ PageRead /\ page < Len(Pages)
  /\ page' = page + 1 /\ row' = 0 /\ line' = <<>> /\ at' = 0 /\ q' = <<>> /\ shown' = <<>>
  /\ xml' = Reset(xml, Pages[page + 1].reset)
  /\ UNCHANGED <<input, beyond>>

Done == (beyond \/ (PageRead /\ page = Len(Pages))) /\ UNCHANGED vars

Next == \/ OpenTag \/ CloseTag \/ Comment \/ Doubled \/ Bogus \/ Text
        \/ Tag \/ TagValue \/ TagQuote \/ Xtag \/ XtagValue \/ XtagQuote \/ InComment
        \/ NextLine \/ NextPage \/ Done
Spec == Init /\ [][Next]_vars

(*------------------------------ properties -------------------------------*)
(* The line is rewritten in place: what has been written never reaches the *)
(* part that is still to be read (xml_attribute_filter(), mbw.c:3720).     *)
OutputBehindInput == ~beyond => Size(q) <= Size(SubSeq(line, 1, at))

(* Of a well-formed page the text and the attributes asked for are shown,  *)
(* in order and nothing else, wherever its lines are broken and whatever   *)
(* page was read before it.                                                *)
Unmarked(s) == SelectSeq(s, LAMBDA c : c \notin {"|", "nl"})
ShownAsWritten ==
  PageRead /\ Pages[page].wellformed => Unmarked(shown \o Became) = Pages[page].shows

==============================================================================
