----------------------------- MODULE MCXmlFilter -----------------------------
(* Pages for XmlFilter, and what a reader would see of them.                *)
EXTENDS XmlFilter

El(src, sees) == [src |-> src, shows |-> sees]
If(b, s) == IF b THEN s ELSE <<>>
Attr(name, quote, val) == <<name, "=">> \o quote \o val \o quote
Tagged(name, rest) == <<"<", name>> \o rest \o <<">">>
Within(name, inner) == Tagged(name, <<>>) \o inner \o <<"<", "/", name, ">">>
Dq == <<"\"">>
Url == <<"t", ":", "/", "/", "t", "%41", ".", "t", "/", "t", "?", "t">>

Elements(o) ==
  {El(<<"t", "sp", "&amp;">>, <<"t", "sp", "d">>),
   El(<<"&", "t", "&lt;", "&#">>, <<"t", "(", "sp">>),
   El(Tagged("t", <<"sp">> \o Attr("t", Dq, <<">", "t">>)), <<>>),
   El(Tagged("t", <<"sp">> \o Attr("t", <<"'">>, <<"\\", "'", ">">>)), <<>>),
   El(Tagged("a", <<"sp">> \o Attr("href", Dq, Url)),
      If("links" \in o, <<"t", ":", "/", "/", "t", "d", ".", "t", "/", "t", "t">>)),
   El(Tagged("a", <<"sp">> \o Attr("href", Dq, <<"javascript:", "t">>)),
      If({"links", "scripts"} \subseteq o, <<"javascript:", "t">>)),
   El(Tagged("img", <<"sp">> \o Attr("alt", Dq, <<"t", "sp", "&amp;", "t">>) \o <<"sp">>
                      \o Attr("t", Dq, <<"t">>)),
      If("alt" \in o, <<"t", "sp", "d", "t">>)),
   El(Tagged("img", <<"sp">> \o Attr("alt", Dq, <<"\\", "\"", ">", "t">>)),
      If("alt" \in o, <<"\\", "\"", ">", "t">>)),
   El(Tagged("img", <<"sp">> \o Attr("alt", <<>>, <<"t">>) \o <<"sp", "t">>), If("alt" \in o, <<"t">>)),
   El(Tagged("div", <<"sp">> \o Attr("class", <<"'">>, <<"t">>)), If("styles" \in o, <<"t">>)),
   El(Tagged("input", <<"sp">> \o Attr("onclick", <<"'">>, <<"t">>)), If("scripts" \in o, <<"t">>)),
   El(Within("script", <<"t">>), If("scripts" \in o, <<"t">>)),
   El(Within("style", <<"t">>), If("styles" \in o, <<"t">>)),
   El(Within("noframes", <<"t">>), If("alt" \in o, <<"t">>)),
   El(Within("title", <<"t">>), <<"t">>),
   El(Tagged("br", <<>>), <<>>),
   El(<<"<", "!--", "t", ">", "-", "t", "-", "-", ">">>, If("comments" \in o, <<"t", ">", "-", "t">>)),
   El(<<"<", "t", "sp", "t", "=", "t", "sp", ">">>, <<>>)}

(* A line may end anywhere but inside what is tested as a whole.            *)
Cuts(s) == {k \in 1 .. Len(s) - 1 :
              /\ s[k] \notin {"<", "\\"} /\ ~(s[k] = "/" /\ s[k - 1] = "<") /\ ~(s[k] = "-" /\ s[k + 1] = "-")}
Lines(s, k, ending) == <<SubSeq(s, 1, k) \o ending, SubSeq(s, k + 1, Len(s))>>

Good(reset, s, k, ending, sees) ==
  [reset |-> reset, lines |-> Lines(s, k, ending), wellformed |-> TRUE, shows |-> sees]
Bad(s) == [reset |-> "RESET", lines |-> <<s>>, wellformed |-> FALSE, shows |-> <<>>]
Broken ==
  {<<"<", "html", ">", "<", "img", "sp", "alt", "=", "\"", "t">>, <<"<", "!--", "t">>, <<"<", "script", ">", "t", "<", "<">>,
   <<"<", "comment", ">", "<", "/", "comment", ">", "t">>, <<"<", ">", "t", "ext", "bin">>,
   <<"<", "a", "sp", "href", "=", "&amp;", "&amp;">>, <<"<", "a", "sp", "href", "=", "t", ":", "&", "<">>}

OptionSets == {{}, {"links", "alt"}, {"scripts", "styles", "comments"}, {"mbox", "alt", "styles"},
               {"links", "scripts", "forms"}}

Unbroken(reset, s, sees) == Good(reset, s, Len(s), <<>>, sees)

(* A page in full: what is outside its html element is not shown, unless    *)
(* it is a mail's.                                                          *)
Around(o) == If("mbox" \notin o, <<"t">>)
Full(o, e) == Around(o) \o Tagged("html", <<>>) \o e.src \o <<"t", "<", "/", "html", ">">> \o Around(o)
FullPages(o, e) == {Good("RESET", Full(o, e), k, <<"nl">>, e.shows \o <<"t">>) : k \in Cuts(Full(o, e))}

(* A part of a mail, whose lines may have been decoded and have no newline. *)
Parts(o, e) == 
  {Good("SMART", e.src \o <<"t">>, k, <<>>, e.shows \o <<"t">>) : 
     k \in IF "mbox" \in o THEN Cuts(e.src) ELSE {}}

Run(o, pages) == [options |-> o, pages |-> pages]
Separate(o, e) == {Run(o, <<p>>) : p \in FullPages(o, e) \cup Parts(o, e)}
Html(s) == Tagged("html", <<>>) \o s
Followers(o) == {f \in Elements(o) : Len(f.src) < 9}
Together(o, e) ==
  UNION {{Run(o, <<Good("RESET", Html(e.src \o f.src), k, <<"nl">>, e.shows \o f.shows)>>) :
             k \in Cuts(Html(e.src \o f.src))} : f \in Followers(o)}
AfterBroken(o, e) == {Run(o, <<Bad(b), Unbroken("RESET", Html(e.src), e.shows)>>) : b \in Broken}

(* A mail's parts. Where elements are not looked into, an alternative stays *)
(* hidden.                                                                  *)
Typed(o, e) ==
  IF "mbox" \notin o THEN {}
  ELSE {Run(o, <<Unbroken("RESET", <<"t">>, <<"t">>),
                 [Unbroken(r, e.src, IF r = "DISABLE" THEN e.src ELSE e.shows) EXCEPT
                    !.wellformed = ~(r = "DUMB" /\ "alt" \in o)],
                 Unbroken("SMART", e.src, e.shows)>>) : r \in {"DISABLE", "DUMB", "SMART"}}
Dumb(e) == Run({"xml"}, <<Unbroken("RESET", e.src, e.shows)>>)

PageInputs ==
  UNION {UNION {Separate(o, e) \cup Together(o, e) \cup AfterBroken(o, e) \cup Typed(o, e) : e \in Elements(o)} :
           o \in OptionSets}
    \cup {Dumb(e) : e \in Elements({"xml"})}
==============================================================================
