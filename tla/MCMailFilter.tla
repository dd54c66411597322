---------------------------- MODULE MCMailFilter ----------------------------
(* Instances of MailFilter for TLC.                                         *)
EXTENDS MailFilter

Line(k, v) == [is |-> k, val |-> v]

(* Lines that the parser tells apart under the options of the instance. *)
MailLines ==
  {Line(k, "") : k \in {"empty", "cont", "from", "dated", "boundary", "digest",
                        "armor", "unarmor"}}
    \cup {Line("type", t) : t \in {"multipart", "TEXT_HTML", "MESSAGE_RFC822", "OCTET_STREAM"}}
    \cup {Line("boundary", "end")}
    \cup {Line("encoding", e) : e \in {"QP", "B64"}}

MailOptions == {{"noplain"}, {"atts"}, {"xheaders", "headers", "plain"}}

(* Lines of a page that break before a word, and longer ones that do not    *)
(* break at all, so that no tail fits behind them.                          *)
MailText ==
  {[text |-> t, len |-> Len(t)] : t \in {<<"s", "w">>, <<"w", "w", "w">>}}
=============================================================================
