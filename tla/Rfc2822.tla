------------------------------ MODULE Rfc2822 ------------------------------
(***************************************************************************)
(* The recognisers of rfc2822.c: the header lines of RFC 2822 and RFC      *)
(* 2821.  Each operator is the function of the same name; opt is the set   *)
(* of liberties it takes.  None of these recognisers loops for ever.       *)
(***************************************************************************)
EXTENDS HeaderScan

Strict == {}
Obsolete == {"OBS"}
Lax == {"OBS", "ALLOW_NFQDN"}
Lax2821 == {"NO_SP_BEFORE_DATE", "ALLOW_NFQDN", "NO_PARENS_ADDRESS"}

IsObs(opt) == "OBS" \in opt
(* q is tried too, if the obsolete forms are allowed. *)
OrObs(p, q, opt) == IF IsObs(opt) THEN Or(p, q) ELSE p

------------------------------------------------------------------------------
(* Lexical tokens.                                                         *)

skip_onetwodigit(p) ==
  IF Found(p) /\ At(p) # "d" THEN NULL
  ELSE IF Found(p) THEN (IF At(p + 1) = "d" THEN p + 2 ELSE p + 1) ELSE p

(* Back over white space. *)
unskip_2822_fws(p) ==
  LET back[q \in Places] == IF At(q - 1) \in Space THEN back[q - 1] ELSE q
  IN IF Found(p) THEN back[p] ELSE p

(* White space and comments, looked up. *)
Cfws(p) == IF Found(p) THEN ends.cfws[p][0] ELSE p
Cfws1(p) == IF Found(p) THEN ends.cfws[p][1] ELSE p

(* The obsolete form of a list: elements may be missing. *)
skip_2822_obs_list(p, skip) ==
  LET comma(q) == Cfws(skip_single_char(Cfws(q), ","))
      element(q) == Or(Apply(skip, q), q)
      rest[q \in Places] == Or(Apply(rest, comma(element(q))), element(q))
  IN Apply(rest, comma(element(p)))

skip_2822_seq(p, skip, delim) ==
  LET rest[q \in Places] ==
        IF At(q) = delim THEN Apply(rest, Apply(skip, q + 1)) ELSE q
  IN Apply(rest, Apply(skip, p))

(* One element after the other, as many as there are, at least one. *)
Repeat(p, skip) ==
  LET rest[q \in Places] == Or(Apply(rest, Apply(skip, q)), q)
  IN Apply(rest, Apply(skip, p))

skip_2822_1atext(p, opt) == skip_run(p, Atext)
skip_2822_quoted_string(p, opt) == Cfws(Quoted(Cfws(p)))
skip_2822_atom(p, opt) == Cfws(skip_2822_1atext(Cfws(p), opt))
Fault_AtomOnly(p, opt) == skip_2822_atom(p, opt)

skip_2822_word(p, opt) == Or(skip_2822_quoted_string(p, opt), skip_2822_atom(p, opt))
skip_2822_dot_atom_text(p, opt) ==
  skip_2822_seq(p, [q \in Places |-> skip_2822_1atext(q, opt)], ".")
skip_2822_dot_atom(p, opt) == Cfws(skip_2822_dot_atom_text(Cfws(p), opt))
skip_2822_domain_literal(p, opt) == Cfws(Literal(Cfws(p)))
skip_2822_obs_domain(p, opt) ==
  skip_2822_seq(p, [q \in Places |-> skip_2822_atom(q, opt)], ".")

skip_2822_domain(p, opt) ==
  CASE At(p) = "["                  -> skip_2822_domain_literal(p, opt)
    [] At(p) # "[" /\ IsObs(opt)    -> skip_2822_obs_domain(p, opt)
    [] At(p) # "[" /\ ~IsObs(opt)   -> skip_2822_dot_atom(p, opt)

(* White space, comments and commas, or nothing. *)
skip_2822_multicomma(p) ==
  LET commas[q \in Places] == Or(Apply(commas, Cfws(skip_single_char(q, ","))), q)
  IN Or(Apply(commas, Cfws(p)), p)

AtDomains(p, at) ==
  LET rest[q \in Places] == Or(Apply(rest, Apply(at, skip_2822_multicomma(q))), q)
  IN Apply(rest, Apply(at, p))

skip_2822_obs_domain_list(p, opt) ==
  LET at == [q \in Places |->
        skip_2822_domain(skip_single_char(q, "@"), opt \cup Obsolete)]
  IN AtDomains(p, at)

skip_2822_obs_route(p, opt) ==
  Cfws(skip_single_char(skip_2822_obs_domain_list(Cfws(p), opt), ":"))

skip_2822_obs_local_part(p, opt) ==
  skip_2822_seq(p, [q \in Places |-> skip_2822_word(q, opt \cup Obsolete)], ".")

skip_2822_local_part(p, opt) ==
  OrObs(Or(skip_2822_quoted_string(p, opt), skip_2822_dot_atom(p, opt)),
        skip_2822_obs_local_part(p, opt), opt)

skip_2822_addr_spec(p, opt) ==
  skip_2822_domain(skip_single_char(skip_2822_local_part(p, opt), "@"), opt)

skip_2822_obs_angle_addr(p, opt) ==
  LET o == opt \cup Obsolete
      start == skip_single_char(Cfws(p), "<")
      address == Or(skip_2822_obs_route(start, o), start)
  IN Cfws(skip_single_char(skip_2822_addr_spec(address, o), ">"))

skip_2822_obs_path(p, opt) == skip_2822_obs_angle_addr(p, opt)

skip_2822_path(p, opt) ==
  LET start == Cfws(skip_single_char(Cfws(p), "<"))
      address == IF At(start) = ">" THEN start ELSE skip_2822_addr_spec(start, opt)
  IN Cfws(OrObs(skip_single_char(address, ">"), skip_2822_obs_path(p, opt), opt))

skip_2822_angle_addr(p, opt) ==
  LET address == skip_2822_addr_spec(skip_single_char(Cfws(p), "<"), opt)
  IN Cfws(OrObs(skip_single_char(address, ">"), skip_2822_obs_angle_addr(p, opt), opt))

skip_2822_item_value(p, opt) ==
  CASE At(p) = "<"  -> Repeat(p, [q \in Places |-> skip_2822_angle_addr(q, opt)])
    [] At(p) = "\"" -> skip_2822_addr_spec(p, opt)
    [] OTHER        -> Or(skip_2822_addr_spec(p, opt), skip_2822_domain(p, opt))

skip_2822_item_name(p) ==
  IF At(p) \in Alpha THEN skip_run(p, Alpha \cup {"d", "-"}) ELSE NULL

skip_2822_name_val_pair(p, opt) ==
  LET value == Cfws1(skip_2822_item_name(p))
  IN unskip_2822_fws(skip_2822_item_value(value, opt))

(* Any number of pairs, with white space between them. *)
Pairs(p, pair) ==
  LET rest[q \in Places] == Or(Apply(rest, Apply(pair, Cfws1(q))), q)
  IN Or(Apply(rest, Apply(pair, p)), p)

skip_2822_name_val_list(p, opt) ==
  Cfws(Pairs(Cfws(p), [q \in Places |-> skip_2822_name_val_pair(q, opt)]))

------------------------------------------------------------------------------
(* Dates.                                                                  *)

(* White space that only the obsolete form may have here. *)
ObsCfws(p, opt) == IF IsObs(opt) THEN Cfws(p) ELSE p

(* White space before a day; in the obsolete form with comments. *)
BeforeDay(p, opt) ==
  IF ~IsObs(opt) /\ At(p) \in Blank THEN skip_2822_fws(p) ELSE ObsCfws(p, opt)

skip_2822_day_of_week(p, opt) ==
  ObsCfws(skip_string_list(BeforeDay(p, opt), DayNames), opt)

skip_2822_day(p, opt) == ObsCfws(skip_onetwodigit(BeforeDay(p, opt)), opt)

skip_2822_month(p, opt) ==
  LET start == IF IsObs(opt) THEN Cfws1(unskip_2822_fws(p))
               ELSE skip_2822_fws(p)
      name == skip_string_list(start, MonthNames)
  IN IF IsObs(opt) THEN Cfws1(name) ELSE skip_2822_fws(name)

skip_2822_year(p, opt) ==
  OrObs(skip_fourdigit(p), Cfws(skip_twodigit(Cfws(p))), opt)

skip_2822_date(p, opt) ==
  skip_2822_year(skip_2822_month(skip_2822_day(p, opt), opt), opt)

skip_2822_hour(p, opt) == ObsCfws(skip_twodigit(ObsCfws(p, opt)), opt)
skip_2822_minute(p, opt) == ObsCfws(skip_twodigit(ObsCfws(p, opt)), opt)
skip_2822_second(p, opt) == skip_twodigit(ObsCfws(p, opt))

skip_2822_time_of_day(p, opt) ==
  LET minute == skip_2822_minute(skip_single_char(skip_2822_hour(p, opt), ":"), opt)
      colon == skip_single_char(minute, ":")
  IN IF Found(colon) THEN skip_2822_second(colon, opt) ELSE minute

skip_2822_obs_zone_name(p) == skip_string_list(p, ZoneNames)

skip_2822_obs_zone(p) ==
  CASE At(p) \notin Alpha                         -> p
    [] At(p) = "a" /\ At(p + 1) \notin Alpha       -> p + 1
    [] OTHER                                      -> skip_2822_obs_zone_name(p)

(* A zone that is missing is no error. *)
skip_2822_zone(p, opt) ==
  CASE At(p) \in {"+", "-"}  -> skip_fourdigit(p + 1)
    [] At(p) \notin {"+", "-"} /\ IsObs(opt) -> skip_2822_obs_zone(p)
    [] OTHER -> p

ObsUnskip(p, opt) == IF IsObs(opt) THEN unskip_2822_fws(p) ELSE p

skip_2822_time(p, opt) ==
  LET time == ObsUnskip(skip_2822_time_of_day(p, opt), opt)
  IN skip_2822_zone(skip_2822_fws(time), opt)

skip_2822_date_time(p, opt) ==
  LET day == skip_2822_day_of_week(p, opt)
      start == IF Found(day) THEN skip_single_char(day, ",") ELSE p
      date == ObsUnskip(skip_2822_date(start, opt), opt)
  IN Cfws(skip_2822_time(skip_2822_fws(date), opt))

------------------------------------------------------------------------------
(* Addresses.                                                              *)

(* Words, dots and white space, the first of them a word. *)
skip_2822_obs_phrase(p, opt) ==
  LET element(q) ==
        CASE At(q) = "."      -> q + 1
          [] At(q) \in Space  -> Cfws1(q)
          [] OTHER            -> skip_2822_word(q, opt \cup Obsolete)
      rest[q \in Places] == Or(Apply(rest, element(q)), q)
  IN Apply(rest, skip_2822_word(p, opt \cup Obsolete))

skip_2822_phrase(p, opt) ==
  IF IsObs(opt) THEN skip_2822_obs_phrase(p, opt)
  ELSE Repeat(p, [q \in Places |-> skip_2822_word(q, opt)])

skip_2822_display_name(p, opt) == skip_2822_phrase(p, opt)

skip_2822_name_addr(p, opt) ==
  skip_2822_angle_addr(Or(skip_2822_display_name(p, opt), p), opt)

skip_2822_mailbox(p, opt) == Or(skip_2822_addr_spec(p, opt), skip_2822_name_addr(p, opt))

Fault_ObsListOnly(p, skip, opt) ==
  IF IsObs(opt) THEN skip_2822_obs_list(p, skip) ELSE skip_2822_seq(p, skip, ",")

(* A list in its plain form, or in its obsolete form if that is allowed. *)
ListOf(p, skip, opt) ==
  OrObs(skip_2822_seq(p, skip, ","), skip_2822_obs_list(p, skip), opt)

skip_2822_mailbox_list(p, opt) ==
  ListOf(p, [q \in Places |-> skip_2822_mailbox(q, opt)], opt)

skip_2822_group(p, opt) ==
  LET name == skip_single_char(skip_2822_display_name(p, opt), ":")
      members == Or(skip_2822_mailbox_list(name, opt), Or(Cfws1(name), name))
  IN Cfws(skip_single_char(members, ";"))

skip_2822_address(p, opt) == Or(skip_2822_mailbox(p, opt), skip_2822_group(p, opt))

skip_2822_address_list(p, opt) ==
  ListOf(p, [q \in Places |-> skip_2822_address(q, opt)], opt)

skip_2822_id_left(p, opt) ==
  OrObs(IF At(p) = "\"" THEN Quoted(p) ELSE skip_2822_dot_atom_text(p, opt),
        skip_2822_local_part(p, opt), opt)

skip_2822_id_right(p, opt) ==
  OrObs(IF At(p) = "[" THEN Literal(p) ELSE skip_2822_dot_atom_text(p, opt),
        skip_2822_domain(p, opt), opt)

skip_2822_msg_id(p, opt) ==
  LET left == skip_2822_id_left(skip_single_char(Cfws(p), "<"), opt)
      right == skip_2822_id_right(skip_single_char(left, "@"), opt)
  IN Cfws(skip_single_char(right, ">"))

skip_2822_refs(p, opt) == Repeat(p, [q \in Places |-> skip_2822_msg_id(q, opt)])
skip_2822_text(p) == IF Found(p) THEN Len(line) + 1 ELSE p
skip_2822_field_name(p, opt) == skip_single_char(ObsCfws(p, opt), ":")

(* At most two characters of white space. *)
skip_2822_end_of_line(p) ==
  IF Found(p) /\ p \geq Len(line) - 1 /\ At(RunOf(p, Space)) = "nul"
  THEN RunOf(p, Space) ELSE NULL

------------------------------------------------------------------------------
(* RFC 2822 header lines.                                                  *)

(* What follows the name of the field. *)
Value2822(opt) == skip_2822_field_name(1, opt)

parse_2822_return(opt) == skip_2822_end_of_line(skip_2822_path(Value2822(opt), opt))

parse_2822_received(opt) ==
  LET dated(list) == skip_2822_date_time(skip_single_char(list, ";"), opt)
      orBare(list) == Or(dated(list), IF IsObs(opt) THEN list ELSE NULL)
  IN skip_2822_end_of_line(orBare(skip_2822_name_val_list(Value2822(opt), opt)))

parse_2822_from(opt) == skip_2822_end_of_line(skip_2822_mailbox_list(Value2822(opt), opt))
parse_2822_sender(opt) == skip_2822_end_of_line(skip_2822_mailbox(Value2822(opt), opt))
parse_2822_reply_to(opt) == skip_2822_end_of_line(skip_2822_address_list(Value2822(opt), opt))
parse_2822_to(opt) == skip_2822_end_of_line(skip_2822_address_list(Value2822(opt), opt))
parse_2822_cc(opt) == skip_2822_end_of_line(skip_2822_address_list(Value2822(opt), opt))

parse_2822_bcc(opt) ==
  skip_2822_end_of_line(
    Or(skip_2822_address_list(Value2822(opt), opt), Cfws(Value2822(opt))))

parse_2822_message_id(opt) == skip_2822_end_of_line(skip_2822_msg_id(Value2822(opt), opt))
parse_2822_date(opt) == skip_2822_end_of_line(skip_2822_date_time(Value2822(opt), opt))
parse_2822_in_reply_to(opt) == skip_2822_end_of_line(skip_2822_refs(Value2822(opt), opt))
parse_2822_references(opt) == skip_2822_end_of_line(skip_2822_refs(Value2822(opt), opt))
parse_2822_subject(opt) == skip_2822_end_of_line(skip_2822_text(Value2822(opt)))

(* The same after "Resent-". *)
parse_2822_resent_from(opt) == parse_2822_from(opt)
parse_2822_resent_reply_to(opt) == parse_2822_reply_to(opt)
parse_2822_resent_sender(opt) == parse_2822_sender(opt)
parse_2822_resent_date(opt) == parse_2822_date(opt)
parse_2822_resent_to(opt) == parse_2822_to(opt)
parse_2822_resent_cc(opt) == parse_2822_cc(opt)
parse_2822_resent_bcc(opt) == parse_2822_bcc(opt)
parse_2822_resent_message_id(opt) == parse_2822_message_id(opt)

------------------------------------------------------------------------------
(* RFC 2821.                                                               *)

skip_2821_sub_domain(p, opt) ==
  LET end == skip_run(p, Alpha \cup {"d", "-"})
  IN IF At(p) \in Alpha \cup {"d"} /\ At(end - 1) # "-" THEN end ELSE NULL

skip_2821_address_literal(p) == Literal(p)

skip_2821_domain(p, opt) ==
  LET more(sub) ==
        skip_2822_seq(skip_single_char(sub, "."),
                      [q \in Places |-> skip_2821_sub_domain(q, opt)], ".")
      orName(sub) == Or(more(sub), IF "ALLOW_NFQDN" \in opt THEN sub ELSE NULL)
  IN IF At(p) = "[" THEN skip_2821_address_literal(p)
     ELSE orName(skip_2821_sub_domain(p, opt))

skip_2821_at_domain(p, opt) == skip_2821_domain(skip_single_char(p, "@"), opt)

skip_2821_local_part(p, opt) ==
  IF At(p) = "\"" THEN Quoted(p)
  ELSE skip_2822_dot_atom_text(p, opt)

skip_2821_mailbox(p, opt) ==
  skip_2821_domain(skip_single_char(skip_2821_local_part(p, opt), "@"), opt)

skip_2821_adl(p, opt) == skip_2822_seq(p, [q \in Places |-> skip_2821_at_domain(q, opt)], ",")

(* The colon is looked for where the source route begins, not behind it: no  *)
(* path with a source route is recognised.                                  *)
skip_2821_path(p, opt) ==
  LET start == skip_single_char(p, "<")
      adl == skip_2821_adl(start, opt)
      mailbox == IF Found(adl) THEN skip_single_char(start, ":") ELSE start
  IN skip_single_char(skip_2821_mailbox(mailbox, opt), ">")

skip_2821_reverse_path(p, opt) == skip_2821_path(p, opt)

skip_2821_tcp_info(p, opt) ==
  skip_2821_address_literal(IF At(p) = "[" THEN p
                            ELSE skip_2822_fws(skip_2821_domain(p, opt)))

skip_2821_extended_domain(p, opt) ==
  LET tcp(q) == skip_single_char(skip_2821_tcp_info(
                  skip_single_char(skip_2822_fws(q), "("), opt), ")")
      bare(q) == IF "NO_PARENS_ADDRESS" \in opt
                 THEN skip_2821_address_literal(skip_2822_fws(q)) ELSE NULL
      orAlone(q) == Or(tcp(q), Or(bare(q), q))
  IN IF At(p) = "[" THEN tcp(skip_2821_address_literal(p))
     ELSE orAlone(skip_2821_domain(p, opt))

Fault_NoSpace(p, opt) ==
  Cfws(skip_2821_extended_domain(skip_2822_fws(skip_single_string(p, "from")), opt))

skip_2821_from_domain(p, opt) ==
  Cfws1(skip_2821_extended_domain(
    skip_2822_fws(skip_single_string(p, "from")), opt))

skip_2821_by_domain(p, opt) ==
  Cfws1(skip_2821_extended_domain(
    skip_2822_fws(skip_single_string(p, "by")), opt))

skip_2821_link(p, opt) == skip_2822_atom(p, opt)
skip_2821_protocol(p, opt) == skip_2822_atom(p, opt)

skip_2821_string(p, opt) ==
  IF At(p) = "\"" THEN Quoted(p) ELSE skip_2822_atom(p, opt)

skip_2821_string_msg_id(p, opt) ==
  IF At(p) = "<" THEN skip_2822_msg_id(p, opt) ELSE skip_2821_string(p, opt)

skip_2821_path_mailbox(p, opt) ==
  IF At(p) = "<" THEN skip_2821_path(p, opt) ELSE skip_2821_mailbox(p, opt)

(* What follows the name of the field and a colon. *)
Value2821 == skip_2822_fws(skip_single_char(1, ":"))

parse_2821_return_path_line(opt) ==
  skip_2822_end_of_line(skip_2821_reverse_path(Value2821, opt))

(***************************************************************************)
(* One optional part of a time stamp.  The space that must follow it is    *)
(* looked for where skip() has stopped, which is after that space if skip() *)
(* takes it: the result of unskip_2822_fws() is not used.                  *)
(***************************************************************************)
Part2821(p, word, skip, opt) ==
  LET tmp == skip_single_string(p, word)
      value == Apply(skip, skip_2822_fws(tmp))
      after == Cfws1(value)
  IN CASE ~Found(tmp)    -> p
       [] Found(after)   -> after
       [] Found(tmp) /\ ~Found(after) ->
            IF "NO_SP_BEFORE_DATE" \in opt THEN value ELSE NULL

parse_2821_time_stamp_line(opt) ==
  LET by == skip_2821_by_domain(skip_2821_from_domain(Value2821, opt), opt)
      via == Part2821(by, "via", [q \in Places |-> skip_2821_link(q, opt)], opt)
      with == Part2821(via, "with", [q \in Places |-> skip_2821_protocol(q, opt)], opt)
      id == Part2821(with, "id", [q \in Places |-> skip_2821_string_msg_id(q, opt)], opt)
      for == Part2821(id, "for", [q \in Places |-> skip_2821_path_mailbox(q, opt)], opt)
      date == skip_2822_fws(skip_single_char(for, ";"))
  IN skip_2822_end_of_line(skip_2822_date_time(date, opt))

=============================================================================
