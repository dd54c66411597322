------------------------------- MODULE Rfc822 -------------------------------
(***************************************************************************)
(* The recognisers of rfc822.c: the header lines of RFC 822 and RFC 821.   *)
(* Each operator is the function of the same name; it takes and returns a  *)
(* position in the line (see HeaderLine).  A line begins after the name   *)
(* of its field.                                                           *)
(***************************************************************************)
EXTENDS HeaderScan

------------------------------------------------------------------------------
(* Lexical tokens.  White space and comments are looked up.                *)

OrElse(p, q) == IF p = NULL THEN q ELSE p

Lwsp(p) == IF Found(p) THEN ends.lwsp[p][0] ELSE p
Lwsp1(p) == IF Found(p) THEN ends.lwsp[p][1] ELSE p

(***************************************************************************)
(* A list.  Its first loop, for a list that must not be empty, skips a     *)
(* comma without moving: it never ends.                                    *)
(***************************************************************************)
skip_822_sharp(p, skip, min) ==
  LET commas[q \in Places] ==
        IF At(q) = "," THEN Apply(commas, Lwsp(q + 1)) ELSE q
      rest[q \in Places] ==
        IF Found(commas[q])
        THEN OrElse(Apply(rest, Lwsp(skip[commas[q]])), commas[q]) ELSE q
      first == IF At(p) = "," THEN Hang ELSE Lwsp(Apply(skip, p))
  IN Apply(rest, IF Found(p) /\ min = 1 THEN first ELSE p)

(* Elements with a delimiter between them. *)
skip_822_seq(p, skip, delim) ==
  LET next(q) == skip_single_char(Lwsp(q), delim)
      rest[q \in Places] ==
        IF Found(next(q)) THEN Apply(rest, Apply(skip, Lwsp(next(q)))) ELSE q
  IN Apply(rest, Apply(skip, p))

skip_822_atom(p) == skip_run(p, Atext)
skip_822_quoted_string(p) == Quoted(p)
skip_822_text(p) == IF Found(p) THEN Len(line) + 1 ELSE p
skip_822_domain_literal(p) == Literal(p)

skip_822_word(p) ==
  IF At(p) = "\"" THEN skip_822_quoted_string(p) ELSE skip_822_atom(p)

skip_822_phrase(p) ==
  LET rest[q \in Places] == Or(Apply(rest, skip_822_word(Lwsp(q))), q)
  IN Apply(rest, skip_822_word(p))

skip_822_domain_ref(p) == skip_822_atom(p)

skip_822_sub_domain(p) ==
  IF At(p) = "[" THEN skip_822_domain_literal(p) ELSE skip_822_domain_ref(p)

skip_822_domain(p) == skip_822_seq(p, [q \in Places |-> skip_822_sub_domain(q)], ".")
skip_822_local_part(p) == skip_822_seq(p, [q \in Places |-> skip_822_word(q)], ".")

skip_822_addr_spec(p) ==
  LET at == skip_single_char(Lwsp(skip_822_local_part(p)), "@")
  IN skip_822_domain(Lwsp(at))

skip_822_msg_id(p) ==
  LET address == skip_822_addr_spec(Lwsp(skip_single_char(p, "<")))
  IN skip_single_char(Lwsp(address), ">")

skip_822_at_domain(p) == skip_822_domain(Lwsp(skip_single_char(p, "@")))

skip_822_route(p) ==
  LET domains == skip_822_sharp(p, [q \in Places |-> skip_822_at_domain(q)], 1)
  IN skip_single_char(Lwsp(domains), ":")

skip_822_route_addr(p) ==
  LET start == Lwsp(skip_single_char(p, "<"))
      address(route) == IF route = NULL THEN start ELSE Lwsp(route)
  IN skip_single_char(skip_822_addr_spec(address(skip_822_route(start))), ">")

skip_822_mailbox(p) ==
  OrElse(skip_822_addr_spec(p), skip_822_route_addr(Lwsp(skip_822_phrase(p))))

skip_822_mailbox_list(p, min) ==
  skip_822_sharp(p, [q \in Places |-> skip_822_mailbox(q)], min)

skip_822_field_name(p) == skip_single_char(Lwsp(p), ":")

skip_822_group(p) ==
  LET name == skip_single_char(Lwsp(skip_822_phrase(p)), ":")
      members == skip_822_sharp(Lwsp(name), [q \in Places |-> skip_822_mailbox(q)], 0)
  IN skip_single_char(Lwsp(members), ";")

skip_822_address(p) == OrElse(skip_822_mailbox(p), skip_822_group(p))

skip_822_address_list(p, min) ==
  skip_822_sharp(p, [q \in Places |-> skip_822_address(q)], min)

(* The loop ends at NULL only, so that no references are ever recognised. *)
skip_822_refs(p) ==
  LET ref[q \in Places] ==
        Apply(ref, Lwsp(IF At(q) = "<" THEN skip_822_msg_id(q)
                        ELSE skip_822_phrase(q)))
  IN Apply(ref, p)

------------------------------------------------------------------------------
(* Dates.                                                                  *)

skip_822_hour(p) ==
  LET hour == Lwsp(skip_single_char(Lwsp(skip_twodigit(p)), ":"))
      minute == skip_twodigit(hour)
      colon == skip_single_char(Lwsp(minute), ":")
  IN IF Found(colon) THEN skip_twodigit(Lwsp(colon)) ELSE minute

skip_822_zone_name(p) == skip_string_list(p, ZoneNames)

(* The sign of a numeric zone is tested and not skipped. *)
skip_822_zone(p) ==
  CASE ~Found(p)          -> p
    [] At(p) \in Alpha    -> IF At(p) = "a" /\ At(p + 1) \notin Alpha THEN p + 1
                             ELSE skip_822_zone_name(p)
    [] At(p) \in {"+", "-"} -> skip_fourdigit(Lwsp(p))
    [] OTHER              -> NULL

skip_822_time(p) == skip_822_zone(Lwsp(skip_822_hour(p)))
skip_822_day_name(p) == skip_string_list(p, DayNames)
skip_822_month_name(p) == skip_string_list(p, MonthNames)

skip_822_date(p) ==
  skip_twodigit(Lwsp(skip_822_month_name(Lwsp(skip_twodigit(p)))))

skip_822_date_time(p) ==
  LET day == skip_822_day_name(p)
      date == IF day = NULL THEN p ELSE Lwsp(skip_single_char(Lwsp(day), ","))
  IN skip_822_time(Lwsp(skip_822_date(date)))

skip_822_end_of_line(p) ==
  LET end == Lwsp(p) IN IF Found(end) /\ At(end) # "nul" THEN NULL ELSE end

------------------------------------------------------------------------------
(* RFC 822 header lines.                                                   *)

(* What follows the name of the field. *)
Value822 == Lwsp(skip_822_field_name(1))

parse_822_return == skip_822_end_of_line(skip_822_route_addr(Value822))

(* One optional part of a Received line. *)
Part822(p, word, skip) ==
  LET tmp == skip_single_string(p, word)
  IN IF Found(tmp) THEN Lwsp(Apply(skip, Lwsp(tmp))) ELSE p

parse_822_received ==
  LET from == Part822(Value822, "from", [q \in Places |-> skip_822_domain(q)])
      by == Part822(from, "by", [q \in Places |-> skip_822_domain(q)])
      via == Part822(by, "via", [q \in Places |-> skip_822_atom(q)])
      with[q \in Places] ==
        LET again(r) == IF r # q THEN Apply(with, r) ELSE r
        IN again(Part822(q, "with", [w \in Places |-> skip_822_atom(w)]))
      id == Part822(Apply(with, via), "id", [q \in Places |-> skip_822_msg_id(q)])
      for == Part822(id, "for", [q \in Places |-> skip_822_addr_spec(q)])
      date == Lwsp(skip_single_char(for, ";"))
  IN skip_822_end_of_line(skip_822_date_time(date))

parse_822_reply_to == skip_822_end_of_line(skip_822_address_list(Value822, 1))
parse_822_from == skip_822_end_of_line(skip_822_mailbox_list(Value822, 1))
parse_822_sender == skip_822_end_of_line(skip_822_mailbox_list(Value822, 1))
parse_822_date == skip_822_end_of_line(skip_822_date_time(Value822))
parse_822_to == skip_822_end_of_line(skip_822_address_list(Value822, 1))
parse_822_cc == skip_822_end_of_line(skip_822_address_list(Value822, 1))
parse_822_bcc == skip_822_end_of_line(skip_822_address_list(Value822, 0))
parse_822_message_id == skip_822_end_of_line(skip_822_msg_id(Value822))
parse_822_in_reply_to == skip_822_end_of_line(skip_822_refs(Value822))
parse_822_references == skip_822_end_of_line(skip_822_refs(Value822))
parse_822_subject == skip_822_end_of_line(skip_822_text(Value822))

(* The same after "Resent-". *)
parse_822_resent_reply_to == parse_822_reply_to
parse_822_resent_sender == parse_822_sender
parse_822_resent_date == parse_822_date
parse_822_resent_to == parse_822_to
parse_822_resent_cc == parse_822_cc
parse_822_resent_bcc == parse_822_bcc
parse_822_resent_message_id == parse_822_message_id

------------------------------------------------------------------------------
(* RFC 821.                                                                *)

skip_821_name(p) ==
  IF Found(p) /\ At(p) \notin Alpha THEN NULL
  ELSE skip_run(p, Alpha \cup {"d", "-"})

skip_821_number(p) == skip_run(p, {"d"})

(* The dots are tested and not skipped: only NULL is ever returned. *)
skip_821_dotnum(p) ==
  LET digits == RunOf(p, {"d"})
      dot == IF digits - p \in 1 .. 3 /\ At(digits) = "." THEN digits ELSE NULL
  IN IF Found(p) THEN skip_single_char(dot, "d") ELSE p

skip_821_element(p) ==
  CASE ~Found(p)    -> p
    [] At(p) = "#"  -> skip_821_number(Lwsp(p + 1))
    [] At(p) = "["  -> skip_single_char(Lwsp(skip_821_dotnum(Lwsp(p + 1))), "]")
    [] OTHER        -> skip_821_name(p)

skip_821_domain(p) == skip_822_seq(p, [q \in Places |-> skip_821_element(q)], ".")
skip_821_string(p) == skip_822_atom(p)
skip_821_dot_string(p) == skip_822_seq(p, [q \in Places |-> skip_821_string(q)], ".")

skip_821_local_part(p) ==
  IF At(p) = "\"" THEN skip_822_quoted_string(p) ELSE skip_821_dot_string(p)

skip_821_mailbox(p) ==
  LET at == skip_single_char(Lwsp(skip_821_local_part(p)), "@")
  IN skip_821_domain(Lwsp(at))

skip_821_at_domain(p) == skip_821_domain(Lwsp(skip_single_char(p, "@")))
skip_821_adl(p) == skip_822_seq(p, [q \in Places |-> skip_821_at_domain(q)], ",")

skip_821_path(p) ==
  LET start == Lwsp(skip_single_char(p, "<"))
      adl == skip_821_adl(start)
      mailbox == IF adl = NULL THEN start
                 ELSE Lwsp(skip_single_char(Lwsp(adl), ":"))
  IN skip_single_char(Lwsp(skip_821_mailbox(mailbox)), ">")

skip_821_reverse_path(p) == skip_821_path(p)
skip_821_link(p) == skip_822_atom(p)
skip_821_protocol(p) == skip_822_atom(p)

skip_821_from_domain(p) ==
  Lwsp1(skip_821_domain(Lwsp1(skip_single_string(p, "from"))))

skip_821_by_domain(p) ==
  Lwsp1(skip_821_domain(Lwsp1(skip_single_string(p, "by"))))

skip_821_date(p) ==
  LET month == skip_822_month_name(Lwsp1(skip_twodigit(p)))
  IN skip_twodigit(Lwsp1(month))

skip_821_time(p) ==
  LET hour == Lwsp(skip_single_char(Lwsp(skip_twodigit(p)), ":"))
      minute == Lwsp(skip_single_char(Lwsp(skip_twodigit(hour)), ":"))
  IN skip_822_zone_name(Lwsp1(skip_twodigit(minute)))

skip_821_daytime(p) == skip_821_time(Lwsp1(skip_821_date(p)))

(* What follows the name of the field and a colon. *)
Value821 == Lwsp1(skip_single_char(1, ":"))

parse_821_return_path_line == skip_822_end_of_line(skip_821_reverse_path(Value821))

(* One optional part of a time stamp. *)
Part821(p, word, skip) ==
  LET tmp == skip_single_string(p, word)
  IN IF Found(tmp) THEN Lwsp1(Apply(skip, Lwsp1(tmp))) ELSE p

parse_821_time_stamp_line ==
  LET by == skip_821_by_domain(skip_821_from_domain(Value821))
      via == Part821(by, "via", [q \in Places |-> skip_821_link(q)])
      with == Part821(via, "with", [q \in Places |-> skip_821_protocol(q)])
      id == Part821(with, "id", [q \in Places |-> skip_821_string(q)])
      for == Part821(id, "for", [q \in Places |-> skip_821_path(q)])
      date == Lwsp1(skip_single_char(for, ";"))
  IN skip_822_end_of_line(skip_821_daytime(date))

=============================================================================
