---------------------------- MODULE MCClassifier ----------------------------
(***************************************************************************)
(* Small runs of dbacl -c for TLC: three categories, two of them saved     *)
(* again meanwhile, and documents of at most three lines.                  *)
(***************************************************************************)
EXTENDS Classifier

(* Words, a pair of words, and the match of a regular expression; a and b  *)
(* have the same home slot.                                                *)
Tokens == [a  |-> [id |-> 1, order |-> 1, re |-> 0],
           b  |-> [id |-> 5, order |-> 1, re |-> 0],
           c  |-> [id |-> 2, order |-> 1, re |-> 0],
           d  |-> [id |-> 7, order |-> 1, re |-> 0],
           ab |-> [id |-> 3, order |-> 2, re |-> 0],
           r  |-> [id |-> 4, order |-> 1, re |-> 1]]

Simple == [whole |-> TRUE, max_order |-> 1, retype |-> {}, lambda |-> [a |-> 2, b |-> 1]]
Pairs == [whole |-> TRUE, max_order |-> 2, retype |-> {}, lambda |-> [b |-> 1, c |-> 1, ab |-> 2]]
Matches == [whole |-> TRUE, max_order |-> 1, retype |-> {1}, lambda |-> [r |-> 1]]
Torn == [Simple EXCEPT !.whole = FALSE]
Saved == <<<<Simple, Torn>>, <<Pairs>>, <<Matches, Simple>>>>

L(ind, toks) == [indented |-> ind, tokens |-> toks, nl |-> TRUE]
Unended(l) == [l EXCEPT !.nl = FALSE]
F(name, lines) == [name |-> name, lines |-> lines]
File(f) == [kind |-> "file", name |-> f.name, files |-> <<f>>]
Dir(name, fs) == [kind |-> "directory", name |-> name, files |-> fs]
Missing == [kind |-> "missing", name |-> "m", files |-> <<>>]

Short == F("short", <<L(TRUE, <<"a", "b">>), Unended(L(TRUE, <<"c">>))>>)
Long == F("long", <<L(TRUE, <<"a", "b", "ab", "c", "r">>), L(FALSE, <<"d">>), L(TRUE, <<"b", "a">>)>>)
Same == F("same", <<L(TRUE, <<"a", "a", "r", "a">>), L(TRUE, <<"a", "a">>)>>)
None == F("none", <<>>)
Other == F("other", <<L(TRUE, <<"b">>), L(FALSE, <<"a">>)>>)

ArgLists == {<<>>, <<File(Short), File(Long)>>, <<File(Same), File(Short)>>,
             <<Dir("dir", <<Long, None>>), File(Short)>>, <<Dir("empty", <<>>), File(Same)>>,
             <<File(Same), File(Same)>>}
FewArgLists == {<<>>, <<Dir("dir", <<Short, Other>>)>>, <<File(Other), File(Short)>>,
                <<File(Short), Missing>>}

Run(disturbed, mode, args, indented, append, entropy, filter) ==
  [disturbed |-> disturbed, mode |-> mode, args |-> args, stdin |-> IF disturbed THEN Short ELSE Long,
   indented |-> indented, append |-> append, entropy |-> entropy, filter |-> filter]

Runs ==
  {Run(FALSE, m, l, i, FALSE, e, {}) :
     m \in {"plain", "multifile"}, l \in ArgLists, i \in BOOLEAN, e \in BOOLEAN}
  \cup {Run(FALSE, "plain", l, i, TRUE, FALSE, {}) : l \in ArgLists, i \in BOOLEAN}
  \cup {Run(FALSE, "filter", l, FALSE, FALSE, e, f) : l \in ArgLists, e \in BOOLEAN, f \in {{2}, Cats}}
  \cup {Run(TRUE, m, l, i, FALSE, TRUE, {2}) :
          m \in {"plain", "multifile", "filter"}, l \in FewArgLists, i \in BOOLEAN}
=============================================================================
