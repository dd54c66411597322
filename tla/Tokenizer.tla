------------------------------ MODULE Tokenizer ------------------------------
(***************************************************************************)
(* How filtered lines become the tokens that dbacl learns or scores: the   *)
(* options -w, -S, -j and -e, the table of regular expressions filled by   *)
(* -g and by the categories' headers (load_regex(), catfun.c), and the two *)
(* tokenizers of process_file(): regex_tokenizer() once per expression,    *)
(* and std_tokenizer() character by character, whose holding buffer and    *)
(* character state outlive the line, and the state the file as well.  A    *)
(* classifier uses both if only some of its categories have expressions.   *)
(***************************************************************************)
EXTENDS CharClasses, SequencesExt

CONSTANTS
  Inputs,           \* what the program is run on (see input)
  MAX_TOKEN_LEN,    \* 30
  MAX_SUBMATCH,     \* 9
  EXTRA_TOKEN_LEN,  \* 4
  MAX_RE            \* the bits of re_bitfield

Char == 1 .. 255

ASSUME TokenizerAssumption ==
  /\ {MAX_TOKEN_LEN, MAX_SUBMATCH, EXTRA_TOKEN_LEN, MAX_RE} \subseteq Nat \ {0}
  /\ \A x \in Inputs :
       /\ x.files \in Seq(Seq(Seq(Char))) /\ x.w \in Nat /\ x.cp \in CharParsers
       /\ x.regexes = <<>> => x.stdtok

VARIABLES
  input,    \* [files, w, cp, casen, straddle, regexes, stdtok]: the lines of each file, the
            \* options, and whether the words that no expression asks for are told
  pc,       \* "options" | "file" | "line" | "regex" | "std" | "reset" | "end" | "fatal"
  loaded,   \* how many of input.regexes load_regex() was given
  re,       \* the table re[0 .. regex_count - 1], of [string, submatches]
  spare,    \* re[regex_count].submatches
  file,     \* the file being read
  row,      \* and the line of it
  i,        \* the regular expression whose turn it is
  k,        \* how much of the line it has passed
  line,     \* pptextbuf
  p,        \* the place std_tokenizer() looks at
  state,    \* char_filter_state
  h,        \* hbuf up to *pq
  tstart,   \* where the current token starts in it
  o,        \* *hbuf_order
  told,     \* the calls of word_fun() by std_tokenizer(): [order, words]
  found     \* and by regex_tokenizer(): [re, file, row, at, words]
vars == <<input, pc, loaded, re, spare, file, row, i, k, line, p, state, h, tstart, o, told, found>>
optionVars == <<loaded, re, spare>>
fileVars == <<file, row>>
regexVars == <<i, k, found>>
stdVars == <<p, state, h, tstart, o, told>>

DIAMOND == 3
Newline == 10

(* The elements of S, numbers up to n, in order.                           *)
Ascending(S, n) == SelectSeq([j \in 1 .. n |-> j], LAMBDA j : j \in S)

(* What word_fun() is called with and does not skip at once.               *)
Tell(tokens) == SelectSeq(tokens, LAMBDA t : \E n \in DOMAIN t.words : t.words[n] # <<>>)

(*------------------------- regular expressions ---------------------------*)
(* A pattern has a name and alternatives, each a sequence of parts: one or *)
(* more of chars, and the group they are captured by, or 0. POSIX takes    *)
(* the leftmost of the longest matches.                                    *)
Matched(parts, s, j) ==
  FoldLeft(LAMBDA m, part :
             LET so == IF m = <<>> THEN j ELSE Last(m).eo + 1
                 run == {e \in so .. Len(s) : \A b \in so .. e : s[b] \in part.chars}
             IN IF run = {} THEN m
                ELSE Append(m, [group |-> part.group, so |-> so,
                                eo |-> CHOOSE e \in run : \A b \in run : b <= e]),
           <<>>, parts)
MatchAt(pattern, s, j) ==
  LET full == {a \in DOMAIN pattern.alternatives :
                 Len(Matched(pattern.alternatives[a], s, j)) = Len(pattern.alternatives[a])}
  IN IF full = {} THEN <<>> ELSE Matched(pattern.alternatives[CHOOSE a \in full : TRUE], s, j)
Starts(pattern, s, from) == {j \in from .. Len(s) : MatchAt(pattern, s, j) # <<>>}
Groups(m) == {m[n].group : n \in DOMAIN m} \ {0}
Capture(m, s, z) == LET n == CHOOSE n \in DOMAIN m : m[n].group = z IN SubSeq(s, m[n].so, m[n].eo)

AllCaptures == 0 .. 63   \* ~0

(* The slot after the last expression keeps the bits of a suffix that came *)
(* with an expression known already.                                       *)
Fault_BitsKept(g) ==
  IF g.suffix = {} THEN AllCaptures ELSE g.suffix \cup IF re = <<>> THEN {} ELSE Last(re).submatches
Submatches(g) == IF g.suffix = {} THEN AllCaptures ELSE spare \cup g.suffix
Stored(g) == [pattern |-> g.pattern, enclosed |-> ~g.parentheses]
Known(g) == \E c \in DOMAIN re : re[c].string = [pattern |-> g.pattern, enclosed |-> FALSE]

LoadRegex ==
  /\ pc = "options" /\ loaded < Len(input.regexes)
  /\ loaded' = loaded + 1
  /\ LET g == input.regexes[loaded + 1]
     IN IF Known(g) THEN spare' = Submatches(g) /\ UNCHANGED <<re, pc>>
        ELSE /\ re' = Append(re, [string |-> Stored(g), submatches |-> Submatches(g)])
             /\ spare' = {}
             /\ pc' = IF Len(re') >= MAX_RE THEN "fatal" ELSE pc
  /\ UNCHANGED <<input, fileVars, line, regexVars, stdVars>>

(* -w: the holding buffer has room for one token more than an n-gram, and  *)
(* for what closes it.                                                     *)
Fault_AnyOrder(w) == w > 0
ValidOrder(w) == w \in 1 .. MAX_SUBMATCH - 2

StartReading ==
  /\ pc = "options" /\ loaded = Len(input.regexes)
  /\ pc' = IF ValidOrder(input.w) THEN "file" ELSE "fatal"
  /\ UNCHANGED <<input, fileVars, line, optionVars, regexVars, stdVars>>

(* reset_current_token(). *)
Cleared == [h |-> <<DIAMOND>>, tstart |-> 1, o |-> 0, told |-> <<>>]

(* process_file() is called once per file, and what is held is forgotten.  *)
BeginFile ==
  /\ pc = "file" /\ file < Len(input.files)
  /\ file' = file + 1 /\ row' = 0
  /\ h' = Cleared.h /\ tstart' = Cleared.tstart /\ o' = Cleared.o
  /\ pc' = "line"
  /\ UNCHANGED <<input, line, p, state, told, optionVars, regexVars>>

EndOfFiles ==
  /\ pc = "file" /\ file = Len(input.files)
  /\ pc' = "end"
  /\ UNCHANGED <<input, fileVars, line, optionVars, regexVars, stdVars>>

Diamonds(b) == {n \in DOMAIN b : b[n] = DIAMOND}

(* One line of process_file(). An empty one is not tokenized. Each         *)
(* expression has a look at it before std_tokenizer() does, if it does.    *)
ReadLine ==
  /\ pc = "line" /\ row < Len(input.files[file])
  /\ row' = row + 1 /\ line' = input.files[file][row + 1]
  /\ i' = 1 /\ k' = 0 /\ p' = 1
  /\ tstart' = CHOOSE n \in Diamonds(h) : \A m \in Diamonds(h) : m <= n
  /\ pc' = IF line' = <<>> THEN "line" ELSE IF re # <<>> THEN "regex" ELSE "std"
  /\ UNCHANGED <<input, file, optionVars, found, state, h, o, told>>

Lowered(s) == IF input.casen THEN s ELSE [j \in DOMAIN s |-> tolower(s[j])]
Fold(s) == SubSeq(s, 1, IF Len(s) < MAX_TOKEN_LEN THEN Len(s) ELSE MAX_TOKEN_LEN)

(* A token is made of the tagged captures that come before the first group *)
(* without a match.                                                        *)
Tagged(m, submatches) ==
  LET matched == {z \in 1 .. MAX_SUBMATCH - 1 : 1 .. z \subseteq Groups(m)}
  IN Ascending(matched \cap submatches, MAX_SUBMATCH)
Enclosed(string, m) ==
  IF string.enclosed THEN <<[group |-> 1, so |-> m[1].so, eo |-> m[Len(m)].eo]>> ELSE m
Captured(string, s, j, submatches) ==
  LET m == Enclosed(string, MatchAt(string.pattern, s, j))
      zs == Tagged(m, submatches)
  IN [n \in DOMAIN zs |-> Lowered(Fold(Capture(m, s, zs[n])))]

NextMatch(string, s, from) == LET js == Starts(string.pattern, s, from) IN CHOOSE j \in js : \A b \in js : j <= b

RegexMatch ==
  /\ pc = "regex" /\ i \in DOMAIN re /\ Starts(re[i].string.pattern, line, k + 1) # {}
  /\ LET j == NextMatch(re[i].string, line, k + 1)
         words == Captured(re[i].string, line, j, re[i].submatches)
     IN found' = found \o Tell(<<[re |-> i, file |-> file, row |-> row, at |-> j, words |-> words]>>) /\ k' = j
  /\ UNCHANGED <<input, pc, fileVars, line, optionVars, i, stdVars>>

NextRegex ==
  /\ pc = "regex" /\ i \in DOMAIN re /\ Starts(re[i].string.pattern, line, k + 1) = {}
  /\ i' = i + 1 /\ k' = 0
  /\ pc' = IF i' \in DOMAIN re THEN pc ELSE IF input.stdtok THEN "std" ELSE "line"
  /\ UNCHANGED <<input, fileVars, line, optionVars, found, stdVars>>

(*--------------------------- std_tokenizer() -----------------------------*)
Words(b) ==
  LET d == Ascending(Diamonds(b), Len(b)) IN [n \in 1 .. Len(d) - 1 |-> SubSeq(b, d[n] + 1, d[n + 1] - 1)]
NgramsEnding(order, words) ==
  [n \in 1 .. order |-> [order |-> order - n + 1, words |-> SubSeq(words, n, Len(words))]]

(* A token ends: the n-grams that end with it are told, and the oldest     *)
(* token makes room if there are input.w. The next token is then measured  *)
(* from after the DIAMOND.                                                 *)
Moved(b) ==
  LET later == Diamonds(b) \ {1}
  IN SubSeq(b, CHOOSE n \in later : \A m \in later : n <= m, Len(b))
Fault_NeverMoved(held) ==
  LET full == Append(held, DIAMOND)
  IN [h |-> full, tstart |-> Len(full), o |-> o + 1, told |-> Tell(NgramsEnding(o + 1, Words(full)))]
EndToken(held) ==
  LET full == Append(held, DIAMOND)
      moves == o + 1 > input.w
      b == IF moves THEN Moved(full) ELSE full
      n == IF moves THEN o ELSE o + 1
  IN IF input.w = 1
     THEN [h |-> <<DIAMOND>>, tstart |-> 1, o |-> o, told |-> Tell(<<[order |-> 1, words |-> Words(full)]>>)]
     ELSE [h |-> b, tstart |-> IF moves THEN Len(b) + 1 ELSE Len(b), o |-> n, told |-> Tell(NgramsEnding(n, Words(b)))]
Fits(room) == Len(h) + 1 < tstart + room
Resets(c) == ~input.straddle /\ c \in {0, Newline}

TokenizeChar ==
  /\ pc = "std"
  /\ LET s == IF p \in DOMAIN line THEN [line EXCEPT ![p] = Lowered(<<@>>)[1]] ELSE line
         c == At(s, p)
         g == good_char(s, p, state, input.cp)
         held == IF g.good \in {"TOKEN", "TOKEN_END"} /\ Fits(MAX_TOKEN_LEN + 1) THEN Append(h, c) ELSE h
         goes_on == g.good = "IGNORE" \/ (g.good = "TOKEN" /\ Fits(MAX_TOKEN_LEN))
         next == IF goes_on \/ (Last(held) = DIAMOND /\ ~Resets(c))
                 THEN [h |-> IF g.good = "IGNORE" THEN h ELSE held, tstart |-> tstart, o |-> o, told |-> <<>>]
                 ELSE EndToken(held)
     IN /\ line' = s /\ state' = g.state
        /\ told' = told \o next.told
        /\ LET b == IF Resets(c) /\ ~goes_on THEN Cleared ELSE next
           IN h' = b.h /\ tstart' = b.tstart /\ o' = b.o
        /\ p' = p + 1
        /\ pc' = IF c = 0 THEN "reset" ELSE pc
  /\ UNCHANGED <<input, fileVars, optionVars, regexVars>>

(* reset_current_token() after every line.                                 *)
ResetAfterLine ==
  /\ pc = "reset"
  /\ pc' = "line"
  /\ IF input.straddle THEN UNCHANGED <<h, tstart, o>> ELSE h' = Cleared.h /\ tstart' = Cleared.tstart /\ o' = Cleared.o
  /\ UNCHANGED <<input, fileVars, line, p, state, told, optionVars, regexVars>>

(* At the end of a file std_tokenizer() is called without a line.          *)
Flush ==
  /\ pc = "line" /\ row = Len(input.files[file])
  /\ pc' = "file"
  /\ IF ~input.stdtok THEN UNCHANGED <<h, tstart, told>>
     ELSE IF input.w = 1 THEN h' = <<DIAMOND>> /\ tstart' = 1 /\ told' = told \o EndToken(h).told
     ELSE h' = Append(h, DIAMOND) /\ tstart' = Len(h') /\ UNCHANGED told
  /\ UNCHANGED <<input, fileVars, line, p, state, o, optionVars, regexVars>>

Init ==
  /\ input \in Inputs
  /\ pc = "options" /\ loaded = 0 /\ re = <<>> /\ spare = {}
  /\ file = 0 /\ row = 0 /\ i = 1 /\ k = 0 /\ line = <<>> /\ p = 1 /\ state = "fDEF"
  /\ h = Cleared.h /\ tstart = Cleared.tstart /\ o = Cleared.o
  /\ told = <<>> /\ found = <<>>

Done == pc \in {"end", "fatal"} /\ UNCHANGED vars
Next ==
  \/ LoadRegex \/ StartReading \/ BeginFile \/ ReadLine \/ RegexMatch \/ NextRegex
  \/ TokenizeChar \/ ResetAfterLine \/ Flush \/ EndOfFiles \/ Done
Spec == Init /\ [][Next]_vars

(*------------------------------- properties ------------------------------*)
Letter7(c) == isalpha(c)
Blank7(c) == c \in {32, Newline}
RunsOf(s) ==
  LET from == {n \in DOMAIN s : Letter7(s[n]) /\ (input.cp = "CHAR" \/ n = 1 \/ ~Letter7(At(s, n - 1)))}
      to(n) == CHOOSE e \in n .. Len(s) :
                 /\ \A b \in n .. e : Letter7(s[b])
                 /\ input.cp = "CHAR" => e = n
                 /\ input.cp # "CHAR" => ~Letter7(At(s, e + 1))
      order == Ascending(from, Len(s))
  IN [n \in DOMAIN order |-> Lowered(SubSeq(s, order[n], to(order[n])))]
Lines == FlattenSeq(input.files)
RunsOfLines(lines) == [n \in DOMAIN lines |-> RunsOf(lines[n])]
Paragraphs ==
  IF input.straddle THEN [f \in DOMAIN input.files |-> FlattenSeq(RunsOfLines(input.files[f]))]
                    ELSE RunsOfLines(Lines)
Plain ==
  /\ input.stdtok
  /\ \A n \in DOMAIN Lines : \A j \in DOMAIN Lines[n] : Letter7(Lines[n][j]) \/ Blank7(Lines[n][j])
  /\ \A n \in DOMAIN Paragraphs : \A j \in DOMAIN Paragraphs[n] : Len(Paragraphs[n][j]) < MAX_TOKEN_LEN
Ngrams ==
  UNION {UNION {{<<b, n, j>> : j \in 1 .. Len(Paragraphs[b]) - n + 1} : n \in 1 .. input.w} : b \in DOMAIN Paragraphs}
Ngram(g) == [order |-> g[2], words |-> SubSeq(Paragraphs[g[1]], g[3], g[3] + g[2] - 1)]
FullTold == SelectSeq(told, LAMBDA t : \A n \in DOMAIN t.words : t.words[n] # <<>>)

(* Of lines of short words every n words in a row, up to the order asked   *)
(* for, are told once, whatever character class is chosen and whether      *)
(* expressions are looked for as well: n-grams end at the end of the line, *)
(* or with -S at that of the file (std_tokenizer() and                     *)
(* reset_current_token(), which share the buffer).                         *)
NgramsTold ==
  (pc = "end" /\ Plain) =>
    \A t \in {Ngram(g) : g \in Ngrams} \cup ToSet(FullTold) :
      Cardinality({n \in DOMAIN FullTold : FullTold[n] = t}) = Cardinality({g \in Ngrams : Ngram(g) = t})

Squeezed(s) ==
  LET kept == Ascending({n \in DOMAIN s : n = 1 \/ s[n] # At(s, n - 1)}, Len(s)) IN [n \in DOMAIN kept |-> s[kept[n]]]
Visible(s) == SelectSeq(s, LAMBDA c : isgraph(c) \/ c >= \h80)
FullLine(s) == Newline \in ToSet(s) /\ \A n \in DOMAIN s : s[n] \in \h80 .. \h9F => At(s, n - 1) >= \h80
Singles == SelectSeq(told, LAMBDA t : t.order = 1)

(* With the classes of -e adp no letter, digit, mark or multibyte          *)
(* character of a full line is lost between the tokens, however they are   *)
(* cut; only runs of one character may be told shorter (the lookahead of   *)
(* is_adp_char() decides where a token ends before it does).               *)
LettersConserved ==
  (pc = "end" /\ input.stdtok /\ input.cp = "ADP" /\ \A n \in DOMAIN Lines : FullLine(Lines[n])) =>
    Squeezed(FlattenSeq([n \in DOMAIN Singles |-> FlattenSeq(Singles[n].words)]))
      = Squeezed(Lowered(Visible(FlattenSeq(Lines))))

(* The holding buffer always has room for a character more and for what    *)
(* closes a token (DIAMOND, CLASSEP, class and NUL), whatever the order    *)
(* and the length of the words: std_tokenizer() only limits each token.    *)
BufferHolds == Len(h) + 5 <= (MAX_TOKEN_LEN + 1) * MAX_SUBMATCH + EXTRA_TOKEN_LEN

Asked(g, m) == Ascending(IF g.suffix = {} THEN Groups(m) ELSE g.suffix, MAX_SUBMATCH)
Expected(g) ==
  UNION {UNION {LET s == input.files[f][n]
                IN {LET m == Enclosed(Stored(g), MatchAt(g.pattern, s, j))
                        zs == Asked(g, m)
                    IN [file |-> f, row |-> n, at |-> j,
                        words |-> [z \in DOMAIN zs |-> Lowered(Fold(Capture(m, s, zs[z])))]] :
                      j \in Starts(g.pattern, s, 1)} : n \in DOMAIN input.files[f]} : f \in DOMAIN input.files}
FoundOf(g) ==
  {[file |-> found[n].file, row |-> found[n].row, at |-> found[n].at, words |-> found[n].words] :
     n \in {n \in DOMAIN found : re[found[n].re].string.pattern = g.pattern}}

(* Every match of an expression, also one that overlaps another, is told   *)
(* with exactly the captures its suffix names, or with all of them         *)
(* (dbacl.1in:479).                                                        *)
CapturesAsAsked ==
  pc = "end" => \A n \in DOMAIN input.regexes : FoundOf(input.regexes[n]) = Expected(input.regexes[n])

(* That is so when no expression is given twice, and no match is then told *)
(* twice (load_regex(), regex_tokenizer()).                                *)
CapturesTold ==
  (\A a, b \in DOMAIN input.regexes : input.regexes[a].pattern = input.regexes[b].pattern => a = b) =>
    CapturesAsAsked /\ (pc = "end" => IsInjective(found))

==============================================================================
