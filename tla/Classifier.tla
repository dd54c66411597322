----------------------------- MODULE Classifier -----------------------------
(***************************************************************************)
(* dbacl -c: the files named on the command line, or in a directory that   *)
(* is named there, are read line by line, each token of a line is scored   *)
(* for every category, and a verdict is printed for the whole input, for   *)
(* each file (-F) or for each line (-f). Signals interrupt the reading,    *)
(* and one of them has the categories loaded anew (dbacl.c, fh.c,          *)
(* catfun.c, util.c).                                                      *)
(*                                                                         *)
(* A line is what the filters and tokenizers make of it: the sequence of   *)
(* its tokens. A score is the sequence of the tokens that it is the sum    *)
(* of; score_s2, score_div, score_shannon, complexity and fcomplexity are  *)
(* set and added to with it. Like fmiss, mediacounts and prior are not.    *)
(***************************************************************************)
EXTENDS EmpiricalMeasure, SequencesExt

CONSTANTS
  Inputs,    \* runs: the options and the arguments of the command line
  Token,     \* for each token its id, order and regular expression
  Versions,  \* for each category the files that may be found under its name
  MAX_SIGNALS  \* bound: signals sent to a run; only runs that are "disturbed" get any

Cats == DOMAIN Versions
Terminating == {"HUP", "QUIT", "TERM"}
Exiting == {"INT", "PIPE"}
Signals == Terminating \cup Exiting \cup {"USR1"}

VARIABLES
  run,        \* the options and arguments
  pc,         \* "next", "entry", "fill", "score", "close", "done", "exited", "crashed"
  argi,       \* number of arguments that have been opened
  entries,    \* files of the directory that are still to be opened
  in_dir,     \* whether process_directory() is running
  inputfile,  \* the name that a verdict is printed with
  input,      \* the open file
  numbered,   \* number of lines read, of all files
  at,         \* the line that is being scored: its number, NotInput or ExtraLine
  tokens,     \* its tokens that are still to be scored
  cat,        \* for each category its score, and how many tokens it did not recognise
  loaded,     \* for each category the version in memory
  disk,       \* and the one in its file
  emp,        \* the empirical measure
  cmd,        \* QUITNOW, RELOAD_CATS
  sa_signal,  \* the signal that is pending, or NoSignal
  raised,     \* number of signals sent so far
  verdicts,   \* what was printed
  echoed      \* the lines that -a has printed back

where == <<argi, entries, in_dir, inputfile>>
line == <<numbered, at, tokens>>
models == <<loaded, disk>>
signals == <<sa_signal, raised>>
vars == <<run, pc, where, input, line, cat, emp, models, cmd, signals, verdicts, echoed>>

NoSignal == "none"
NotInput == 0        \* the empty line read at the end of a file
ExtraLine == -1      \* a line made up by fill_textbuf()
NullLine == -2       \* what printf() makes of a NULL pointer
Dangling == "dangling"

Version(c) == Versions[c][loaded[c]]

(* The arguments are files, directories, or names of neither.              *)
FileLine == [indented : BOOLEAN, tokens : Seq(DOMAIN Token), nl : BOOLEAN]
Args == UNION {Range(r.args) : r \in Inputs}
Files == (UNION {Range(a.files) : a \in Args}) \cup {r.stdin : r \in Inputs}

ASSUME ClassifierAssumption ==
  /\ \A t \in DOMAIN Token : Token[t].id \in Nat
  /\ \A r \in Inputs : r.args \in Seq(Args)
  /\ \A a \in Args : a.files \in Seq(Files) /\ (a.kind = "file" => Len(a.files) = 1)
  /\ \A f \in Files : /\ f.lines \in Seq(FileLine)
                      /\ \A j \in 1 .. Len(f.lines) - 1 : f.lines[j].nl
  /\ \A c \in Cats : Versions[c] # <<>>

------------------------------------------------------------------------------
(* Scores.                                                                 *)

init_category == [score |-> <<>>, fmiss |-> 0]
Fault_ScoresKept(k) == k  \* for the mutant

reset_all_scores(k) == [c \in Cats |-> [k[c] EXCEPT !.score = <<>>]]

(* Whether a category scores a token: its own expressions, or those of the *)
(* standard tokenizer if it has none.                                      *)
Applies(v, t) ==
  IF Token[t].re = 0 THEN Token[t].order <= v.max_order /\ v.retype = {}
  ELSE Token[t].re \in v.retype

find_in_category(v, t) == t \in DOMAIN v.lambda

(* For the mutant: tokens of other categories are missed as well.          *)
Fault_MissedByAll(t) ==
  /\ emp' = IF run.entropy THEN Counted(emp, Token[t].id) ELSE emp
  /\ cat' = [c \in Cats |->
       [score |-> IF Applies(Version(c), t) THEN Append(cat[c].score, t) ELSE cat[c].score,
        fmiss |-> cat[c].fmiss + IF find_in_category(Version(c), t) THEN 0 ELSE 1]]

score_word(t) ==
  IF run.entropy /\ Refused(emp, Token[t].id) THEN UNCHANGED <<cat, emp>>
  ELSE /\ emp' = IF run.entropy THEN Counted(emp, Token[t].id) ELSE emp
       /\ cat' = [c \in Cats |->
            IF ~Applies(Version(c), t) THEN cat[c]
            ELSE [score |-> Append(cat[c].score, t),
                  fmiss |-> cat[c].fmiss + IF find_in_category(Version(c), t) THEN 0 ELSE 1]]

(* The sum, and the first of the categories for which it is largest.       *)
Sum(c) ==
  FoldLeft(LAMBDA s, t : s + IF find_in_category(Version(c), t) THEN Version(c).lambda[t] ELSE 0,
           0, cat[c].score)
MAP == CHOOSE c \in Cats : \A d \in Cats : Sum(d) < Sum(c) \/ (Sum(d) = Sum(c) /\ c <= d)

Verdict(name) == [name |-> name, map |-> MAP, cat |-> cat, loaded |-> loaded, cmd |-> cmd]

score_categories(name) == verdicts' = Append(verdicts, Verdict(name))

Fault_NotCleared == emp  \* for the mutant

Cleared == IF run.entropy THEN clear_empirical(emp, run.mode = "filter") ELSE emp

line_score_categories(n) ==
  /\ verdicts' = IF n > 0 /\ \E c \in run.filter : Sum(MAP) <= Sum(c)
                 THEN Append(verdicts, Verdict(n)) ELSE verdicts
  /\ emp' = Cleared

file_score_categories(name) ==
  /\ score_categories(name)
  /\ cat' = reset_all_scores(cat)
  /\ emp' = Cleared

------------------------------------------------------------------------------
(* Files and lines.                                                        *)

NoFile == [left |-> <<>>, closed |-> FALSE, eof |-> FALSE, extra_lines |-> 0]

NoName == "none"

(* process_file() up to its loop.                                          *)
StartFile(file) ==
  /\ inputfile' = file.name
  /\ input' = [NoFile EXCEPT !.left = file.lines,
                             !.extra_lines = IF run.mode = "filter" THEN 0 ELSE 2]
  /\ pc' = "fill"

Untouched == <<run, line, cat, emp, models, cmd, signals, verdicts, echoed>>
NextArg == run.args[argi + 1]
HasArg == pc = "next" /\ argi < Len(run.args) /\ "QUITNOW" \notin cmd

OpenFile ==
  /\ HasArg /\ NextArg.kind = "file" /\ argi' = argi + 1
  /\ StartFile(NextArg.files[1])
  /\ UNCHANGED <<entries, in_dir, Untouched>>

OpenDirectory ==
  /\ HasArg /\ NextArg.kind = "directory" /\ argi' = argi + 1
  /\ pc' = "entry" /\ in_dir' = TRUE /\ entries' = NextArg.files
  /\ inputfile' = NextArg.name
  /\ UNCHANGED <<input, Untouched>>

OpenFails ==
  /\ HasArg /\ NextArg.kind = "missing" /\ argi' = argi + 1
  /\ pc' = "exited"
  /\ UNCHANGED <<entries, in_dir, inputfile, input, Untouched>>

OpenStdin ==
  /\ pc = "next" /\ run.args = <<>> /\ argi = 0 /\ argi' = 1
  /\ StartFile(run.stdin)
  /\ UNCHANGED <<entries, in_dir, Untouched>>

(* process_directory(): it does not look at cmd between two files.         *)
NextEntry ==
  /\ pc = "entry" /\ entries # <<>> /\ entries' = Tail(entries)
  /\ StartFile(Head(entries))
  /\ UNCHANGED <<argi, in_dir, Untouched>>

(* Once a file has been read inputfile points to a buffer that is no more. *)
LeaveDirectory ==
  /\ pc = "entry" /\ entries = <<>>
  /\ pc' = "close" /\ in_dir' = FALSE
  /\ inputfile' = IF inputfile = run.args[argi].name THEN inputfile ELSE Dangling
  /\ input' = NoFile
  /\ UNCHANGED <<argi, entries, Untouched>>

(* The line is handed to pre_line_fun, the filters and the tokenizers.     *)
handle_indents_and_appends(n, l) ==
  LET kept == ~run.indented \/ l.indented
  IN /\ echoed' = IF ~run.append THEN echoed
                  ELSE IF kept THEN Append(echoed, [line |-> n, space |-> TRUE])
                  ELSE echoed \o <<[line |-> n, space |-> FALSE], [line |-> NullLine, space |-> TRUE]>>
     /\ pc' = IF kept THEN "score" ELSE "fill"
     /\ at' = n
     /\ tokens' = IF kept THEN l.tokens ELSE <<>>

Blank == [indented |-> FALSE, tokens |-> <<>>, nl |-> TRUE]
Fault_StillReading == pc = "fill" /\ ~input.eof  \* for the mutant

Reading == pc = "fill" /\ "QUITNOW" \notin cmd /\ ~input.eof
Rest == <<run, where, cat, emp, models, raised, verdicts>>

(* fill_textbuf(): first a signal is dealt with.                           *)
ExitOnSignal ==
  /\ Reading /\ sa_signal \in Exiting
  /\ pc' = "exited" /\ sa_signal' = NoSignal
  /\ UNCHANGED <<Rest, input, line, cmd, echoed>>

ReadLine ==
  /\ Reading /\ sa_signal \in {NoSignal, "USR1"} /\ sa_signal' = NoSignal
  /\ cmd' = IF sa_signal = "USR1" THEN cmd \cup {"RELOAD_CATS"} ELSE cmd
  /\ IF input.left = <<>>
     THEN /\ input' = [input EXCEPT !.eof = TRUE]
          /\ handle_indents_and_appends(NotInput, Blank)
          /\ UNCHANGED numbered
     ELSE LET l == Head(input.left)
          IN /\ input' = [input EXCEPT !.left = Tail(@), !.eof = ~l.nl]
             /\ handle_indents_and_appends(numbered + 1, l)
             /\ numbered' = numbered + 1
  /\ UNCHANGED Rest

(* The file is closed and then read from: that either fails, or is fatal.  *)
ReadClosed ==
  /\ Reading /\ sa_signal \in Terminating /\ sa_signal' = NoSignal
  /\ input' = [input EXCEPT !.closed = TRUE]
  /\ cmd' = cmd \cup {"QUITNOW"}
  /\ \/ handle_indents_and_appends(NotInput, Blank)
     \/ pc' = "crashed" /\ UNCHANGED <<at, tokens, echoed>>
  /\ UNCHANGED <<Rest, numbered>>

Fault_LinesForEver ==
  /\ pc = "fill" /\ ~Reading /\ input.extra_lines > 0
  /\ handle_indents_and_appends(ExtraLine, Blank)
  /\ UNCHANGED <<Rest, numbered, cmd, sa_signal, input>>

ReadExtraLine ==
  /\ pc = "fill" /\ ~Reading /\ input.extra_lines > 0
  /\ input' = [input EXCEPT !.extra_lines = @ - 1]
  /\ handle_indents_and_appends(ExtraLine, Blank)
  /\ UNCHANGED <<Rest, numbered, cmd, sa_signal>>

EndOfFile ==
  /\ pc = "fill" /\ ~Reading /\ input.extra_lines = 0
  /\ pc' = "close"
  /\ UNCHANGED <<Rest, input, line, cmd, sa_signal, echoed>>

ScoreWord ==
  /\ pc = "score" /\ tokens # <<>> /\ tokens' = Tail(tokens)
  /\ score_word(Head(tokens))
  /\ UNCHANGED <<run, pc, where, input, numbered, at, models, cmd, signals, verdicts, echoed>>

(* post_line_fun, after which the categories are loaded anew if that was   *)
(* asked for: their scores are forgotten, the empirical counts are not. A  *)
(* category that cannot be loaded ends the run.                            *)
ScoresAfterLine == IF run.mode = "filter" THEN reset_all_scores(cat) ELSE cat
Reloadable == \A c \in Cats : Versions[c][disk[c]].whole

EndLine ==
  /\ pc = "score" /\ tokens = <<>>
  /\ IF run.mode = "filter" THEN line_score_categories(at) ELSE UNCHANGED <<emp, verdicts>>
  /\ IF "RELOAD_CATS" \notin cmd
     THEN /\ cat' = ScoresAfterLine
          /\ pc' = "fill"
          /\ UNCHANGED <<loaded, cmd>>
     ELSE IF Reloadable
     THEN /\ cat' = [c \in Cats |-> init_category]
          /\ loaded' = disk /\ cmd' = cmd \ {"RELOAD_CATS"}
          /\ pc' = "fill"
     ELSE pc' = "exited" /\ cat' = ScoresAfterLine /\ UNCHANGED <<loaded, cmd>>
  /\ UNCHANGED <<run, where, input, line, disk, signals, echoed>>

(* For the mutant: no verdict for the files of a directory.                *)
Fault_DirectoryAtOnce ==
  /\ pc = "close" /\ ~input.closed
  /\ pc' = IF in_dir THEN "entry" ELSE "next"
  /\ IF run.mode = "multifile" /\ ~in_dir THEN file_score_categories(inputfile)
     ELSE UNCHANGED <<cat, emp, verdicts>>
  /\ input' = NoFile
  /\ UNCHANGED <<run, where, line, models, cmd, signals, echoed>>

(* A file that a signal has closed is closed again, which may be fatal.    *)
CloseFile ==
  /\ pc = "close"
  /\ \/ /\ pc' = IF in_dir THEN "entry" ELSE "next"
        /\ IF run.mode = "multifile" THEN file_score_categories(inputfile)
           ELSE UNCHANGED <<cat, emp, verdicts>>
     \/ input.closed /\ pc' = "crashed" /\ UNCHANGED <<cat, emp, verdicts>>
  /\ input' = NoFile
  /\ UNCHANGED <<run, where, line, models, cmd, signals, echoed>>

Finish ==
  /\ pc = "next" /\ ~HasArg /\ argi > 0
  /\ pc' = "done"
  /\ IF run.mode = "plain" THEN score_categories(NoName) ELSE UNCHANGED verdicts
  /\ UNCHANGED <<run, where, input, line, cat, emp, models, cmd, signals, echoed>>

------------------------------------------------------------------------------
(* What others do meanwhile.                                               *)

Stopped == pc \in {"done", "exited", "crashed"}

Raise(sig) ==
  /\ ~Stopped /\ run.disturbed /\ raised < MAX_SIGNALS
  /\ sa_signal' = sig /\ raised' = raised + 1
  /\ UNCHANGED <<run, pc, where, input, line, cat, emp, models, cmd, verdicts, echoed>>

(* Another run of dbacl saves the category.                                *)
Relearn(c) ==
  /\ ~Stopped /\ run.disturbed /\ disk[c] < Len(Versions[c])
  /\ disk' = [disk EXCEPT ![c] = @ + 1]
  /\ UNCHANGED <<run, pc, where, input, line, cat, emp, loaded, cmd, signals, verdicts, echoed>>

Init ==
  /\ run \in Inputs
  /\ pc = "next" /\ argi = 0 /\ entries = <<>> /\ in_dir = FALSE
  /\ inputfile = NoName /\ input = NoFile
  /\ numbered = 0 /\ at = NotInput /\ tokens = <<>>
  /\ cat = [c \in Cats |-> init_category]
  /\ loaded = [c \in Cats |-> 1] /\ disk = loaded
  /\ emp = init_empirical
  /\ cmd = {} /\ sa_signal = NoSignal /\ raised = 0
  /\ verdicts = <<>> /\ echoed = <<>>

Program ==
  \/ OpenFile \/ OpenDirectory \/ OpenFails \/ OpenStdin
  \/ NextEntry \/ LeaveDirectory
  \/ ExitOnSignal \/ ReadLine \/ ReadClosed \/ ReadExtraLine \/ EndOfFile
  \/ ScoreWord \/ EndLine \/ CloseFile \/ Finish

Next ==
  \/ Program
  \/ \E sig \in Signals : Raise(sig)
  \/ \E c \in Cats : Relearn(c)

Spec == Init /\ [][Next]_vars /\ WF_vars(Program)

------------------------------------------------------------------------------
(* What the documents hold, read off the input alone.                      *)

Kept(l) == IF run.indented /\ ~l.indented THEN <<>> ELSE l.tokens
TextOf(lines) == FlattenSeq([i \in 1 .. Len(lines) |-> Kept(lines[i])])
LinesOf(files) == FlattenSeq([i \in 1 .. Len(files) |-> files[i].lines])
AllFiles == IF run.args = <<>> THEN <<run.stdin>>
            ELSE FlattenSeq([i \in 1 .. Len(run.args) |-> run.args[i].files])
FileNames ==
  IF run.args = <<>> THEN {run.stdin.name}
  ELSE UNION {{f.name : f \in Range(run.args[i].files)} : i \in 1 .. Len(run.args)}

(* The texts that a verdict with this name may be about: all that is read, *)
(* a line, or a file of that name; a directory has no text of its own.     *)
Documents(name) ==
  IF run.mode = "plain" THEN {TextOf(LinesOf(AllFiles))}
  ELSE IF run.mode = "filter" THEN {LinesOf(AllFiles)[name].tokens}
  ELSE LET named == {f \in Range(AllFiles) : f.name = name}
       IN IF named = {} THEN {<<>>} ELSE {TextOf(f.lines) : f \in named}

(* The members of a sequence at some of its positions.                     *)
Picked(s, S) ==
  LET picked[n \in 0 .. Len(s)] ==
        IF n = 0 THEN <<>>
        ELSE IF n \in S THEN Append(picked[n - 1], s[n]) ELSE picked[n - 1]
  IN picked[Len(s)]

(* The tokens of a text that are among the first ids there is room for.    *)
Room == Cardinality({n \in Slots : 100 * n < HASH_FULL * max_tokens})
Ids(text) == {Token[text[i]].id : i \in 1 .. Len(text)}
First(text, i) ==
  CHOOSE j \in 1 .. i : /\ Token[text[j]].id = Token[text[i]].id
                       /\ \A k \in 1 .. j - 1 : Token[text[k]].id # Token[text[i]].id
HasPlace(text, i) ==
  \/ ~run.entropy \/ Room = max_tokens
  \/ Cardinality(Ids(SubSeq(text, 1, First(text, i)))) <= Room
Admitted(text) == Picked(text, {i \in 1 .. Len(text) : HasPlace(text, i)})

Chosen(s, v) == Picked(s, {i \in 1 .. Len(s) : Applies(v, s[i])})
Scored(text, v) == Chosen(Admitted(text), v)
Occurrences(s, t) == Cardinality({i \in 1 .. Len(s) : s[i] = t})
Unrecognised(s, v) == Cardinality({i \in 1 .. Len(s) : ~find_in_category(v, s[i])})

------------------------------------------------------------------------------
(* Properties.                                                             *)

(* What each verdict is the verdict on: every score is the sum over the    *)
(* tokens that the named document holds for that category, in order and    *)
(* each once, and over no token of a document before it (dbacl.c:185,      *)
(* 559). When signals have come in between it is a part of them without    *)
(* gaps.                                                                   *)
ScoresDocument(v) ==
  \E text \in Documents(v.name) : \A c \in Cats :
    LET s == v.cat[c].score
        d == Scored(text, Versions[c][v.loaded[c]])
    IN \/ s = d
       \/ raised > 0 /\ \E a \in 1 .. Len(d) + 1 : s = SubSeq(d, a, a + Len(s) - 1)

ScoresItsDocument == \A i \in 1 .. Len(verdicts) : ScoresDocument(verdicts[i])

(* The empirical measure in itself (catfun.c:373): every token counted can *)
(* be found, the count of them is right, and while the slots are tracked   *)
(* clearing those on the stack clears the table.                           *)
EmpiricalSound ==
  /\ \A s \in Filled(emp) : find_in_empirical(emp, emp.hash[s].id) = s /\ emp.hash[s].count > 0
  /\ emp.unique = IF Cardinality(Filled(emp)) < K_TOKEN_COUNT_MAX
                  THEN Cardinality(Filled(emp)) ELSE K_TOKEN_COUNT_MAX
  /\ emp.track => /\ Range(emp.stack) = Filled(emp)
                  /\ Len(emp.stack) = Cardinality(Filled(emp))

(* The correction log(complexity) - log(count) that score_word() makes     *)
(* assumes that a token was counted as often as it was scored              *)
(* (catfun.c:806); after a reload it may have been counted more often.     *)
CountedAsScored ==
  run.entropy =>
    \A c \in Cats, t \in DOMAIN Token :
      LET n == Occurrences(cat[c].score, t)
          s == find_in_empirical(emp, Token[t].id)
          count == IF s = NoSlot THEN 0 ELSE emp.hash[s].count
      IN /\ count < K_TOKEN_COUNT_MAX => n <= count
         /\ raised = 0 /\ Applies(Version(c), t) => count = IF n < K_TOKEN_COUNT_MAX THEN n ELSE K_TOKEN_COUNT_MAX

(* The share of tokens that were recognised, which -vX and -vV print, is   *)
(* that of the tokens in the score (dbacl.c:509), where one verdict is     *)
(* printed for all the input; a reload starts both anew.                   *)
MissesAreScored ==
  run.mode = "plain" =>
    \A c \in Cats : cat[c].fmiss = Unrecognised(cat[c].score, Version(c))

(* Once termination was asked for no more input is scored, whatever files  *)
(* are still opened (util.c:255, fh.c:529).                                *)
NoFurtherInput ==
  [][("QUITNOW" \in cmd) => /\ numbered' = numbered
                            /\ \A c \in Cats : Len(cat'[c].score) <= Len(cat[c].score)]_vars

(* A run with -F that no signal disturbs judges each file once and in the  *)
(* order given, whatever else it prints (dbacl.c:4738, fh.c:541).          *)
OfFiles == {i \in 1 .. Len(verdicts) : verdicts[i].name \in FileNames}

EachFileJudged ==
  pc = "done" /\ raised = 0 /\ run.mode = "multifile" =>
    /\ Cardinality(OfFiles) = Len(AllFiles)
    /\ \A i \in OfFiles :
         verdicts[i].name = AllFiles[Cardinality({j \in OfFiles : j <= i})].name

(* However signals and saved categories come in between, the run ends.     *)
EveryRunEnds == <>Stopped

=============================================================================
