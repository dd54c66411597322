# dbacl in TLA+

dbacl is a digramic Bayesian text classifier.  `dbacl -l` learns a category
from a corpus, `dbacl -c` scores a document against categories, and a few
companions (`mailinspect`, `bayesol`, `hypex`, `hmine`, `icheck`) use its
library code.  It is sequential C without threads; what is hard about it is

* data structures that are rearranged in place (the hash table, the token file),
* many processes that share one category file and its directory without a lock,
* signals, crashes, a full disk or a failing `malloc` half way through,
* long-lived state: a memory dump of a learner that later runs continue from,
* line and character filters whose state must survive any input,
* recognisers that try alternatives in an order and do not come back.

This directory holds TLA+ modules that model those parts, TLC configurations
that check them on small instances, and proofs for TLAPS.

Run a configuration with `tlc -config LearnerHash_grow.cfg MCLearnerHash.tla`
(PROJECT.json names the module of every configuration), and the proofs of a module
with `tlapm LearnerHash_proofs.tla`; the modules with proofs end in `_proofs`.

## 1. Inventory

Paths are below `src/src/` of the repository.

| Component | State | Operations | What is hard about it | What makes it correct |
|---|---|---|---|---|
| Learner hash table (`dbacl.c`: `find_in_learner`, `hash_word_and_learn`, `grow_learner_hash`) | slots with id, count, order and mark; four counters; the growth option | find, count, insert, drop, grow in place | rehash by swapping marked entries; the percentage test; saturating counters; `malloc` failure | nothing lost, doubled or unreachable; growth ends; counters agree with the table |
| Category file (`save_learner`, `fast_partial_save_learner`, `mytmpfile`, `myrename` in `dbacl.c`; `explicit_load_category` in `catfun.c`; `cleanup_tempfiles` in `util.c`) | the directory: the category's name, 100 temporary names, file contents | create, write, rename, unlink; overwrite through a map; load | processes interleave with no lock; crash, SIGINT, full disk | the category is always one run's complete work; nobody loses a temporary file; every run ends |
| Token file (`tmp_*` in `dbacl.c`) | a file of tokens, memory mapped or stdio; offsets | write token, grow, seek, read block | remapping while writing; fallback to stdio in the middle | the tokens read back are those written, in order |
| Online memory dump and merging (`read_online_...`, `write_online_...`, `merge_*` in `dbacl.c`) | the dumped learner, its token tail, the other dumps | dump, map in place, reload, merge tables and tokens | the token list is the tail of a file others read; parts of one dump change at different times; dumped addresses; merging into a full table | a run after a reload or merge continues as if it had learned everything itself |
| Shannon statistics (`dbacl.c`) | document stack, reservoir, marks | push, fold a document into a total, reset | the stack overflows | every token of a document counted once |
| Scoring (`score_word` in `catfun.c`, `score_categories` in `dbacl.c`) | per category score, complexity, misses | score a token, print a verdict, reset | three modes that reset at different places; a reload in between | a verdict is on its own document, all of it |
| Empirical measure (`catfun.c`) | small hash, feature stack | find, count, clear | the stack that shortens clearing overflows; the table is full | after a clear nothing remains; a token is counted as often as it is scored |
| Regular expression table (`load_regex`) | up to `MAX_RE` expressions with submatch bits | load | duplicates, the limit, bits | an expression tells the captures asked for |
| Options (`dbacl.c`, `catfun.c`) | two option words | set, sanitize | contradictory options | a normal form |
| Signals and input (`util.c`, `fh.c`, `main` in `dbacl.c`) | one pending signal, a command, the input stream, the text buffer, the directory | open, read a line, handle a signal, reload, close | a signal that replaces another; TERM closes the stream in use | nothing is read after a request to end; each file is judged once; every run ends |
| Mail filter (`mbox_line_filter` in `mbw.c`, resets in `fh.c`) | state and substate, types and encodings of header and body, skipping, the lines left to check, a ring of boundaries | one line at a time; reset between files | a line means different things in a header, a body, an armoured or a skipped part; the state survives any input | each line is seen as what it is; a part begins clean; messages are counted once |
| Decoding caches (`mbw.c`) | decoded text that waits for a place to break it | decode a line; flush partly or wholly onto the line in hand | text comes out on a line that is read later, in another part or another file | nothing lost, repeated, hidden, or filtered as another part |
| HTML filter (`mbw.c`: `xml_character_filter`, `xml_attribute_filter`, the decoders of entities) | parser, state, attribute, what is hidden | one character at a time, rewriting the line in place; reset between parts and files | a line may end anywhere; anything may be left open; output must not overtake input | a reader's text comes out, and of tags what the options ask for |
| Tokenizers (`mbw.c`: `good_char` and its classes, `std_tokenizer`, `regex_tokenizer`) | the holding buffer with the n-gram window, the character state | push a character, end a token, shift, flush | both outlive the line; no test of the buffer's end | each n-gram told once; no character lost |
| mailinspect, bayesol, hypex | the message list; the risk tables; the pair table | | limits and growth | |
| Numerics: digrams, divergence minimisation, `gamma.c`, `igam.c` ... | reals | | floating point | out of reach of TLC: not modelled |
| hmine (`hmine.c`, `hparse.c`, `rfc822.c`, `rfc2822.c`) | the header being collected, the stack of headers, the text buffer | collect, fold, recognise by four standards, print mailboxes | some eighty recognisers with options that widen them; pointers into buffers that grow; unfolding in place | what is accepted is what the standard says; a header is kept whole and printed in full |
| Scripts (`mailcross`, `mailtoe`, `mailfoot`, TREC) | shell | | | not modelled |

How they meet: the tokenizer calls `hash_word_and_learn` for every n-gram; a
new token is appended to the token file and, at the end of learning, the token
file (not the table) is walked to optimise the weights, then closed and the
category is saved.  `-o` dumps the table and the token file, `-O` merges such
dumps.  Classifiers only read category files, which learners replace at any
time.  Signals set a flag that is looked at between lines of input and between
rounds of the minimisation.

In a classifier, `main` opens each argument (or the files of a directory) in
turn; `process_file` reads a line, has the mail filter and the HTML filter
rewrite it in place, and gives it to the tokenizers, whose tokens are scored for
every category at once.

The hazards of this code, each at its line and with the properties aimed at it,
are listed in PROJECT.json.

## 2. Plan

| Step | Modules | Says |
|---|---|---|
| 1 (done) | `TokenBag` <- `LearnerHash`, proofs `LearnerHash_proofs` | the table and its in-place growth |
| 2 (done) | `AtomicCategory` <- `CategoryStore`, proofs `CategoryStore_proofs` | the category file between processes |
| 3 (done) | `OnlineCorpus` <- `OnlineDump`, proofs `OnlineDump_proofs` | token list, growth by remapping, fallback; dump and merge |
| 4 (done) | `EmpiricalMeasure` in `Classifier`, proofs `Classifier_proofs` | reading loop, signals, directories, reload, scores, empirical measure |
| 5a (done) | `MailFilter`, proofs `MailFilter_proofs` | parts of a mail and the decoding caches |
| 5b (done) | `XmlFilter`, proofs `XmlFilter_proofs` | the markup filter |
| 5c (done) | `CharClasses` in `Tokenizer`, proofs `Tokenizer_proofs` | character classes, n-gram window, regular expressions |
| 6 (done) | `HeaderChars`, `HeaderLine`, `HeaderScan` in `Rfc822`, `Rfc2822` in `HeaderParse` in `HeaderMiner`, against `Rfc2822Grammar`; proofs `HeaderMiner_proofs` | hmine and its recognisers |
| 7 (open) | the ring of MIME boundaries; the document stack of the entropy statistics | what one bit, and nothing, stands for now |

Two kinds of abstract specification carry most weight: a container promises to
be a bag (`TokenBag`) or one that only grows (`OnlineCorpus`), and a file protocol
promises to be an atomic register (`AtomicCategory`).  A pure algorithm has a
reference definition instead: the grammar of the standard for the recognisers, the
n-grams of a list of words for the tokenizer, what a reader sees for the markup
filter, the tokens of a document for the scores.  A run stands for a question, so a
module has one run that explores it and one more only if some option set needs
other bounds.

No module that is proved about declares a RECURSIVE operator.  Where a proof needs
induction it takes a smallest counterexample among the naturals (`SmallestOfNat`), and
unfolds `FlattenSeq`, a fold, by one sequence at a time (`FlattenOneMore`).

The runs, each with its module and configuration in PROJECT.json:

| Run | Asks |
|---|---|
| `hash_grow`, `hash_stress` | is the table a bag, through growth, collisions, failing allocations, reloads (section 3) |
| `category_shared`, `category_alone` | is the category file an atomic register, for processes that share it, and for one alone with all options (section 4) |
| `category_merge` (violated) | the same with a merge (section 4) |
| `online_serial` | does learning in several runs count like learning in one (section 5) |
| `mail_parts` | does decoded text come out once, in its part (section 6) |
| `headers` | do the recognisers accept what the standards say; are headers kept and printed whole (section 7) |
| `classify` | is a verdict on its own document, through signals and reloads (section 8) |
| `pages` | is what is shown what a reader sees (section 9) |
| `tokens` | are tokens and n-grams told once and whole (section 10) |
| `tokens_twice` (violated) | the same when an expression is given twice (section 10) |

## 3. LearnerHash: the token table

`TokenBag` is the promise: a bag of tokens; an occurrence of a token is counted,
or, only while the bag does not hold the token, discarded.

`LearnerHash` is the code, with these correspondences:

| Code | Model |
|---|---|
| `learner->hash`, slots of `l_item_t` | `slot`, records of `id`, `count`, `order`, `mark` |
| `FILLEDP`: the id is not 0 | `FilledP`; 0 may also be the hash of a token |
| `find_in_learner` | `FindsAt(id, s)`: s is the first slot on the circular path from the home that holds id or is empty |
| `hash_word_and_learn` without growth | `Learn(t)`, of which `Known`, `New`, `Dropped` are the branches |
| the call of `grow_learner_hash` | `BeginGrow(t)`: double, blank the new half, mark |
| one turn of its inner `while` | `Refile` |
| its `for` | `NextSlot`, `EndGrow`, then `Insert`, the rest of `hash_word_and_learn` |
| dump and reload between two runs | `Reload`, which may change the growth limit |
| `INCREMENT`, `overflow_warning` | `Increment`, `overflow`: learning stops |
| `hash_count_t` | `WordSize` in `HasRoom` |

A failing `realloc` leaves the table as it is: the token is dropped
(`AllocMayFail` in `Learn`).  The digram table, debug output and the document
stack that the same function feeds are other components.

Runs:

* `hash_grow`: five ids that collide at every size, table 2 to 4 or 8 slots,
  all input orders, full at 50 percent.  The bounds matter: three doublings
  would only repeat two; 50 percent makes tables of 2, 4, 8 slots fill, collide
  and wrap round as 95 percent does for large ones; at counter maximum 8 all
  counters saturate somewhere.  Checked: every token
  findable at rest, the counters, the refinement of `TokenBag`, and that growing ends.
* `hash_stress`: a token hashing to 0, failing allocations, two reloads with
  other limits, counters that saturate at 5.  Checked: the token file lists every
  token of the table once, but for the one that hashes to 0 (section 11), and a probe
  still meets an empty slot.

Fairness: `WF(Grow)`.  `grow_learner_hash` is a loop nothing interrupts: signal
handlers only set a flag.

Proved in `LearnerHash_proofs` for all token sets, sizes and limits:
`TypeCorrect`, `NeverTwice`, `RehashCorrect`, `AlwaysFindable`,
`UniqueTokensCounted` and `EmptySlotAlways`.  The argument: `Findable` is not
inductive, for a half-moved table is neither the old nor the new hash table.
`RehashInv` is the missing part: an entry already placed has only placed
entries before it on its new path, and the marked entries lie between the
cursor and the old end.  `Refile` keeps it because the entry moves to the
*first* slot that is empty or marked, so everything before is placed, and the
swapped entry comes back to the cursor still marked.  When the cursor reaches
the end there are no marks, all filled slots are placed, and `Findable`
follows.  `IInv` adds that no id occurs twice.  The counting theorems add
`SizeInv` and `LoadInv` (the load stays below the percentage of the smaller of
table and limit) and need the assumption that the percentage arithmetic does
not wrap, which it does when the table has 2^26 slots (section 11).

The second part of that module is about what the table holds, as opposed to where.
`TokensWrittenOnce`: the token file lists the tokens of the table, each once,
through growth, refusals, failed allocations and reloads, whatever the options;
it needs that a rehash permutes the entries.  `TableIsBag`: the table implements
`TokenBag`, under `OneRun`, that is without reloads, failing allocations, tokens
that hash to 0 and wrapping arithmetic (32-bit arithmetic does not wrap up to
`-H 24`).  These hypotheses are needed: in each of the other cases the empty slot
keeps the count of a refused token and a later token starts from it (section 11).
The inductive part is `Clean`: empty slots count nothing until the first token is
refused, after which no token gets in, and after a growth there is room.

Only `GrowthEnds`, a liveness property, is left to TLC.

## 4. CategoryStore: the category file between processes

`AtomicCategory` is the promise: the category is a register; a learner replaces
it in one step, a reader loads the value that was current when it opened it.

`CategoryStore` has learners and readers of one category.  A file is a sequence
of pieces, each stamped with the run that wrote it; a name is a number N of
`category.tmp.N`.  Names and files are separate: unlinking or renaming a name
does not disturb those who have the file open.

| Code | Model |
|---|---|
| `mytmpfile` | `FirstFree`, `NoneFree` |
| `init_learner` | `MakeTokenFile` |
| `merge_learner_struct`, its `free_learner(&dummy)` | `Merge` |
| `process_pending_signal`, `errormsg(E_FATAL)` with `cleanup_tempfiles` | `Quit` |
| `optimize_and_save` | `NothingLearned`, `Prepare`, `FinishMinimising` |
| `fast_partial_save_learner` | `OverwritePiece` |
| `save_learner`, the check of an existing file | `Check` |
| its memory mapped part | `MapPiece`, `MapHeader`, `Discard` |
| its part by way of a temporary file | `Create`, `WritePiece`, `HeaderFails`, `Close`, `Rename` |
| `explicit_load_category` | `Open`, `Read` |
| SIGKILL, power failure; ENOSPC | `Crash`; `Fill` |

Options are chosen at start from `OptionSets`: `m` (mmap), `o`, `O` (online
dump, merge), `1` (reload weights).

Runs:

* `category_shared`: two learners and a reader, without `-m`, any of them killed
  or interrupted at any point; two temporary names, so that a crash can exhaust
  them; two pieces and a buffer of one, so that a file is half written on disk
  before the close.  Two learners suffice to steal, replace and outrun each
  other; a reader meets any number of replacements as one.  Checked: temporary
  names stay with their owner, the file is an atomic register and each run ends.
* `category_alone`: one learner with every option set, three pieces, a disk that
  may fill, a foreign file or leftovers of crashed runs in the way.  Checked:
  the category is whole unless the disk was full.
* `category_merge` (violated): a merge makes the process unlink its token file
  while keeping the name, and two learners then rename a half-written file.

Fairness: every process is scheduled and waits for no other, `WF` of each
process; nothing is fair about crashes, signals and the disk filling up.
Only a full disk can hold a learner for ever (`fwrite` is retried without end),
and `category_shared` has a disk with space.

Proved in `CategoryStore_proofs`, for any number of learners, readers, names and
pieces:

* `TypeCorrect`, with all options, crashes, signals and full disks.  The type
  alone is not inductive: `Typed` adds how far each learner can have come in its
  file at each label, and `Named` which names it holds there.
* `TempsStayHeld`: without `-O`, a temporary name stands for its owner's file
  until the owner is done with it.  `HeldBy(p)` ties the names to the label of p;
  the step of another learner keeps it because `mytmpfile` takes only free names
  and each learner unlinks only names that it holds.  `category_merge` shows that
  the hypothesis cannot be dropped.
* `AlwaysWhole`, `NeverCorrupt`, `SavingIsAtomic` under `PlainSaving` (no `-m`, no
  `-O`, space on the file system, no foreign file).  The invariant says that a
  file which is current, or open in a reader, is one writer's complete copy, and
  that nobody writes to it any more; a rename then is the one step at which the
  register changes.

TLC only: `EveryRunEnds` (liveness), and everything with `-m`.  `NeverCorrupt`
states `NoCorruptLoad`, which no run lists, since the other properties of
`category_shared` imply it; with a disk that may fill it is false (section 11).

## 5. OnlineDump: learning in several runs

`OnlineCorpus` is the promise: a run begins with the counts that were kept, adds
what it reads or merges, and replaces the kept counts by its own at once (with
`-m`, as it goes), so learning in several runs counts like learning in one.

`OnlineDump` has the runs of `dbacl -l -o` on one dump, with `-m`, `-H` and `-O`.
A file has three parts that change separately: `head` (the `learner_t`), `items`
(the hash table) and `list` (the token list).  The point of the module is which
of them each access changes, for a run that loads a dump keeps it open for
update, with or without `-m`, and writes its new tokens behind the old ones in
the file that others may read.

| Code | Model |
|---|---|
| `init_learner`, `read_online_learner_struct`, `create_learner_hash` | `BeginEmpty`, `Load`; mappings may fail one by one; `LoadFaults` where the `learner_t` was mapped and the table was not |
| `tmp_grow`, `tmp_write_token` | `WriteToken`; a mapping that fails after a resize turns to stdio, at `Resumed` |
| `tmp_seek_start`, `tmp_read_block` | `SeekStart`, `Listed` |
| the stdio buffer | `buffer`, which `Flush` may write at any time and an end of the process loses |
| `merge_temp_tokens`, then `merge_hashes` | `MergeToken`, then `MergeItem`, in that order |
| `hash_word_and_learn` | `CountKnown`, `CountNew`, `NewFaults`, `Refuse` |
| `grow_learner_hash` of a mapped table | `Grows`: the table becomes private, the list stays mapped |
| `write_online_learner_struct` | `DumpInPlace`, or `DumpSeek`, `DumpCopy`, `DumpRename`, `DumpFails` |
| `recalculate_reference_measure` | `Walk` |
| a dumped pointer of a dead process | `access = "stale"` for that of the token list: writing to it ends in `"fault"`, unless `tmp_grow` has to map anew first, which replaces it (`Accesses`); `hash` of a dump for that of the table |

`TokenFile` and `NewDump` are the two files a run may create; their names in the
directory are in `CategoryStore`.  The table is a bag with room for some tokens;
its slots are in `LearnerHash`.  Tokens all have the same length, so positions
count tokens.  The document statistics in the `learner_t` are left out.

Runs:

* `online_serial`: three runs, one after the other, with seven option sets, any
  mapping failing and any run without `-m` killed or failing to write its dump at
  any point.  The first leaves a dump, the second changes it, the third finds
  what that left.  Two tokens and a table for one token that may grow to two make
  it fill, refuse and grow; the list grows by two tokens with a margin of one, so
  that nearly each write remaps.  Checked: a dump agrees with itself, each token
  of the table is met by the walk that weighs it, and `OnlineCorpus`.  The assumptions are what the manual asks for: runs with `-o` do
  not overlap (`Overlap`), and one with `-m` is not killed (`MappedMayFail`).  The
  merged dumps list every token that they count (`OnlineDumpAssumption`), which
  is what `DumpConsistent` says of the dumps a run leaves.

Runs that overlap, and a run with `-m` followed by one without, are options of the
module too; what they do is in section 11.

Proved in `OnlineDump_proofs`, for any number of learners, tokens, dumps, table
sizes and file sizes, with maps that fail, growth, merges, full disks and crashes:

* `TypeCorrect`, without conditions.
* `IncrementalLearning`: without overlapping runs, the module implements
  `OnlineCorpus`.  The step that matters is that counts only grow within a run and
  that what a run keeps is its table, whole, or with `-m` the table it shares.
* `DumpAlwaysConsistent` and `AllTokensWeighed`, if moreover no run with `-m` is
  interrupted.  Section 11 says what happens otherwise; the manual asks for both.

`DumpConsistent` is about dumps at rest and is far from inductive.  `IInv` says where
each run stands: `Placed`, that at most one run is active, which files it has and
that its own dump is the dump only after the rename; `OnlineWhole`, that the dump is
consistent unless a run with `-m` is changing it; and for the active run that its
counters fit its table (`CountedAt`), that it writes at the end of the token list
(`CursorAt`), that the list, with what is still in the stdio buffer, has every token
the table counts (`CoveredAt`), that a merged token is listed before it is counted
(`MergedAt`), and what it leaves in the dump it found (`FoundAt`) and in the one it
makes (`MadeAt`).  `FoundAt` is the delicate part.  Without `-m` a run appends its
tokens to the dump it loaded, behind those that the `learner_t` there counts, and
that is why an interruption is harmless.  With `-m` table, list and `learner_t` change
separately, and the dump may disagree with itself from the first change until the
`learner_t` is overwritten or the file replaced, even after a growth has made the
table private.

The assumption that the empty name `None` is no file, token or count was made
explicit for the proofs (`OnlineDumpAssumption`).

## 6. MailFilter: the lines of a mail

One action of `MailFilter` is one call of `mbox_line_filter`, together with what
`process_file` does with the line: the transition of step 1 of that function, the
work of step 2 for the new state (`Work`, `Flushed`, `Decode`), and step 3
(`Process`), which flushes the caches at an empty line and sets the markup
filter.  A line is what the tests of the code tell apart (`Kinds`): the header it
looks like, a boundary, a digest separator, the start or end of armour and so on.
The text a line decodes to is a sequence of `w` (part of a word) and `s` (white
space or an ampersand, where a line may be broken), each with the type of its
part.

| Code | Model |
|---|---|
| `msUNDEF` | `Wait`, `StartMessage` |
| `msHEADER` | `HeaderLine`, `EndHeader`; a new header, `EnterHeader` |
| `msBODY` | `Boundary`, `Digest`, `ContentLine`, `FromLine`, or `BodyLine` with `Display` |
| `msATTACH` | `AttachLine`, `EndAttach`, `EndEnclosing`; an attachment header, `ReadAttach` |
| `flush_cache(.., 1)`, `flush_cache(.., 0)` | `Whole`, `Break`, both for as much as `max_line_len` (`room`) |
| `adjust_cache_size` | `Longest`: a page, or the longest encoded line so far |
| `b64_line_filter`, `qp_line_filter` | `Decode`, whose text and length are those of any line of `Decoded` |
| `reset_xml_character_filter`, `select_xml_defaults` | `Reset`, `Defaults` |
| `count_mbox_messages` | `notHeader`, and `out.message` when it counts one |
| `fill_textbuf` at the end of a file, the next file | `EndOfInput`, `ExtraLine`, `NextFile` |

Left open: whether a line of plain or armoured text looks like an encoded block
(it may be shown or not), and whether a header line has a label worth showing.
Left out: the truncation of header lines (`strip_header_char`), the decoding of
their words, the classes of tokens, and a `realloc` of a cache that fails.  That a
boundary is one of the last eight, and the approximate comparison with them, is one bit here: a line is a boundary of
the message or not.

Runs:

* `mail_parts`: every sequence of fifteen lines, files of any length and number, three
  sets of options.  The lines are all that differ in their transitions; types and
  headers that take the same branches have one representative.  A tail of one
  character stands for 70 (`TailLen`), so that a cache can be empty, hold a tail or
  a space, and be flushed partly or wholly; one line to check stands for five
  (`CheckLines`), so that the count starts, falls and ends.  A page is two characters
  (`PageLen`), which one encoded line fills with a space and a word and another
  exceeds by three characters without a space.  After a tail there is no room for the
  second, so that caches outgrow a line, by one character with each such line; up to
  `MaxCached` = 6 characters are followed, twice the longest line, which is where a
  partial and a full flush cut differently and more lines only repeat that.  `fitted`
  is a history variable: it holds until a line was decoded that its cache had no room
  for.  Checked: what goes into a cache comes out in order, and whole unless a full flush
  cuts a cache that had outgrown a line; while `fitted` holds, on a line that is shown,
  through the filter of its part; a message is counted just when a header begins.
  `Interrupted = FALSE` is an assumption about mails: a decoded line that was broken off
  in a word is not followed, without an empty line or a boundary, by a digest separator,
  a `Content-` line or the start of armour.

There is no fairness: a filter promises nothing before it is given a line.

Proved in `MailFilter_proofs`, for any lines, texts, options, tails and counts of
lines to check:

* `TypeCorrect` and `CachesSound`, for any mails: only one cache holds text, and in a
  body that is text of its type and encoding; while `fitted` holds, at most a tail stays
  in it from line to line.  The invariant adds what makes that inductive (`CacheInv`):
  what is left has no place to be broken but its start (`Tight`), so that the next line
  either flushes it or keeps it.
* `TextKept`, for any mails: no step repeats or reorders decoded text, and none loses any
  but a full flush of a cache that had outgrown a line, which cuts it behind a page or
  later (`CutShort`).  A line of any length adds at most a tail to what is cached, for
  `max_line_len` is at least its own length when the cache is flushed after it.
* `ShortLinesFit`: if what an encoded line decodes to is always shorter than a page by a
  tail or more (`ShortLines`), `fitted` always holds.  That is so in practice: RFC 2045
  has lines of at most 76 characters, the tail is 70, and a page has thousands.  With it
  the theorems above and below hold without `fitted`.
* `EveryMessageCounted`, if two empty lines end every file (`NoFilter`; they do unless
  dbacl filters line by line, as `fill_textbuf` has it): `EndInv` says how far the
  parser is after each of the two, so that a file always begins outside a header.
* `DecodedWordsShown` and `DecodedWordsFiltered`, if moreover no decoded line is
  broken off within a word (`~Interrupted`), while `fitted` holds.  `WordInv` says what sort of text may
  still be cached wherever the parser is: nothing in a header, no words between parts
  and after an empty line, nothing readable before the first message.  Both hypotheses
  are needed: text that is cached at the end of a file whose last line was not empty
  would come out in the next file, and after a broken line in the next part
  (section 11).

## 7. HeaderMiner: the header lines of a message

`HeaderMiner` is `hmine -a`: lines are collected into headers, each header is tried
by the recognisers of its field, kept on a stack, and at the end the mailboxes are
printed.  A line is a sequence of the characters that the recognisers tell apart
(`Chars` in `HeaderChars`); a name of a day, a month or a zone, and a word such as
`from`, is one character.  A recogniser of the code takes a pointer and returns one
or NULL; here it takes a place in `line` and returns a place, `NULL`, or `Hang`.  A
recogniser that another one is given as an argument is a function on places.

The recognisers are about one line, a constant of `HeaderLine`; `HeaderMiner`, where
the line is a variable, takes them by `Parse(l, e) == INSTANCE HeaderParse`.  The
constant `ends` of `HeaderScan` is a table of where white space, comments, quoted
strings and literals end that begin at each place (`Ends` in `HeaderLine`): the code
skips them anew wherever it comes to one, with the same result.

| Code | Model |
|---|---|
| `rfc822.c`: `skip_822_*`, `parse_822_*`, `parse_821_*` | the operators of the same names in `Rfc822` |
| `rfc2822.c`: `skip_2822_*`, `parse_2822_*`, `parse_2821_*`, with their option word | those of `Rfc2822`; the options are `Strict`, `Obsolete`, `Lax` |
| `skip_recursive`, `skip_822_lwsp`, `skip_2822_cfws` and other functions for characters | the same names in `HeaderLine` |
| the `if( (tmp = ...) ) ... else` of alternatives, and those only of the obsolete form | `Or`, `OrElse`, `OrObs`, in the order of the code |
| `mkh_*`, `make_new_header`, `cvt_date` | those of `HeaderParse`: the standards a header is accepted by, and its token |
| `hprocess_file` | `CollectLine`, `CompleteLine`, `EndHeader`, `SkipBody`, `EndOfFile` |
| `head_append_hline`, `head_push_header` | the same names; a header keeps where its tokens are, and whether the buffer they point into is still there (`live`) |
| a `realloc` of theirs that fails | the second half of `head_append_hline`, and `LeaveHeaderOut`; `mem` says whether one has failed, and whether the collected line is now NULL |
| writing past the stack that `realloc` made too small | `OverrunStack` |
| `print_summary`, `print_mailbox`, `unfold_token`, `bracketize_mailbox` | `PrintHeader` and the operators of the same names |

`Rfc2822Grammar` is the reference: the grammar of RFC 2822, written as operators on
sets of places, which try everything, as a grammar does.  It is not a translation of
`rfc2822.c`.

Run `headers`: each of about 15000 lines, made from well-formed ones of every field
by losing, changing or adding one character anywhere, alone in a message; and all
messages of up to four of six lines, with room for two headers on the stack and 16
characters in the text buffer, so that both must grow, each time with success or
without.  Return paths have dotted hosts, literals and source routes, so that the
strict form of RFC 2821 accepts some of them.  Checked: the strict
recognisers accept exactly what the grammar does (of `Received` they accept only
what it does, but not all); the obsolete form accepts what the strict one does;
what the transport standards accept, the message standards do, unless a literal holds
a parenthesis; a header is kept
once, whole and in order, while memory can be had; it is printed whole and in order; and hmine hangs only at
a comma that begins a list.  The code has ambiguity only between neighbours (a word
and a phrase, a group and a mailbox, a time and a zone), so lines of this length
with one defect reach both the alternative that fails and the one tried after it.

Proved (`HeaderMiner_proofs`): headers are kept once, whole and in order
(`StackedWhole`), for any message, stack and buffers, until memory is refused.  The inductive invariant `IInv`
adds what is being collected: until the empty line, `line` is what the last header of
the lines read has become so far and `field` its field (`Collected`), and a line can
only change that header, because the next one begins at a line that is not folded
(`TextStays`, `CompleteStays`).  The last header is pushed just when another begins, and
its place is the number of those complete by then (`WholePushed`); when the text buffer
moves, the headers keep their places and texts, though their pointers are stale
(`WholeMoved`).  That text grows by one line at a time is shown of `FlattenSeq` by
taking the smallest length at which two foldings would differ.  Nothing is assumed of
the recognisers but that the header made of a line is of its field and text
(`MadeIsHeader`).

Also proved, for any message and any line in it: the program is type correct
(`TypeOK`), which says that the place where a mailbox was found lies in its line and
in the text buffer, that the buffer has room for all that was collected, and that only
characters are printed; and lists are printed whole (`PrintedInFull`).  The first
rests on what every recogniser of RFC 2822 that finds a mailbox does with a place
(`Ahead`, `Past`): from NULL or an unmatched token it leads to NULL, else to a place
not before it, or behind it, and past the end of the line only if it was there already
(`AddressListFits`, down to `SingleCharFits`, and `RecursiveFits` for brackets).
Those that call themselves are functions on places each of whose values is that at a
later place (`Stepwise`), so that such a function exists (`StepwiseExists`) and what
holds at the last places, and at a place if it does where that goes on, holds at all
(`StepsInduct`).  The buffer is another such function, `enough`: it is doubled until
the line fits (`EnoughRoom`).  For the second, what is kept of the text from a place on
(`Rest`: without blanks, commas and brackets) is kept of what `unfold_token` returns and
of what follows the place where it stopped (`TokenUnfolds`, by the room that is left
in the print buffer), and so of all the pieces (`PiecesCover`); each piece begins
behind the one before, because the print buffer has room for at least one character.
The invariant `PInv` adds that every header of the stack fits (`HeaderFits`), that a line
whose field has mailboxes is shorter than what the buffer holds (`LineFits`), and
that what was printed is right for each header so far (`PrintedRight`).

What the recognisers accept, of RFC 822 as of RFC 2822, stays with TLC: that is induction
over a grammar, with a reference that tries everything.

## 8. Classifier: what a verdict is about

`Classifier` is `dbacl -c` from the command line to the verdicts, with
`EmpiricalMeasure` for the table that counts the tokens of a document.  A line is
the sequence of its tokens, a score is the sequence of the tokens it is the sum of,
and what is added up together with it (`score_s2`, complexity and so on) is that
sequence too.

| Code | Model |
|---|---|
| the loop over arguments in `main` | `OpenFile`, `OpenDirectory`, `OpenFails`, `OpenStdin`, `CloseFile`, `Finish` |
| `process_directory` | `NextEntry`, `LeaveDirectory` |
| `fill_textbuf`, with `process_pending_signal` | `ReadLine`, `ReadClosed`, `ExitOnSignal`, `ReadExtraLine` |
| `handle_indents_and_appends` | the same name |
| one call of `score_word` | `ScoreWord`, with `Counted`, `Refused`, `find_in_category` |
| the end of the loop of `process_file`: `post_line_fun`, reloading | `EndLine` |
| `score_categories`, `file_score_categories`, `line_score_categories` | the same names |
| `init_empirical`, `find_in_empirical`, `clear_empirical` | the same names in `EmpiricalMeasure` |
| a signal; another dbacl that saves a category | `Raise`, `Relearn` |

Run `classify`: runs in the three modes, of files, a directory, nothing and a missing
file, with `-A`, `-a`, `-vX`; undisturbed ones with up to three files of three lines,
and disturbed ones with up to two signals of any kind at any moment and categories
saved anew, whole or torn.  Two signals are enough for one to replace another, and
for a reload to be followed by an end.  A table of four slots, full at three, with
colliding tokens, a stack for two slots and counters that stop at four make each
limit of the empirical measure be reached.  Checked: each verdict is on the tokens of
its own document, all and in order; the empirical table is consistent and cleared
whole; tokens are counted as often as scored; the misses are those of the score;
nothing is scored once an end was asked for; each file is judged once; the run ends.

Fairness: weak fairness of the program as a whole.  It is one sequential process
that waits for nothing but its input, and input is finite here.  Signals and other
processes are under no fairness.

Proved in `Classifier_proofs`, for any files, categories, options, signals, and any
size of table, stack and counters:

* `TypeCorrect`; `MissesCounted`, which is inductive as it stands; and
  `TerminationHeeded`, which needs that tokens are left only while a line is scored
  (`LineInv`).
* `MeasureSound`: the table is an open-addressing table in which every token is at the
  first place where probing for it stops (`Reached`); it is counted right, and a slot
  is free just if nothing was counted there, without which clearing along the stack
  would leave something.  Hypothesis: no token hashes to 0, which the table takes for
  a free slot.
* `CountsMatchScores`: a token that is not refused is counted once and no other one
  is (`CountedOnce`).  Further hypotheses: different tokens have different hashes, and
  one slot always remains free (`FreeSlotRemains`: with 95 percent the table needs
  twenty slots, and counters must reach its size); in a full table a token is scored
  without being counted.  `SignalInv` says that nothing is reloaded while no signal
  has come.

* `EveryFileJudged`: with `-F` and no signal each file is judged once, in the order of
  the command line and of the directories.  The names of the files opened so far
  (`Opened`) are at any time those judged, in order, followed by the one being read and
  those left in the directory (`Ledger`); `Filing` says what is left at which point of
  the loops.  A directory gets a verdict of its own after its last file, under a name
  that is not that of a file: that is the hypothesis (`NamesDiffer`), without which one
  could not tell by the name what a verdict is about.
* `VerdictsScoreTheirDocuments`: every score in a verdict is the sum over the tokens of
  the document the verdict names.  The documents are read off the input alone
  (`Documents`): all the text that is read, a line, or a file of that name, for one
  file may be given twice; of a document count the tokens that are not refused by a
  full empirical table (`Admitted`) and that the category has expressions for
  (`Chosen`).  The invariant has three parts.  `Walk` and `Placed` say where in its
  input a run is: the files left behind and those to come (`Coming`) are the files of
  the command line, the lines read and those unread are the lines of those files.
  `ScoringInv` says that there is a sequence `p` of tokens that were scored since the
  last verdict: it lies in the document at hand and is followed by what is left of it
  (`Tally`, `Follows`), every score is what the category makes of `p`, or of its end
  if it was loaded anew in between (`ScoreOf`), and the empirical table holds what `p`
  puts in it (`Measured`), so that it refuses just the tokens for which there is no
  room.  `p` is not a variable: which tokens it has
  follows from the input while no signal has come, and afterwards only that it is a
  part without gaps, which is what the property claims.  `VerdictsRight` is the claim
  about the verdicts printed so far.  Hypotheses: the three above, without that of
  different hashes, because the documents count ids, as the table does.

`ClassifierAssumption` says what the arguments and files of a run are: only the last
line of a file may lack its newline.  TLC only: `EveryRunEnds` (liveness).

## 9. XmlFilter: removing markup in place

`XmlFilter` is `xml_character_filter` with what it calls: one action per state of its
machine, each taking one lexeme (a name, an entity, a quote, or a character, each
with its length in characters) from `line` and writing to `q`, which in the code is
the same array.

| Code | Model |
|---|---|
| `xmlTEXT` | `OpenTag`, `CloseTag`, `Comment`, `Doubled`, `Bogus`, `Text` |
| `xmlTAG`, `xmlTAGVALUE`, `xmlTAGQUOTE...` | `Tag`, `TagValue`, `TagQuote` |
| `xmlXTAG` and its values and quotes: tags whose attributes are looked at | `Xtag`, `XtagValue`, `XtagQuote` |
| `xmlCOMMENT` | `InComment` |
| `xml_attribute_filter`, `decode_html_entity`, `decode_uri_character` | the same names |
| `reset_xml_character_filter` | `Fresh`, `Reset` at `NextPage` |
| reading past the end of the line | `beyond`, after which nothing is said |

Run `pages`: about 9000 runs over pages built from eighteen elements (text with
entities, tags with each kind of attribute and quote, hidden elements, comments),
alone and in pairs, as whole pages and as parts of mails, cut into two lines at
every place where the code does not test several characters at once, in five sets of
options; and after pages that break off in each state.  Checked: output stays behind
input; and each well-formed page shows what the instance says a reader sees of its
elements (`shows`, which is written beside each element and not computed by the
filter).

Proved (`XmlFilter_proofs`): output stays behind input (`OutputBehindInput`) for any
options and pages, lines of any length.  The inductive invariant `IInv` adds that the
line is a sequence of the lexemes of the model and what is written one of theirs or of
what stands for them, with a length no greater than that of the lexemes read.  The
length `Size` is a sum over a sequence; that it grows by `Width` with each lexeme
(`SizeAppend`, `SizeRead`) is shown by taking the smallest length at which two sums
would differ.  Most steps then follow from one lemma, that the attribute filter writes
at most one lexeme for one and none that is longer (`PrintedIsNoLonger`,
`BehindAfterFilter`); a step that takes an entity, or an escaped quote, applies it
twice.  The tight case is the name of an attribute within a tag: closing the value
before it and opening its own may write three characters (`BehindAfterName`), which is
no more than was read because every name looked for has three letters or more.  That
and the other lengths are the assumption `StringLengths`, which TLC evaluates on the
strings themselves; the prover has no theory of their length.  `ShownAsWritten` stays
with TLC: it is a function of the whole page, and only the run says which pages are
well formed.

## 10. Tokenizer: characters, tokens, n-grams

`CharClasses` holds the seven classes of `good_char` (`char`, `alpha`, `alnum`,
`graph`, `cef`, `cef2`, `adp`) with the state machines for symbols, numbers,
addresses, money, repeated and multibyte characters, as operators from a line, a
place and `char_filter_state` to a verdict and a next state.  Characters are their
codes here, because the classes are about codes.

`Tokenizer` is the loop of `process_file` around them.

| Code | Model |
|---|---|
| `load_regex` | `LoadRegex`; `spare` is the slot after the last one, which keeps its bits |
| the test of `-w` in `set_option` | `ValidOrder`, `StartReading` |
| `process_file`, called for each file | `BeginFile`, which forgets what is held, `ReadLine`, and `Flush` at the end; `EndOfFiles` |
| `M_OPTION_USE_STDTOK` | `stdtok`: whether words are told.  Without expressions they always are; with some, only if a category was learned without any |
| `regex_tokenizer`, for each expression | `RegexMatch`, `NextRegex`; matching itself is external |
| one turn of `std_tokenizer` | `TokenizeChar`, with `EndToken`, `Moved`, `Cleared` |
| `reset_current_token` | `Cleared`, at `BeginFile` and `ResetAfterLine` |
| the last call, with a NULL line | `Flush` |

The size of a token is 4 instead of 30 and of the holding buffer in proportion.
`CharClasses` and `Tokenizer` with the constants of the source were compared with the
built program on 240 random inputs over all classes, orders and options, with long
words and multibyte characters: the n-grams were the same.

Run `tokens`: two lines over letters and blanks, of one file or of two, in all classes,
orders up to 3, with and without `-S` and `-j`; lines of letters, digits, marks and two-byte characters
up to the length where words are cut; addresses, sums, repetitions; orders that are
refused; three expressions with all suffixes, alone and with the words told too, over
two files.  Checked: on lines of words each
n-gram is told once and nothing else is; under `adp` no visible character is lost;
the holding buffer, which is written to without a test, always has room; each
expression tells the captures asked for, if none is given twice.

Run `tokens_twice` (violated): if one is given twice, the bits of its suffix stay in
the free slot and go to the expression after it.

**Proved** (`Tokenizer_proofs`, theorem `RoomInBuffer`): `BufferHolds`, for all lines,
classes, orders and expressions, if the sizes are as in dbacl.h: some order is allowed
(`MAX_SUBMATCH > 2`), and `MAX_SUBMATCH + 2 <= MAX_TOKEN_LEN + EXTRA_TOKEN_LEN`
(9 + 2 <= 30 + 4; in the run 5 + 2 <= 4 + 4).  The buffer reserves `MAX_SUBMATCH` tokens
of `MAX_TOKEN_LEN + 1`, but each of the `MAX_SUBMATCH - 2` of an n-gram may take one
more with its DIAMOND.  The second inequality cannot be weakened: with
`EXTRA_TOKEN_LEN = 3`, where both sides are equal, TLC still finds room, and with 2 it
finds `BufferHolds` violated.

Two arguments meet in it.  The first is about the bytes of the line.  The tokens are
found again by the DIAMOND (3) before each, so one that came from a line would be
a token that `*hbuf_order` does not count, and the window would not move.  No class of
characters has the code 3, but most machines decide one character ahead, or up to five,
and then take it unseen: `Foreseen` says what every state knows of the characters
to come, `AdpSound`, `CefSound` and `Cef2Sound` prove that every step of the three
machines keeps that and takes no DIAMOND, `LoweredSound` that lowering a character
in place, between the look ahead and the turn it is taken, changes none of it, and
`CalmAtEnd` that nothing is left foreseen when the line ends, because the state
outlives the line.  The second is about the buffer (`BufferInv`): the DIAMONDs in it
are at the places `d[1] < ... < d[o + 1]` of a sequence (`Cut`), no further apart
than `MAX_TOKEN_LEN + 2`, `o` is at most the order, and between lines the last character
is a DIAMOND.  `CutMoves` shows that moving the buffer takes out one token;
`CutReach` adds the distances up.  `BufferHolds` itself is not inductive, as it knows
neither how many tokens are held nor how long the last one is.

`NgramsTold`, `LettersConserved` and `CapturesTold` compare a whole run with a
definition of what it should tell, by counting in sequences that are
filtered and sorted (`SelectSeq`, which the provers know nothing of); they stay with TLC.


## 11. Disagreements noted without a run

* A token refused because the table is full still increments the count of the
  empty slot its probe stopped at, and the totals (`dbacl.c:2298`); the manual
  (`man/dbacl.1in:1094`) says it is discarded.  A token that takes the slot
  after a growth or reload begins with that count.
* With `-h 4` or less the table fills completely before 95 percent is exceeded:
  `find_in_learner` returns NULL and the growth of `-H` never starts
  (`dbacl.c:2256`), though the manual (`man/dbacl.1in:1107`) says the size
  doubles when necessary.
* `HASH_FULL * max_tokens` (`dbacl.c:2258`) is a 32-bit product that wraps when the
  table has 2^26 slots, which `-h` and `-H` allow: the table then refuses tokens, or
  grows, when it is nearly empty.  TLC shows it with 8 slots and `WordSize = 512`.
* `-1 -m` without `-o` overwrites the category in place
  (`dbacl.c:3871`), so a concurrent load can be torn; the manual
  (`man/dbacl.1in:1070`) calls `-m` with `-o` the only such case.
* On SIGINT the token file is removed (`util.c:256`), though the manual
  (`man/dbacl.1in:1124`) says dbacl exits without any cleanup.
* `-m` with `-O` maps the merged dump for reading only, and then clears a member
  of each used slot (`dbacl.c:1599`), so merging any dump with tokens ends in a
  fault (`MergeFaults`), though the manual (`man/dbacl.1in:656`) calls `-O` "a read
  only version of -o".
* A merge lists the tokens of the other dump before it knows which of them the
  table takes (`dbacl.c:1891`).  With a full table the list then has tokens that the
  table lacks, which `dump_model` looks up as "guaranteed to be found"
  (`dbacl.c:3670`); if a later run grows the table, such a token is listed, and
  weighed, twice.
* `tmp_grow` keeps room for two tokens of `MAX_TOKEN_LEN` (`dbacl.c:1084`), but an
  n-gram can be longer than that; `tmp_write_token` relies on enough room
  (`dbacl.c:1137`), so with a mapping the end of the token falls beyond the file.
* If the first mapping of a dump succeeds and the second fails (`dbacl.c:1301`),
  `learner->hash` is an address from the dump, and is used as a table (`LoadFaults`).
* A token that hashes to 0 never makes its slot look used (`dbacl.h:602`): it is counted
  as new, and written to the token file, at every occurrence.
* A dump that cannot be read is reported as "learning from scratch"
  (`dbacl.c:1617`) by a fatal error: the run ends.
* The last words of an octet stream at the end of a file are not shown
  (`mbw.c:2645`): its lines all count as processed, so the flush at the empty line
  that marks the end is passed over.  `EveryWordShown` leaves
  them out.
* The rest of an HTML part is tokenized when the state has already moved on, so its
  words get the token class of the line they overwrite and not that of their part
  (`fh.c:613`).
* Without `Interrupted = FALSE`, a `Content-` line directly after a broken-off decoded
  line leaves the text in the cache (`mbw.c:2593`, only `msuUNDEF` flushes); it
  comes out later with the type of the new part.
* An enclosed message counts as a message of the corpus (`mbw.c:2355`).
* `skip_until_boundary` is set only by an end boundary, and the empty line that ends
  the attachment header clears it again (`mbw.c:2372`), so it never hides a line of a
  body; text after the last boundary is learned.

Category file, dumps and mail, seen with TLC under other options of the modules:

* `fclose` is not checked (`dbacl.c:907`): on a full disk a truncated file
  replaces the good category.  With `DiskMayFill = TRUE`, `NoCorruptLoad` is violated.
  `0 > (n = fwrite())` (`dbacl.c:897`) is never true, so a learner may also retry
  for ever.
* Two runs with `-o` that overlap (`Overlap = TRUE`), without `-m`: the manual
  (`man/dbacl.1in`) leaves open which wins; in fact both write to the same place of
  the same token list, and `DumpConsistent` is violated.
* A run with `-m -o` and then one without `-m`: the dump holds `tmp.mmap_start` of
  the first, which the second takes for its own.  It ends in `"fault"` when it writes a
  token there; only if the list must grow first does it get a mapping of its own
  (`dbacl.c:1086`).
* `adjust_cache_size` takes the length of an encoded line for the room it needs
  (`mbw.c:429`) and forgets the tail that is still cached.  Long lines without a space
  leave more and more in the cache.  Then a full flush, which goes to the end of a part,
  drops what lies behind `max_line_len` (`mbw.c:439`), and an empty line leaves words in
  the cache, which come out later, in another part.  `TextConserved` says how much can be
  lost; `ShortLinesFit` that lines as RFC 2045 has them do not get there.
* With `-T email:atts`, a base64 line whose text stays in the cache is shown, and
  learned, in its encoded form (`mbw.c:2642`).
* What is in a cache at the end of a file overwrites the first header line of the
  next one (`fh.c:329`, `mbw.c:2394`), often its `From` or `Subject`; the cache holds
  at least the line end after a quoted-printable body.

hmine:

* A list or a route that begins with a comma hangs it (`rfc822.c:171`); the comment
  at `rfc822.c:35` says a pattern that does not match returns NULL.
* `skip_2821_path` looks for the colon after a source route where the route begins
  (`rfc2822.c:1266`), so it refuses every path with one, though `skip_2821_adl` has just
  accepted the route; as the code does, so does the model.
* `mkh_received` looks for a date that could not be read at `dat.numsec`
  (`hparse.c:354`), but the token of a `Received` line is a `received_t`, which has the
  place of `via` there: NULL or an address, never -1.  So no `Received` line is
  `BAD_DATA`, whatever its date.
* When the text buffer cannot grow (`hparse.c:116`), the line is left out and the one being
  collected becomes NULL.  A folded line that comes next goes on with the header before
  it, as if it were its own; the header that was being collected is pushed twice, or
  never.  `StackedWhole` is about messages for which memory was had.
* For a Sender in which no mailbox is recognised, it prints what the buffer was left
  with by the header before it (`hmine.c:148`), though the manual
  (`man/hmine.1in:27`) says it prints mailboxes found.
* `unfold_token` skips the first character after a fold (`hparse.c`), so
  `To: John\n Doe <x@y>` prints "John oe".
* The last header of a message is never pushed on the stack; after 100 headers
  the stack is overrun, because `realloc` gets a number of headers for a
  number of bytes (`hparse.c:925`); growing the text buffer leaves the tokens
  pointing to freed memory; `head_append_hline` writes one byte more than it tests
  for (`hparse.c:116`).
* Commas in quotes split a mailbox, and mailboxes in groups are not enclosed in
  `<>` (`man/hmine.1in:27`).  The exit status is 0, the manual says 1.
* `tests/sample.headers-2822g:86` is said to be good and is rejected.  Two-digit years
  are accepted by the recogniser and always `BAD_DATA` for `cvt_date`; a Received
  comment directly before the next word, and a domain literal after a blank, are
  rejected though standard; `Resent-From` of RFC 822 is never accepted.

Classifier:

* SIGTERM closes the stream (`util.c:272`), `fgets` reads it (`util.c:376`) and
  `fclose` closes it again (`dbacl.c:4736`): on standard input the built program ends
  with a segmentation fault and no verdict, though the manual
  (`man/dbacl.1in:1130`) says it continues as if no more input was available.
  The model has both outcomes (`ReadClosed`, `CloseFile`).
* A second signal replaces the first: USR1 directly after TERM cancels it
  (`util.c:197`).  Files of a directory are still opened, and judged, after TERM.
* With `-F`, `fmiss` is not reset (`dbacl.c:187`), so that the share of recognised
  tokens of `-vX` (`dbacl.c:507`) counts the misses of all files and may be negative.
* A directory with `-F` gets one verdict more, for a name in a buffer that is no more
  (`fh.c:529`, `dbacl.c:4738`).
* A reload forgets scores and complexities but not the empirical counts, so that the
  correction at `catfun.c:806` compares two different documents; `CountedAsScored`
  allows this.  A reload is not looked at on a line that `-A` drops.
* `-a` echoes the extra lines of `fill_textbuf`, and with `-A` prints "(null)"
  (`man/dbacl.1in:411`).

Markup:

* An entity directly before the closing quote of an attribute swallows the quote, and
  before the end of a line the line's NUL (`mbw.c:3741`); `<` at the end of a line
  without newline steps past the NUL too (`mbw.c:4091`).
* `xml_attribute_filter` may write two characters at once, an entity and the one after
  it; the comment at `mbw.c:3718` says zero or one.
* "Only prints the netloc part" (`mbw.c:3726`): path and query are printed too.
* `<` before a newline or `>` swallows the next character; text after a `</comment>`
  is never shown; `>` after `=` does not end a tag; an unquoted attribute at the end
  of a line goes on in the next line; `<title>` inside a hidden element ends hiding.
* `<<`, `<br>` and `<hr>` leave something even in the strict parser (comment at
  `mbw.c:3854`); `xmlHTML` is never selected; `attribute` is not reset between files.

Tokens:

* `(q)|(b)` on "b" tells nothing, because the loop over groups stops at the first one
  that did not match (`mbw.c:1502`); `(a)(b)(q)*(c)` tells a and b only.
* An expression without parentheses is stored with some, and so is never recognised
  when given again; the same expression with another suffix keeps the first suffix.
  The limit is fatal one expression early.
* `char_filter_state` survives a decoded line that ends without a newline
  (`mbw.c:626`): in base64 HTML, "hello !&#119;orld" gives the tokens "!" and "orld".
* In the class `cef`, `--abc` gives "--" and "bc".  A blank before the newline makes
  an n-gram with an empty word under `-w 2`.  Squeezing of repeated letters does not see
  capitals, and `baaaa` becomes `baa`, `aaaa` becomes `aaa`.
* The comment at `mbw.c:1557` says STRADDLE flushes at a newline; the code does the
  opposite.  After a shift of the window a token may be one character longer than
  `MAX_TOKEN_LEN`.  The states `fALPHA`, `fALNUM` and `fNUMERIC` are dead code.

## 12. What is not modelled

* Floating point: digram measures, the minimisation of divergence, the scores
  themselves, entropies, p-values, the losses of bayesol, the special functions.
  TLC has no reals, and what these parts promise is numeric.
* The document stack and the reservoir of the entropy statistics: sums of logarithms
  and random choices.  When a message ends, which starts them anew, is in `MailFilter`.
* Options: the modules take option words as inputs and leave out those that
  `sanitize_options` rules out; the function has no state of its own.
* The wide character twins of each function: the same source compiled again, for an
  option (`-i`) that `sanitize_options` always switches off (`dbacl.c:4513`).
* The ring of MIME boundaries, the truncation of header lines and the arithmetic of
  base64 and quoted-printable are one bit, nothing, and nondeterministic in
  `MailFilter`.  A cache that cannot grow (`mbw.c:426`) is left out: the decoder then
  writes past its end.
* `regcomp` and `regexec`, which are the C library's: `Tokenizer` has its own small
  expressions.  Decimation, and the classes of tokens.
* mailinspect (interactive, nothing else acts on its list), bayesol (a generated
  parser), hypex (a table of pairs that is filled like the hash table), icheck (two
  read-only checks), and the shell scripts around the programs.
