----------------------------- MODULE OnlineDump -----------------------------
(***************************************************************************)
(* Runs of dbacl -l -o on one memory dump (dbacl.c: TEMPORARY FILE         *)
(* FUNCTIONS, LEARNER FUNCTIONS, hash_word_and_learn, optimize_and_save).  *)
(* A dump file has three parts: the learner_t (head), the hash table        *)
(* (items) and the token list (list), which may have more tokens than the   *)
(* learner_t says are used.  A run that finds a dump opens it for update    *)
(* and appends its new tokens to the list in that very file; with -m it     *)
(* maps the table and the list and so changes both in place.  At the end it *)
(* renames a new dump over the old one or, if the table is still mapped,    *)
(* only overwrites the learner_t.  Then it walks the token list to weigh    *)
(* the tokens for the category.                                            *)
(*                                                                         *)
(* The table is a bag with room for some number of tokens: its slots are in *)
(* LearnerHash, the temporary names in CategoryStore.  All tokens have the  *)
(* same length, and lengths and positions are counted in tokens.  A process *)
(* runs once.  The document statistics of the learner_t are left out.       *)
(*                                                                         *)
(* A definition named Fault_... is no part of the model: it is the one that *)
(* follows it with a bug, to see that a property would notice.             *)
(***************************************************************************)
EXTENDS Naturals, Sequences, FiniteSets

CONSTANTS
  Learners,     \* runs of dbacl -l -o
  Ids,          \* tokens
  OptionSets,   \* sets of the options "m", "H", "O" of a run
  Others,       \* the dumps that -O may name
  MaxInput,     \* number of tokens a run reads
  Capacity,     \* tokens that fit in the table at its default size
  MaxCapacity,  \* and at the largest size -H allows
  ListGrow,     \* TOKEN_LIST_GROW
  Margin,       \* 2 * MAX_TOKEN_LEN, the free space tmp_grow() keeps
  Overlap,      \* may a run begin before another has ended?
  MapMayFail,   \* may mmap(2) fail?
  MayCrash,     \* may a run be killed?
  MappedMayFail, \* may a run with -m be killed, or fail to write a dump?
  None          \* no file

Empty == [t \in Ids |-> 0]

(* Every run creates at most one token file and one dump. *)
TokenFile(p) == <<p, "tokens">>
NewDump(p) == <<p, "dump">>
Files == Learners \X {"tokens", "dump"}

Counts == [Ids -> Nat]

(* What is dumped of a learner_t: the numbers of unique tokens, of tokens    *)
(* that fit in the table, of tokens used and available in the list, and      *)
(* whether tmp.mmap_start and hash were addresses of the process.           *)
Heads == [unique : Nat, room : Nat, used : Nat, avail : Nat,
          address : BOOLEAN, hash : BOOLEAN]

Heading(u, r, n, a, m, h) ==
  [unique |-> u, room |-> r, used |-> n, avail |-> a, address |-> m, hash |-> h]

NoHead == Heading(0, 0, 0, 0, FALSE, FALSE)

ASSUME OnlineDumpAssumption ==
  /\ None \notin Files \cup Ids \cup Counts
  /\ \A o \in OptionSets : o \subseteq {"m", "H", "O"}
  /\ Others \subseteq [items : Counts, list : Seq(Ids), address : BOOLEAN]
  /\ \A d \in Others, t \in Ids : d.items[t] > 0 => \E k \in DOMAIN d.list : d.list[k] = t
  /\ {MaxInput, Capacity, MaxCapacity, ListGrow, Margin} \subseteq Nat
  /\ 0 < Capacity /\ Capacity <= MaxCapacity
  /\ Margin < ListGrow
  /\ {Overlap, MapMayFail, MayCrash, MappedMayFail} \subseteq BOOLEAN

VARIABLES
  online,  \* the file that the name of the dump stands for, or None
  head,    \* the learner_t in each file
  items,   \* the hash table in each file: token counts
  list,    \* the token list in each file
  pc,      \* where a run is
  opt,     \* its options
  input,   \* number of tokens it may still read
  unique,  \* learner->unique_token_count
  room,    \* number of tokens its table takes before it is full
  shared,  \* is learner->hash mapped from the dump?
  table,   \* its private table, if not
  other,   \* the dump it merges
  merged,  \* number of listed tokens of that dump already compared
  pending, \* tokens of that dump not yet added to the table
  file,    \* learner->tmp.file
  access,  \* learner->tmp.mmap_start: "stdio" if NULL, "map" for a mapping,
           \* "stale" for an address that a dead process had
  at,      \* the position in the token list
  used,    \* learner->tmp.used
  avail,   \* learner->tmp.avail
  buffer,  \* tokens in the stdio buffer, which belong just before the position
  walked   \* the tokens weighed for the category

disk == <<online, head, items, list>>
counting == <<unique, room, shared, table>>
merging == <<other, merged, pending>>
tmp == <<file, access, at, used, avail, buffer>>
vars == <<disk, pc, opt, input, counting, merging, tmp, walked>>

Labels == {"off", "mergeTokens", "mergeHashes", "learn", "dump", "copy",
           "rename", "walk", "save", "done", "nothing", "fault", "crashed"}
Ended == {"done", "nothing", "fault", "crashed"}

Running(p) == pc[p] \notin Ended \cup {"off"}

NoOther == [items |-> Empty, list |-> <<>>, address |-> FALSE]

Init ==
  /\ online = None
  /\ head = [f \in Files |-> NoHead]
  /\ items = [f \in Files |-> Empty]
  /\ list = [f \in Files |-> <<>>]
  /\ pc = [p \in Learners |-> "off"]
  /\ opt = [p \in Learners |-> {}]
  /\ input = [p \in Learners |-> MaxInput]
  /\ unique = [p \in Learners |-> 0]
  /\ room = [p \in Learners |-> Capacity]
  /\ shared = [p \in Learners |-> FALSE]
  /\ table = [p \in Learners |-> Empty]
  /\ other = [p \in Learners |-> NoOther]
  /\ merged = [p \in Learners |-> 0]
  /\ pending = [p \in Learners |-> {}]
  /\ file = [p \in Learners |-> None]
  /\ access = [p \in Learners |-> "stdio"]
  /\ at = [p \in Learners |-> 0]
  /\ used = [p \in Learners |-> 0]
  /\ avail = [p \in Learners |-> 0]
  /\ buffer = [p \in Learners |-> <<>>]
  /\ walked = [p \in Learners |-> <<>>]

GoTo(p, l) == pc' = [pc EXCEPT ![p] = l]

(* The files that nobody can read any more once p has ended: those that it   *)
(* alone had open and that are not the dump.  A token file is removed, and   *)
(* so is a dump that was not renamed, or nobody ever reads it.              *)
Gone(p) ==
  {f \in {file[p], NewDump(p)} \cap Files :
     f # online /\ \A q \in Learners \ {p} : file[q] # f}

(* The process is gone; what it had not flushed is lost. *)
Exit(p, l) ==
  /\ GoTo(p, l)
  /\ head' = [f \in Files |-> IF f \in Gone(p) THEN NoHead ELSE head[f]]
  /\ items' = [f \in Files |-> IF f \in Gone(p) THEN Empty ELSE items[f]]
  /\ list' = [f \in Files |-> IF f \in Gone(p) THEN <<>> ELSE list[f]]
  /\ opt' = [opt EXCEPT ![p] = {}]
  /\ input' = [input EXCEPT ![p] = 0]
  /\ unique' = [unique EXCEPT ![p] = 0]
  /\ room' = [room EXCEPT ![p] = Capacity]
  /\ shared' = [shared EXCEPT ![p] = FALSE]
  /\ table' = [table EXCEPT ![p] = Empty]
  /\ other' = [other EXCEPT ![p] = NoOther]
  /\ merged' = [merged EXCEPT ![p] = 0]
  /\ pending' = [pending EXCEPT ![p] = {}]
  /\ file' = [file EXCEPT ![p] = None]
  /\ access' = [access EXCEPT ![p] = "stdio"]
  /\ at' = [at EXCEPT ![p] = 0]
  /\ used' = [used EXCEPT ![p] = 0]
  /\ avail' = [avail EXCEPT ![p] = 0]
  /\ buffer' = [buffer EXCEPT ![p] = <<>>]
  /\ walked' = [walked EXCEPT ![p] = <<>>]

-----------------------------------------------------------------------------
(* The token list.                                                         *)

(* The list s with the tokens w from position k on.  A gap is a hole in the  *)
(* file, not a token.                                                       *)
Overwrite(s, k, w) ==
  [i \in 1..(IF Len(s) < k + Len(w) THEN k + Len(w) ELSE Len(s)) |->
     IF i \in k + 1..k + Len(w) THEN w[i - k]
     ELSE IF i \in DOMAIN s THEN s[i] ELSE None]

Flushed(p) == Overwrite(list[file[p]], at[p] - Len(buffer[p]), buffer[p])

(* stdio may write its buffer at any time. *)
Flush(p) ==
  /\ Running(p)
  /\ buffer[p] # <<>>
  /\ list' = [list EXCEPT ![file[p]] = Flushed(p)]
  /\ buffer' = [buffer EXCEPT ![p] = <<>>]
  /\ UNCHANGED <<online, head, items, pc, opt, input, counting, merging,
                 file, access, at, used, avail, walked>>

(* tmp_grow(): the file grows, and with it the mapping; if mapping fails,     *)
(* the list is accessed by way of stdio from then on.  A stale address is    *)
(* replaced by that of a new mapping in the same way.                       *)
MustGrow(p) == used[p] + Margin >= avail[p]

Accesses(p) ==
  IF MustGrow(p) /\ access[p] # "stdio"
  THEN IF MapMayFail THEN {"map", "stdio"} ELSE {"map"}
  ELSE {access[p]}

Fault_StartAgain(p) == 0

(* Where stdio resumes after such a failure: fseek() to the cursor.          *)
Resumed(p) == at[p]

(* tmp_grow(), tmp_write_token(), not to a stale address.                    *)
WriteToken(p, t) ==
  /\ avail' = [avail EXCEPT ![p] = IF MustGrow(p) THEN @ + ListGrow ELSE @]
  /\ \E a \in Accesses(p) \ {"stale"} :
       LET k == IF a = "stdio" /\ access[p] # "stdio" THEN Resumed(p) ELSE at[p] IN
       /\ access' = [access EXCEPT ![p] = a]
       /\ at' = [at EXCEPT ![p] = k + 1]
       /\ \/ /\ a = "map"
             /\ list' = [list EXCEPT ![file[p]] = Overwrite(@, k, <<t>>)]
             /\ used' = [used EXCEPT ![p] = k + 1]
             /\ UNCHANGED buffer
          \/ /\ a = "stdio"
             /\ buffer' = [buffer EXCEPT ![p] = Append(@, t)]
             /\ used' = [used EXCEPT ![p] = @ + 1]
             /\ UNCHANGED list
  /\ UNCHANGED file

(* tmp_seek_start(). *)
SeekStart(p) ==
  /\ list' = [list EXCEPT ![file[p]] = Flushed(p)]
  /\ buffer' = [buffer EXCEPT ![p] = <<>>]
  /\ at' = [at EXCEPT ![p] = 0]

(* What tmp_read_block() returns of the list s: the n tokens used, or fewer  *)
(* at the end of the file.                                                  *)
Listed(s, n) == SubSeq(s, 1, IF Len(s) < n THEN Len(s) ELSE n)

-----------------------------------------------------------------------------
(* The table.                                                              *)

Table(p) == IF shared[p] THEN items[file[p]] ELSE table[p]

Filled(b) == {t \in Ids : b[t] > 0}

Known(p, t) == t \in Filled(Table(p))

(* grow_learner_hash() doubles the table, and first copies a mapped one.     *)
Grows(p, t) ==
  /\ ~Known(p, t)
  /\ unique[p] >= room[p]
  /\ "H" \in opt[p]
  /\ room[p] < MaxCapacity

Accepts(p, t) == Known(p, t) \/ unique[p] < room[p] \/ Grows(p, t)

(* The contents of the table when token t is looked up, after any growth.    *)
Contents(p, t) == Table(p)

Fault_Replace(b, t, n) == [b EXCEPT ![t] = n]

(* INCREMENT and INCREASE.  How counts saturate is a matter of LearnerHash.  *)
Increase(b, t, n) == [b EXCEPT ![t] = @ + n]

(* n occurrences of a token that the table accepts.  Those of other tokens   *)
(* leave a trace in an empty slot, which is LearnerHash's subject as well.   *)
Count(p, t, n) ==
  LET new == Increase(Contents(p, t), t, n) IN
  /\ Accepts(p, t)
  /\ unique' = [unique EXCEPT ![p] = IF Known(p, t) THEN @ ELSE @ + 1]
  /\ room' = [room EXCEPT ![p] = IF Grows(p, t) THEN 2 * @ ELSE @]
  /\ shared' = [shared EXCEPT ![p] = @ /\ ~Grows(p, t)]
  /\ IF shared[p] /\ ~Grows(p, t)
     THEN items' = [items EXCEPT ![file[p]] = new] /\ UNCHANGED table
     ELSE table' = [table EXCEPT ![p] = new] /\ UNCHANGED items

-----------------------------------------------------------------------------
(* init_learner().                                                         *)

(* No other run is under way, or that does not matter. *)
MayBegin == Overlap \/ \A p \in Learners : ~Running(p)

Options(p) ==
  \E o \in OptionSets :
    /\ opt' = [opt EXCEPT ![p] = o]
    /\ IF "O" \in o
       THEN GoTo(p, "mergeTokens") /\ \E d \in Others : other' = [other EXCEPT ![p] = d]
       ELSE GoTo(p, "learn") /\ UNCHANGED other

(* There is no dump: an empty table and a new token file. *)
BeginEmpty(p) ==
  /\ pc[p] = "off"
  /\ MayBegin
  /\ online = None
  /\ Options(p)
  /\ file' = [file EXCEPT ![p] = TokenFile(p)]
  /\ UNCHANGED <<disk, input, counting, merged, pending,
                 access, at, used, avail, buffer, walked>>

(* read_online_learner_struct(): the learner_t is that of the dump, except   *)
(* that -m gives tmp.mmap_start a new value; then tmp_seek_end().            *)
Load(p) ==
  /\ pc[p] = "off"
  /\ MayBegin
  /\ online # None
  /\ Options(p)
  /\ file' = [file EXCEPT ![p] = online]
  /\ unique' = [unique EXCEPT ![p] = head[online].unique]
  /\ room' = [room EXCEPT ![p] = head[online].room]
  /\ used' = [used EXCEPT ![p] = head[online].used]
  /\ at' = [at EXCEPT ![p] = head[online].used]
  /\ avail' = [avail EXCEPT ![p] = head[online].avail]
  /\ \/ /\ "m" \in opt'[p]
        /\ \E mapped \in IF MapMayFail THEN BOOLEAN ELSE {TRUE} :
             /\ shared' = [shared EXCEPT ![p] = mapped]
             /\ table' = [table EXCEPT ![p] = IF mapped THEN Empty ELSE items[online]]
        /\ \E a \in IF MapMayFail THEN {"map", "stdio"} ELSE {"map"} :
             access' = [access EXCEPT ![p] = a]
     \/ /\ "m" \notin opt'[p]
        /\ table' = [table EXCEPT ![p] = items[online]]
        /\ access' = [access EXCEPT ![p] = IF head[online].address THEN "stale" ELSE "stdio"]
        /\ UNCHANGED shared
  /\ UNCHANGED <<disk, input, merged, pending, buffer, walked>>

(* With -m the learner_t is mapped before the table is, and its address of   *)
(* the table stays if that mapping fails.                                   *)
LoadFaults(p) ==
  /\ pc[p] = "off"
  /\ MayBegin
  /\ online # None
  /\ \E o \in OptionSets : "m" \in o
  /\ MapMayFail
  /\ head[online].hash
  /\ Exit(p, "fault")
  /\ UNCHANGED online

-----------------------------------------------------------------------------
(* merge_learner_struct().                                                 *)

(* init_learner(&dummy, path, 1) clears a member of every used slot, though  *)
(* -m maps the table for reading only; merge_temp_tokens() reads through a   *)
(* stale address of the merged dump.                                        *)
MergeFaults(p) ==
  /\ pc[p] = "mergeTokens"
  /\ merged[p] = 0
  /\ IF "m" \in opt[p] THEN other[p].items # Empty
                       ELSE other[p].address /\ other[p].list # <<>>
  /\ Exit(p, "fault")
  /\ UNCHANGED online

(* With -m and without that fault: the table was not mapped, or is empty.    *)
MayMerge(p) ==
  IF "m" \in opt[p] THEN MapMayFail \/ other[p].items = Empty
                    ELSE ~other[p].address \/ other[p].list = <<>>

NextListed(p) == other[p].list[merged[p] + 1]

Fault_ListNothing(p) == FALSE

(* The tokens of the merged dump that merge_temp_tokens() appends. *)
ToList(p) == ~Known(p, NextListed(p))

MergeToken(p) ==
  /\ pc[p] = "mergeTokens"
  /\ MayMerge(p)
  /\ merged[p] < Len(other[p].list)
  /\ merged' = [merged EXCEPT ![p] = @ + 1]
  /\ \/ ToList(p) /\ WriteToken(p, NextListed(p))
     \/ ~ToList(p) /\ UNCHANGED <<list, tmp>>
  /\ UNCHANGED <<online, head, items, pc, opt, input, counting, other, pending, walked>>

ListFaults(p) ==
  /\ pc[p] = "mergeTokens"
  /\ MayMerge(p)
  /\ merged[p] < Len(other[p].list)
  /\ ToList(p)
  /\ access[p] = "stale"
  /\ Exit(p, "fault")
  /\ UNCHANGED online

TokensMerged(p) ==
  /\ pc[p] = "mergeTokens"
  /\ MayMerge(p)
  /\ merged[p] = Len(other[p].list)
  /\ pending' = [pending EXCEPT ![p] = Filled(other[p].items)]
  /\ GoTo(p, "mergeHashes")
  /\ UNCHANGED <<disk, opt, input, counting, other, merged, tmp, walked>>

(* merge_hashes(), one slot of the merged dump, in no particular order. *)
MergeItem(p, t) ==
  /\ pc[p] = "mergeHashes"
  /\ t \in pending[p]
  /\ pending' = [pending EXCEPT ![p] = @ \ {t}]
  /\ \/ Count(p, t, other[p].items[t])
     \/ ~Accepts(p, t) /\ UNCHANGED <<counting, items>>
  /\ UNCHANGED <<online, head, list, pc, opt, input, other, merged, tmp, walked>>

Merged(p) ==
  /\ pc[p] = "mergeHashes"
  /\ pending[p] = {}
  /\ GoTo(p, "learn")
  /\ UNCHANGED <<disk, opt, input, counting, merging, tmp, walked>>

-----------------------------------------------------------------------------
(* hash_word_and_learn().                                                  *)

MoreInput(p) == pc[p] = "learn" /\ input[p] > 0

ReadInput(p) ==
  /\ MoreInput(p)
  /\ input' = [input EXCEPT ![p] = @ - 1]
  /\ UNCHANGED <<online, head, opt, merging, walked>>

CountKnown(p, t) ==
  /\ ReadInput(p)
  /\ Known(p, t)
  /\ Count(p, t, 1)
  /\ UNCHANGED <<list, pc, tmp>>

CountNew(p, t) ==
  /\ ReadInput(p)
  /\ ~Known(p, t)
  /\ Count(p, t, 1)
  /\ WriteToken(p, t)
  /\ UNCHANGED pc

(* The token is written to an address of the process that left the dump, or  *)
(* tmp_grow() unmaps what this process has there.                           *)
NewFaults(p, t) ==
  /\ MoreInput(p)
  /\ ~Known(p, t)
  /\ Accepts(p, t)
  /\ access[p] = "stale"
  /\ Exit(p, "fault")
  /\ UNCHANGED online

Refuse(p, t) ==
  /\ ReadInput(p)
  /\ ~Accepts(p, t)
  /\ UNCHANGED <<items, list, counting, pc, tmp>>

-----------------------------------------------------------------------------
(* optimize_and_save().                                                    *)

(* The end of the input, a signal, or input that has no more tokens. *)
EndOfInput(p) ==
  /\ pc[p] = "learn"
  /\ unique[p] > 0
  /\ GoTo(p, "dump")
  /\ UNCHANGED <<disk, opt, input, counting, merging, tmp, walked>>

NothingLearned(p) ==
  /\ pc[p] = "learn"
  /\ unique[p] = 0
  /\ Exit(p, "nothing")
  /\ UNCHANGED online

(* The addresses of the process are dumped with the rest of the learner_t,   *)
(* but that of a mapped table is cleared.                                   *)
Struct(p) ==
  Heading(unique[p], room[p], used[p], avail[p], access[p] # "stdio", ~shared[p])

(* write_online_learner_struct() with a mapped table. *)
DumpInPlace(p) ==
  /\ pc[p] = "dump"
  /\ shared[p]
  /\ head' = [head EXCEPT ![file[p]] = Struct(p)]
  /\ GoTo(p, "walk")
  /\ UNCHANGED <<online, items, list, opt, input, counting, merging, tmp, walked>>

(* And with a private one: the tokens are read back from the token list.     *)
(* A dump that turns out too short is given up.                             *)
DumpSeek(p) ==
  /\ pc[p] = "dump"
  /\ ~shared[p]
  /\ SeekStart(p)
  /\ GoTo(p, "copy")
  /\ UNCHANGED <<online, head, items, opt, input, counting, merging,
                 file, access, used, avail, walked>>

DumpCopy(p) ==
  /\ pc[p] = "copy"
  /\ access[p] # "stale"
  /\ head' = [head EXCEPT ![NewDump(p)] = Struct(p)]
  /\ items' = [items EXCEPT ![NewDump(p)] = table[p]]
  /\ list' = [list EXCEPT ![NewDump(p)] = Listed(list[file[p]], used[p])]
  /\ at' = [at EXCEPT ![p] = used[p]]
  /\ GoTo(p, IF used[p] <= Len(list[file[p]]) THEN "rename" ELSE "walk")
  /\ UNCHANGED <<online, opt, input, counting, merging,
                 file, access, used, avail, buffer, walked>>

DumpRename(p) ==
  /\ pc[p] = "rename"
  /\ online' = NewDump(p)
  /\ GoTo(p, "walk")
  /\ UNCHANGED <<head, items, list, opt, input, counting, merging, tmp, walked>>

(* An error in any step of the dump: it is removed, and the run goes on.     *)
DumpFails(p) ==
  /\ pc[p] \in {"dump", "copy", "rename"}
  /\ ~shared[p]
  /\ "m" \in opt[p] => MappedMayFail
  /\ GoTo(p, "walk")
  /\ UNCHANGED <<disk, opt, input, counting, merging, tmp, walked>>

(* recalculate_reference_measure() reads the token list, before the category *)
(* is saved.                                                               *)
Walk(p) ==
  /\ pc[p] = "walk"
  /\ access[p] # "stale"
  /\ SeekStart(p)
  /\ walked' = [walked EXCEPT ![p] = Listed(Flushed(p), used[p])]
  /\ GoTo(p, "save")
  /\ UNCHANGED <<online, head, items, opt, input, counting, merging,
                 file, access, used, avail>>

(* tmp_close() and save_learner(). *)
Save(p) ==
  /\ pc[p] = "save"
  /\ Exit(p, "done")
  /\ UNCHANGED online

ReadFaults(p) ==
  /\ pc[p] \in {"copy", "walk"}
  /\ access[p] = "stale"
  /\ Exit(p, "fault")
  /\ UNCHANGED online

Crash(p) ==
  /\ MayCrash
  /\ Running(p)
  /\ "m" \in opt[p] => MappedMayFail
  /\ Exit(p, "crashed")
  /\ UNCHANGED online

Run(p) ==
  \/ BeginEmpty(p) \/ Load(p) \/ LoadFaults(p)
  \/ MergeFaults(p) \/ MergeToken(p) \/ ListFaults(p) \/ TokensMerged(p) \/ Merged(p)
  \/ \E t \in Ids : MergeItem(p, t) \/ CountKnown(p, t) \/ CountNew(p, t)
                    \/ NewFaults(p, t) \/ Refuse(p, t)
  \/ EndOfInput(p) \/ NothingLearned(p)
  \/ DumpInPlace(p) \/ DumpSeek(p) \/ DumpCopy(p) \/ DumpRename(p) \/ DumpFails(p)
  \/ Walk(p) \/ ReadFaults(p) \/ Save(p)

Next == \E p \in Learners : Run(p) \/ Flush(p) \/ Crash(p)

Spec == Init /\ [][Next]_vars

-----------------------------------------------------------------------------
(* Properties.                                                             *)

InPlace(f) == \E p \in Learners : Running(p) /\ "m" \in opt[p] /\ file[p] = f

(* A dump that nobody is changing in place agrees with itself: the learner_t *)
(* counts the tokens of the table, and its token list has each of them.      *)
DumpConsistent ==
  online # None /\ ~InPlace(online) =>
    /\ head[online].unique = Cardinality(Filled(items[online]))
    /\ head[online].used <= Len(list[online])
    /\ \A t \in Filled(items[online]) :
         \E k \in 1..head[online].used : list[online][k] = t

(* No token of the table lacks its reference weight when the category is     *)
(* saved: the walk through the token list meets each one.                    *)
EveryTokenWeighed ==
  \A p \in Learners : pc[p] = "save" =>
    \A t \in Filled(Table(p)) : \E k \in DOMAIN walked[p] : walked[p][k] = t

Kept == IF online = None THEN Empty ELSE items[online]

Corpus == INSTANCE OnlineCorpus WITH
  Gains <- {1} \cup UNION {{d.items[t] : t \in Ids} : d \in Others},
  Apart <- None,
  corpus <- Kept,
  mine <- [p \in Learners |-> IF Running(p) THEN Table(p) ELSE None]

(* Learning document by document is learning the whole corpus: a run begins  *)
(* with what was kept, adds what it reads and merges, and replaces the kept  *)
(* counts by its own.                                                       *)
LearnsIncrementally == Corpus!Spec
=============================================================================
