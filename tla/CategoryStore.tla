---------------------------- MODULE CategoryStore ----------------------------
(***************************************************************************)
(* Several dbacl processes that learn and read one category at once        *)
(* (dbacl.c, FILE MANAGEMENT FUNCTIONS and optimize_and_save; catfun.c,    *)
(* explicit_load_category).  There is no lock.  A learner keeps its tokens  *)
(* in a temporary file `category.tmp.N', removes it, writes the new         *)
(* category under such a name too and renames it over the old one.  All     *)
(* learners choose N in the same directory, and remove and rename by name.  *)
(*                                                                         *)
(* The contents of a category are Pieces: the first is the header, the      *)
(* others are the digrams and the weights; what matters of a piece is which *)
(* run wrote it.  A process runs once.  The -o memory dump is another       *)
(* file, written by the same protocol, and is not part of this module.      *)
(*                                                                         *)
(* A definition named Fault_... is no part of the model: it is the one that *)
(* follows it with a bug, to see that a property would notice.             *)
(***************************************************************************)
EXTENDS Naturals, Sequences, FiniteSets

CONSTANTS
  Learners,      \* processes running dbacl -l
  Readers,       \* processes running dbacl -c
  Temps,         \* the N of the names category.tmp.N, 0..99 in mytmpfile()
  Pieces,        \* number of pieces of a category file
  Buffer,        \* number of pieces that fit in the stdio buffer
  OptionSets,    \* sets of the options "m", "o", "O", "1" of a learner
  MayCrash,      \* may a learner be killed at any point?
  MayQuit,       \* may a learner receive SIGINT, or meet a fatal error?
  DiskMayFill,   \* may the file system become full?
  Past,          \* what may exist beforehand: "foreign" for a file of another
                 \* kind, "leftovers" for temporary files of crashed runs
  None           \* no file, or no name

Old == "old"        \* who wrote the category that exists beforehand
Tokens == "tokens"  \* the contents of a token file
Zeros == "zeros"    \* the contents ftruncate() gives a longer file

OldFile == <<Old, "category">>
Leftover == <<Old, "tokens">>
TokenFile(p) == <<p, "tokens">>
NewFile(p) == <<p, "category">>
Files == {OldFile, Leftover} \cup (Learners \X {"tokens", "category"})

ASSUME CategoryStoreAssumption ==
  /\ Learners \cap {Old, Tokens, Zeros} = {}
  /\ None \notin Files \cup Temps \cup Learners
  /\ Temps \subseteq Nat /\ IsFiniteSet(Temps)
  /\ Pieces \in Nat \ {0}
  /\ Buffer \in Nat \ {0}
  /\ \A o \in OptionSets : o \subseteq {"m", "o", "O", "1"}
  /\ {MayCrash, MayQuit, DiskMayFill} \subseteq BOOLEAN
  /\ Past \subseteq {"foreign", "leftovers"}

VARIABLES
  cat,       \* the file that the category's name stands for, or None
  temp,      \* the file each name in Temps stands for, or None
  data,      \* the contents of the files
  full,      \* is the file system full?
  pc,        \* where a learner is in optimize_and_save() or save_learner()
  opt,       \* its options
  tmpName,   \* learner->tmp.filename, or None
  cleanup,   \* cleanup.tempfile, or None
  opencat,   \* the category optimize_and_save() has open, or None
  out,       \* the file save_learner() has open, or None
  outName,   \* tempname in save_learner(), or None
  made,      \* pieces of the new category already produced
  rpc,       \* where a reader is in explicit_load_category()
  rfile,     \* the file it has open, or None
  got        \* the pieces it has read

disk == <<cat, temp, data, full>>
names == <<tmpName, cleanup>>
saving == <<opencat, out, outName, made>>
reading == <<rpc, rfile, got>>
vars == <<disk, pc, opt, names, saving, reading>>

Ended == {"saved", "unsaved", "nothing", "quit", "crashed"}
Writers == Learners \cup {Old, Tokens, Zeros}

Init ==
  /\ cat \in {OldFile, None}
  /\ temp \in [Temps -> {None} \cup (IF "leftovers" \in Past THEN {Leftover} ELSE {})]
  /\ \E old \in {[k \in 1..Pieces |-> Old]} \cup
                  (IF "foreign" \in Past THEN {<<Zeros>>} ELSE {}) :
       data = [f \in Files |-> IF f = OldFile THEN old ELSE <<>>]
  /\ full = FALSE
  /\ pc = [p \in Learners |-> "start"]
  /\ opt \in [Learners -> OptionSets]
  /\ tmpName = [p \in Learners |-> None]
  /\ cleanup = [p \in Learners |-> None]
  /\ opencat = [p \in Learners |-> None]
  /\ out = [p \in Learners |-> None]
  /\ outName = [p \in Learners |-> None]
  /\ made = [p \in Learners |-> 0]
  /\ rpc = [r \in Readers |-> "start"]
  /\ rfile = [r \in Readers |-> None]
  /\ got = [r \in Readers |-> <<>>]

-----------------------------------------------------------------------------
(* Files and names.                                                        *)

GoTo(p, l) == pc' = [pc EXCEPT ![p] = l]

Fault_NotExclusive(n) == n \in Temps

Fault_FirstNameOnly(n) == temp[n] = None /\ \A m \in Temps : n <= m

(* mytmpfile() takes the first name that open(O_EXCL) accepts.              *)
FirstFree(n) ==
  /\ n \in Temps
  /\ temp[n] = None
  /\ \A m \in Temps : m < n => temp[m] # None

NoneFree == \A n \in Temps : temp[n] # None

(* unlink() of a name that may no longer exist, or be someone else's.       *)
Unlink(n) == temp' = [m \in Temps |-> IF m = n THEN None ELSE temp[m]]

(* The bytes start like a category, which is all check_magic_write() and    *)
(* the first line of load_category_header() ask.                           *)
HasMagic(f) == data[f] # <<>> /\ data[f][1] \notin {Tokens, Zeros}

(* "the file %s is already used for something" *)
Foreign == cat # None /\ ~HasMagic(cat)

Loadable(f) == HasMagic(f) /\ Len(data[f]) = Pieces

(* tmp_close() *)
CloseTokens(p) ==
  /\ Unlink(tmpName[p])
  /\ cleanup' = [cleanup EXCEPT ![p] = None]
  /\ tmpName' = [tmpName EXCEPT ![p] = None]

-----------------------------------------------------------------------------
(* Learning, up to the moment the new category is ready to be saved.       *)

(* init_learner(): the token file is created, unless the tokens go on in   *)
(* the -o memory dump of an earlier run, or no name is left.               *)
MakeTokenFile(p) ==
  /\ pc[p] = "start"
  /\ GoTo(p, IF "O" \in opt[p] THEN "merge" ELSE "learn")
  /\ \/ \E n \in Temps :
          /\ FirstFree(n)
          /\ temp' = [temp EXCEPT ![n] = TokenFile(p)]
          /\ data' = [data EXCEPT ![TokenFile(p)] = <<Tokens>>]
          /\ tmpName' = [tmpName EXCEPT ![p] = n]
          /\ cleanup' = [cleanup EXCEPT ![p] = n]
     \/ /\ NoneFree \/ "o" \in opt[p]
        /\ UNCHANGED <<temp, data, names>>
  /\ UNCHANGED <<cat, full, opt, saving, reading>>

(* merge_learner_struct() of an existing dump: free_learner(&dummy) ends    *)
(* with cleanup_tempfiles(), which removes this process's own token file.   *)
Merge(p) ==
  /\ pc[p] = "merge"
  /\ GoTo(p, "learn")
  /\ Unlink(cleanup[p])
  /\ cleanup' = [cleanup EXCEPT ![p] = None]
  /\ UNCHANGED <<cat, data, full, opt, tmpName, saving, reading>>

(* errormsg(E_FATAL) while a dump or the input is read, or SIGINT noticed  *)
(* by process_pending_signal() at a line of input or while minimising.     *)
Quit(p) ==
  /\ MayQuit
  /\ pc[p] \in {"merge", "learn", "minimise"}
  /\ GoTo(p, "quit")
  /\ Unlink(cleanup[p])
  /\ cleanup' = [cleanup EXCEPT ![p] = None]
  /\ UNCHANGED <<cat, data, full, opt, tmpName, saving, reading>>

(* optimize_and_save() when no token was learned. *)
NothingLearned(p) ==
  /\ pc[p] = "learn"
  /\ GoTo(p, "nothing")
  /\ CloseTokens(p)
  /\ UNCHANGED <<cat, data, full, opt, saving, reading>>

(* optimize_and_save() up to minimize_learner_divergence(): with -1 the old *)
(* category is loaded, and stays open.                                      *)
Prepare(p) ==
  /\ pc[p] = "learn"
  /\ GoTo(p, "minimise")
  /\ opencat' = [opencat EXCEPT ![p] =
       IF "1" \in opt[p] /\ cat # None /\ Loadable(cat) THEN cat ELSE None]
  /\ UNCHANGED <<disk, opt, names, out, outName, made, reading>>

(* The minimisation is over, and the token file goes.                      *)
(* fast_partial_save_learner() is taken if the open category is mapped and *)
(* of the same shape as the new one.                                       *)
FinishMinimising(p) ==
  /\ pc[p] = "minimise"
  /\ CloseTokens(p)
  /\ \/ GoTo(p, "check")
     \/ /\ opencat[p] # None /\ "m" \in opt[p]
        /\ GoTo(p, "overwrite")
  /\ UNCHANGED <<cat, data, full, opt, saving, reading>>

-----------------------------------------------------------------------------
(* Saving over a memory map.                                               *)

Fault_OverwriteShort(p) ==
  /\ pc[p] = "overwrite"
  /\ data' = [data EXCEPT ![opencat[p]][made[p] + 1] = p]
  /\ made' = [made EXCEPT ![p] = @ + 1]
  /\ GoTo(p, IF made'[p] >= Pieces - 1 THEN "saved" ELSE "overwrite")
  /\ UNCHANGED <<cat, temp, full, opt, names, opencat, out, outName, reading>>

(* fast_partial_save_learner(): the header, then the arrays.               *)
OverwritePiece(p) ==
  /\ pc[p] = "overwrite"
  /\ data' = [data EXCEPT ![opencat[p]][made[p] + 1] = p]
  /\ made' = [made EXCEPT ![p] = @ + 1]
  /\ GoTo(p, IF made'[p] = Pieces THEN "saved" ELSE "overwrite")
  /\ UNCHANGED <<cat, temp, full, opt, names, opencat, out, outName, reading>>

(* save_learner() begins: it exits if the file is not a category; with -m  *)
(* and -o it tries to write an existing one in place.                      *)
Check(p) ==
  /\ pc[p] = "check"
  /\ \/ /\ Foreign
        /\ GoTo(p, "unsaved")
        /\ UNCHANGED <<data, out>>
     \/ /\ cat # None /\ ~Foreign /\ {"m", "o"} \subseteq opt[p]
        /\ GoTo(p, "map")
        /\ out' = [out EXCEPT ![p] = cat]
        /\ data' = [data EXCEPT ![cat] =
             [k \in 1..Pieces |-> IF k <= Len(@) THEN @[k] ELSE Zeros]]
     \/ /\ cat = None /\ {"m", "o"} \subseteq opt[p]
        /\ GoTo(p, "discard")
        /\ UNCHANGED <<data, out>>
     \/ /\ ~Foreign
        /\ ~({"m", "o"} \subseteq opt[p])
        /\ GoTo(p, "create")
        /\ UNCHANGED <<data, out>>
  /\ UNCHANGED <<cat, temp, full, opt, names, opencat, outName, made, reading>>

(* The arrays are stored through the map ...                               *)
MapPiece(p) ==
  /\ pc[p] = "map"
  /\ made[p] < Pieces - 1
  /\ data' = [data EXCEPT ![out[p]][made[p] + 2] = p]
  /\ made' = [made EXCEPT ![p] = @ + 1]
  /\ UNCHANGED <<cat, temp, full, pc, opt, names, opencat, out, outName, reading>>

(* ... and the header is written when fclose() flushes it, either at the    *)
(* end or because the file could not be mapped.                            *)
MapHeader(p) ==
  /\ pc[p] = "map"
  /\ \/ made[p] = Pieces - 1 /\ GoTo(p, "saved")
     \/ made[p] = 0 /\ GoTo(p, "discard")
  /\ data' = [data EXCEPT ![out[p]][1] = p]
  /\ UNCHANGED <<cat, temp, full, opt, names, saving, reading>>

(* "oh oh, file is corrupt. We delete it and try again"                     *)
Discard(p) ==
  /\ pc[p] = "discard"
  /\ GoTo(p, "create")
  /\ cat' = None
  /\ UNCHANGED <<temp, data, full, opt, names, saving, reading>>

-----------------------------------------------------------------------------
(* Saving by way of a temporary file.                                      *)

Create(p) ==
  /\ pc[p] = "create"
  /\ \/ \E n \in Temps :
          /\ FirstFree(n)
          /\ temp' = [temp EXCEPT ![n] = NewFile(p)]
          /\ out' = [out EXCEPT ![p] = NewFile(p)]
          /\ outName' = [outName EXCEPT ![p] = n]
          /\ GoTo(p, "write")
     \/ /\ NoneFree
        /\ GoTo(p, "unsaved")
        /\ UNCHANGED <<temp, out, outName>>
  /\ UNCHANGED <<cat, data, full, opt, names, opencat, made, reading>>

Flushed(p) == Len(data[NewFile(p)])

(* The first k pieces of p's new file are in the file system. *)
Flush(p, k) ==
  data' = [data EXCEPT ![NewFile(p)] = [i \in 1..k |-> p]]

Fault_WriteOneMore(p) ==
  /\ pc[p] = "write"
  /\ made[p] <= Pieces
  /\ made' = [made EXCEPT ![p] = @ + 1]
  /\ UNCHANGED <<disk, pc, opt, names, opencat, out, outName, reading>>

(* A piece goes to the stdio buffer.  When that is full it is flushed      *)
(* first; on a full disk the loop around fwrite() tries for ever.          *)
WritePiece(p) ==
  /\ pc[p] = "write"
  /\ made[p] < Pieces
  /\ made' = [made EXCEPT ![p] = @ + 1]
  /\ IF made[p] - Flushed(p) < Buffer
     THEN UNCHANGED data
     ELSE ~full /\ Flush(p, made[p])
  /\ UNCHANGED <<cat, temp, full, pc, opt, names, opencat, out, outName, reading>>

(* A failure to print the header is noticed: the file is removed. *)
HeaderFails(p) ==
  /\ pc[p] = "write"
  /\ made[p] = 0
  /\ full
  /\ Unlink(outName[p])
  /\ GoTo(p, "unsaved")
  /\ UNCHANGED <<cat, data, full, opt, names, saving, reading>>

(* fclose() flushes what it can, and its result is not looked at. *)
Close(p) ==
  /\ pc[p] = "write"
  /\ made[p] = Pieces
  /\ \E k \in Flushed(p)..Pieces :
       /\ k < Pieces => full
       /\ Flush(p, k)
  /\ GoTo(p, "rename")
  /\ UNCHANGED <<cat, temp, full, opt, names, saving, reading>>

Fault_PretendRename(p) ==
  /\ pc[p] = "rename"
  /\ GoTo(p, "saved")
  /\ Unlink(outName[p])
  /\ UNCHANGED <<cat, data, full, opt, names, saving, reading>>

(* myrename() by name; it fails if the name is gone, and the name is then   *)
(* removed.                                                                *)
Rename(p) ==
  /\ pc[p] = "rename"
  /\ IF temp[outName[p]] # None
     THEN cat' = temp[outName[p]] /\ GoTo(p, "saved")
     ELSE UNCHANGED cat /\ GoTo(p, "unsaved")
  /\ Unlink(outName[p])
  /\ UNCHANGED <<data, full, opt, names, saving, reading>>

-----------------------------------------------------------------------------
Crash(p) ==
  /\ MayCrash
  /\ pc[p] \notin Ended
  /\ GoTo(p, "crashed")
  /\ UNCHANGED <<disk, opt, names, saving, reading>>

Fill ==
  /\ DiskMayFill
  /\ ~full
  /\ full' = TRUE
  /\ UNCHANGED <<cat, temp, data, pc, opt, names, saving, reading>>

(* explicit_load_category() *)
Open(r) ==
  /\ rpc[r] = "start"
  /\ rfile' = [rfile EXCEPT ![r] = cat]
  /\ rpc' = [rpc EXCEPT ![r] = IF cat = None THEN "missing" ELSE "read"]
  /\ UNCHANGED <<disk, pc, opt, names, saving, got>>

Read(r) ==
  /\ rpc[r] = "read"
  /\ LET d == data[rfile[r]]
         k == Len(got[r]) + 1
     IN  IF k <= Len(d) /\ (k = 1 => HasMagic(rfile[r]))
         THEN /\ got' = [got EXCEPT ![r] = Append(@, d[k])]
              /\ rpc' = [rpc EXCEPT ![r] = IF k = Pieces THEN "loaded" ELSE "read"]
         ELSE /\ rpc' = [rpc EXCEPT ![r] = "corrupt"]
              /\ UNCHANGED got
  /\ UNCHANGED <<disk, pc, opt, names, saving, rfile>>

-----------------------------------------------------------------------------
Learn(p) ==
  \/ MakeTokenFile(p) \/ Merge(p) \/ Quit(p) \/ NothingLearned(p)
  \/ Prepare(p) \/ FinishMinimising(p)

Save(p) ==
  \/ OverwritePiece(p)
  \/ Check(p) \/ MapPiece(p) \/ MapHeader(p) \/ Discard(p)
  \/ Create(p) \/ WritePiece(p) \/ HeaderFails(p) \/ Close(p) \/ Rename(p)

Next ==
  \/ \E p \in Learners : Learn(p) \/ Save(p) \/ Crash(p)
  \/ Fill
  \/ \E r \in Readers : Open(r) \/ Read(r)

Spec == Init /\ [][Next]_vars

(* Every process is scheduled, and waits for no other. *)
FairSpec ==
  /\ Spec
  /\ \A p \in Learners : WF_vars(Learn(p) \/ Save(p))
  /\ \A r \in Readers : WF_vars(Open(r) \/ Read(r))

-----------------------------------------------------------------------------
TypeOK ==
  /\ cat \in Files \cup {None}
  /\ temp \in [Temps -> Files \cup {None}]
  /\ data \in [Files -> Seq(Writers)]
  /\ \A f \in Files : Len(data[f]) <= Pieces
  /\ full \in BOOLEAN
  /\ pc \in [Learners -> Ended \cup
       {"start", "merge", "learn", "minimise", "overwrite", "check", "map",
        "discard", "create", "write", "rename"}]
  /\ opt \in [Learners -> OptionSets]
  /\ {tmpName, cleanup, outName} \subseteq [Learners -> Temps \cup {None}]
  /\ {opencat, out} \subseteq [Learners -> Files \cup {None}]
  /\ made \in [Learners -> 0..Pieces]
  /\ rpc \in [Readers -> {"start", "read", "loaded", "corrupt", "missing"}]
  /\ rfile \in [Readers -> Files \cup {None}]
  /\ got \in [Readers -> Seq(Writers)]

Whole(f) == Len(data[f]) = Pieces /\ \A k \in 1..Pieces : data[f][k] = data[f][1]

InPlace(p) == pc[p] \in {"overwrite", "map", "discard"}

(* A temporary name means to a learner what it meant when it was created:  *)
(* nobody else can remove or reuse it before its owner is done with it.    *)
TempsHeld ==
  \A p \in Learners :
    /\ tmpName[p] # None /\ pc[p] # "quit" => temp[tmpName[p]] = TokenFile(p)
    /\ pc[p] \in {"write", "rename"} => temp[outName[p]] = NewFile(p)

(* "categories can never be corrupted, no matter how many processes try to *)
(* simultaneously learn or classify" (the manual, MULTIPLE PROCESSES):      *)
(* while nobody writes in place, and the file system has space, the         *)
(* category file is one run's work.                                        *)
CategoryWhole ==
  (cat # None /\ ~Foreign /\ ~full /\ \A p \in Learners : ~InPlace(p)) => Whole(cat)

(* "valid categories are available for classification at any time": a load *)
(* fails only if there was no category.                                    *)
NoCorruptLoad == \A r \in Readers : rpc[r] # "corrupt"

(* Every run comes to an end, on a file system with space. *)
EveryRunEnds ==
  /\ \A p \in Learners : <>(pc[p] \in Ended)
  /\ \A r \in Readers : <>(rpc[r] \in {"loaded", "corrupt", "missing"})

-----------------------------------------------------------------------------
(* The category file as an atomic register.                                *)

WriterOf(f) == IF f = None THEN None ELSE data[f][1]

Torn(s) == \E k \in DOMAIN s : s[k] # s[1]

Atomic == INSTANCE AtomicCategory WITH
  current <- WriterOf(cat),
  published <- {p \in Learners : pc[p] = "saved"},
  opened <- {r \in Readers : rpc[r] # "start"},
  snap <- [r \in Readers |-> WriterOf(rfile[r])],
  loaded <- [r \in Readers |->
    CASE rpc[r] = "loaded" -> IF Torn(got[r]) THEN Zeros ELSE got[r][1]
      [] rpc[r] = "corrupt" -> Zeros
      [] OTHER -> None]

(* Saving is atomic: only a rename changes what the name stands for, a      *)
(* reader loads what was current when it opened the file, and a run that    *)
(* fails, quits or crashes changes nothing.                                *)
SavesAtomically == Atomic!Spec
=============================================================================
