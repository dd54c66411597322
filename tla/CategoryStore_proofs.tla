------------------------- MODULE CategoryStore_proofs -------------------------
(***************************************************************************)
(* Proofs about CategoryStore, for any number of learners, readers,        *)
(* temporary names and pieces.                                             *)
(***************************************************************************)
EXTENDS CategoryStore, TLAPS

(* How far a save has come, and that a reader has a file while it reads. *)
Progress ==
  /\ \A p \in Learners :
       /\ pc[p] \in {"start", "merge", "learn", "minimise", "check",
                     "discard", "create"} => made[p] = 0
       /\ pc[p] = "overwrite" => made[p] < Pieces
       /\ pc[p] = "map" => made[p] < Pieces
  /\ \A r \in Readers : rpc[r] = "read" => rfile[r] # None

Typed == TypeOK /\ Progress

LEMMA TypedInit == Init => Typed
<1> SUFFICES ASSUME Init PROVE Typed
  OBVIOUS
<1>1. Pieces \in Nat \ {0}
  BY CategoryStoreAssumption
<1>2. OldFile \in Files /\ Leftover \in Files
  BY DEF Files
<1>3. /\ [k \in 1..Pieces |-> Old] \in Seq(Writers)
      /\ Len([k \in 1..Pieces |-> Old]) = Pieces
  BY <1>1 DEF Writers
<1>4. <<Zeros>> \in Seq(Writers) /\ Len(<<Zeros>>) = 1
  BY DEF Writers
<1>5. data \in [Files -> Seq(Writers)] /\ \A f \in Files : Len(data[f]) <= Pieces
  <2>1. PICK old \in {[k \in 1..Pieces |-> Old]} \cup
                  (IF "foreign" \in Past THEN {<<Zeros>>} ELSE {}) :
       data = [f \in Files |-> IF f = OldFile THEN old ELSE <<>>]
    BY DEF Init
  <2>2. old = [k \in 1..Pieces |-> Old] \/ old = <<Zeros>>
    BY <2>1
  <2>3. CASE old = [k \in 1..Pieces |-> Old]
    BY <1>1, <1>3, <2>1, <2>3
  <2>4. CASE old = <<Zeros>>
    BY <1>1, <1>4, <2>1, <2>4
  <2> QED
    BY <2>2, <2>3, <2>4
<1>6. cat \in Files \cup {None} /\ temp \in [Temps -> Files \cup {None}]
  BY <1>2 DEF Init
<1>7. /\ full \in BOOLEAN
      /\ pc = [p \in Learners |-> "start"]
      /\ opt \in [Learners -> OptionSets]
      /\ {tmpName, cleanup, outName} \subseteq [Learners -> Temps \cup {None}]
      /\ {opencat, out} \subseteq [Learners -> Files \cup {None}]
      /\ made = [p \in Learners |-> 0]
  BY DEF Init
<1>8. /\ rpc = [r \in Readers |-> "start"]
      /\ rfile \in [Readers -> Files \cup {None}]
      /\ got \in [Readers -> Seq(Writers)]
  BY DEF Init
<1>9. TypeOK
  BY <1>1, <1>5, <1>6, <1>7, <1>8 DEF TypeOK
<1> QED
  BY <1>1, <1>7, <1>8, <1>9 DEF Typed, Progress

-----------------------------------------------------------------------------
(* What the steps of a learner have in common.                             *)

DiskType ==
  /\ cat \in Files \cup {None}
  /\ temp \in [Temps -> Files \cup {None}]
  /\ data \in [Files -> Seq(Writers)]
  /\ \A f \in Files : Len(data[f]) <= Pieces
  /\ full \in BOOLEAN

NamesType == {tmpName, cleanup} \subseteq [Learners -> Temps \cup {None}]

SavingType ==
  /\ outName \in [Learners -> Temps \cup {None}]
  /\ {opencat, out} \subseteq [Learners -> Files \cup {None}]
  /\ made \in [Learners -> 0..Pieces]

Labels ==
  Ended \cup {"start", "merge", "learn", "minimise", "overwrite", "check",
             "map", "discard", "create", "write", "rename"}

(* How many pieces a learner may have made at label l. *)
MadeAt(l, n) ==
  /\ l \in {"start", "merge", "learn", "minimise", "check",
            "discard", "create"} => n = 0
  /\ l \in {"overwrite", "map"} => n < Pieces

LEMMA TypedParts ==
  ASSUME Typed
  PROVE  /\ DiskType /\ NamesType /\ SavingType
         /\ pc \in [Learners -> Labels]
         /\ \A p \in Learners : MadeAt(pc[p], made[p])
  BY DEF Typed, TypeOK, Progress, DiskType, NamesType, SavingType, Labels, MadeAt

(* A step of learner p to label l keeps the types if what it writes does. *)
LEMMA LearnerStep ==
  ASSUME Typed, NEW p \in Learners, NEW l \in Labels,
         GoTo(p, l), UNCHANGED <<opt, reading>>,
         DiskType', NamesType', SavingType',
         \A q \in Learners \ {p} : made'[q] = made[q],
         MadeAt(l, made'[p])
  PROVE  Typed'
<1>1. pc' \in [Learners -> Labels] /\ \A q \in Learners \ {p} : pc'[q] = pc[q]
  BY TypedParts DEF GoTo
<1>2. pc'[p] = l
  BY TypedParts DEF GoTo
<1>3. TypeOK'
  BY <1>1 DEF Typed, TypeOK, DiskType, NamesType, SavingType, Labels, reading
<1>4. \A q \in Learners : MadeAt(pc'[q], made'[q])
  BY <1>1, <1>2, TypedParts
<1>5. Progress'
  BY <1>4 DEF Typed, Progress, MadeAt, reading
<1> QED
  BY <1>3, <1>5 DEF Typed

LEMMA UnlinkType ==
  ASSUME DiskType, NEW n, Unlink(n), UNCHANGED <<cat, data, full>>
  PROVE  DiskType'
  BY DEF DiskType, Unlink

LEMMA CloseTokensType ==
  ASSUME DiskType, NamesType, NEW p \in Learners, CloseTokens(p),
         UNCHANGED <<cat, data, full>>
  PROVE  DiskType' /\ NamesType'
<1>1. DiskType'
  BY UnlinkType DEF CloseTokens
<1> QED
  BY <1>1 DEF NamesType, CloseTokens

LEMMA PiecesAssumption == Pieces \in Nat \ {0}
  BY CategoryStoreAssumption

(* Stamps of one run make the contents of a file. *)
LEMMA StampsType ==
  ASSUME NEW p \in Writers, NEW k \in Nat
  PROVE  /\ [i \in 1..k |-> p] \in Seq(Writers)
         /\ Len([i \in 1..k |-> p]) = k
  OBVIOUS

-----------------------------------------------------------------------------
(* One lemma per action: it keeps the types. *)

LEMMA MakeTokenFileType ==
  ASSUME Typed, NEW p \in Learners, MakeTokenFile(p)
  PROVE  Typed'
<1>1. TokenFile(p) \in Files /\ <<Tokens>> \in Seq(Writers) /\ Len(<<Tokens>>) = 1
  BY DEF TokenFile, Files, Writers
<1>2. DiskType /\ NamesType /\ SavingType /\ pc \in [Learners -> Labels]
  BY TypedParts
<1>3. DiskType' /\ NamesType'
  <2>1. CASE UNCHANGED <<temp, data, names>>
    BY <1>2, <2>1 DEF MakeTokenFile, DiskType, NamesType, names
  <2>2. ASSUME NEW n \in Temps,
               temp' = [temp EXCEPT ![n] = TokenFile(p)],
               data' = [data EXCEPT ![TokenFile(p)] = <<Tokens>>],
               tmpName' = [tmpName EXCEPT ![p] = n],
               cleanup' = [cleanup EXCEPT ![p] = n]
        PROVE  DiskType' /\ NamesType'
    <3>1. NamesType'
      BY <1>2, <2>2 DEF NamesType
    <3>2. temp' \in [Temps -> Files \cup {None}]
      BY <1>1, <1>2, <2>2 DEF DiskType
    <3>3. data' \in [Files -> Seq(Writers)] /\ \A f \in Files : Len(data'[f]) <= Pieces
      BY <1>1, <1>2, <2>2, PiecesAssumption DEF DiskType
    <3> QED
      BY <1>2, <3>1, <3>2, <3>3 DEF DiskType, MakeTokenFile
  <2> QED
    BY <2>1, <2>2 DEF MakeTokenFile, FirstFree
<1>4. MadeAt("merge", made[p]) /\ MadeAt("learn", made[p])
  BY TypedParts DEF MakeTokenFile, MadeAt
<1>5. SavingType' /\ UNCHANGED made
  BY <1>2 DEF MakeTokenFile, SavingType, saving
<1>6. PICK l \in {"merge", "learn"} : GoTo(p, l)
  BY DEF MakeTokenFile
<1> QED
  BY <1>3, <1>4, <1>5, <1>6, LearnerStep DEF MakeTokenFile, Labels

LEMMA LearningType ==
  ASSUME Typed, NEW p \in Learners,
         Merge(p) \/ Quit(p) \/ NothingLearned(p) \/ Prepare(p) \/ FinishMinimising(p)
  PROVE  Typed'
<1>1. DiskType /\ NamesType /\ SavingType /\ MadeAt(pc[p], made[p])
  BY TypedParts
<1>2. CASE Merge(p)
  <2>1. DiskType' /\ NamesType' /\ SavingType' /\ UNCHANGED made
    BY <1>1, <1>2, UnlinkType DEF Merge, NamesType, SavingType, saving
  <2>2. MadeAt("learn", made'[p])
    BY <1>1, <1>2, <2>1 DEF Merge, MadeAt
  <2> QED
    BY <1>2, <2>1, <2>2, LearnerStep DEF Merge, Labels
<1>3. CASE Quit(p)
  <2>1. DiskType' /\ NamesType' /\ SavingType' /\ UNCHANGED made
    BY <1>1, <1>3, UnlinkType DEF Quit, NamesType, SavingType, saving
  <2> QED
    BY <1>3, <2>1, LearnerStep DEF Quit, Labels, Ended, MadeAt
<1>4. CASE NothingLearned(p)
  <2>1. DiskType' /\ NamesType' /\ SavingType' /\ UNCHANGED made
    BY <1>1, <1>4, CloseTokensType DEF NothingLearned, SavingType, saving
  <2> QED
    BY <1>4, <2>1, LearnerStep DEF NothingLearned, Labels, Ended, MadeAt
<1>5. CASE Prepare(p)
  <2>1. DiskType' /\ NamesType' /\ SavingType' /\ UNCHANGED made
    BY <1>1, <1>5 DEF Prepare, DiskType, NamesType, SavingType, disk, names
  <2>2. MadeAt("minimise", made'[p])
    BY <1>1, <1>5, <2>1 DEF Prepare, MadeAt
  <2> QED
    BY <1>5, <2>1, <2>2, LearnerStep DEF Prepare, Labels
<1>6. CASE FinishMinimising(p)
  <2>1. DiskType' /\ NamesType' /\ SavingType' /\ UNCHANGED made
    BY <1>1, <1>6, CloseTokensType DEF FinishMinimising, SavingType, saving
  <2>2. MadeAt("check", made'[p]) /\ MadeAt("overwrite", made'[p])
    BY <1>1, <1>6, <2>1, PiecesAssumption DEF FinishMinimising, MadeAt
  <2>3. PICK l \in {"check", "overwrite"} : GoTo(p, l)
    BY <1>6 DEF FinishMinimising
  <2> QED
    BY <1>6, <2>1, <2>2, <2>3, LearnerStep DEF FinishMinimising, Labels
<1> QED
  BY <1>2, <1>3, <1>4, <1>5, <1>6

(* A piece stamped in place leaves a file a sequence of the same length.    *)
LEMMA StampInPlace ==
  ASSUME DiskType, NEW f, NEW k, NEW p \in Learners,
         data' = [data EXCEPT ![f][k] = p], UNCHANGED <<cat, temp, full>>
  PROVE  DiskType'
<1>1. CASE f \notin Files
  BY <1>1 DEF DiskType
<1>2. CASE f \in Files
  <2> DEFINE new == [data[f] EXCEPT ![k] = p]
  <2>1. data[f] \in Seq(Writers) /\ Len(data[f]) <= Pieces
    BY <1>2 DEF DiskType
  <2>2. new \in Seq(Writers) /\ Len(new) = Len(data[f])
    <3>1. Len(data[f]) \in Nat /\ data[f] \in [1..Len(data[f]) -> Writers]
      BY <2>1
    <3>2. new \in [1..Len(data[f]) -> Writers]
      BY <3>1 DEF Writers
    <3> QED
      BY <3>1, <3>2
  <2>3. data' = [data EXCEPT ![f] = new]
    OBVIOUS
  <2> HIDE DEF new
  <2>4. data' \in [Files -> Seq(Writers)] /\ \A g \in Files : Len(data'[g]) <= Pieces
    BY <1>2, <2>1, <2>2, <2>3 DEF DiskType
  <2> QED
    BY <2>4 DEF DiskType
<1> QED
  BY <1>1, <1>2

LEMMA FlushType ==
  ASSUME DiskType, NEW p \in Learners, NEW k \in 0..Pieces,
         Flush(p, k), UNCHANGED <<cat, temp, full>>
  PROVE  DiskType'
<1>1. NewFile(p) \in Files /\ p \in Writers
  BY DEF NewFile, Files, Writers
<1>2. [i \in 1..k |-> p] \in Seq(Writers) /\ Len([i \in 1..k |-> p]) = k
  BY <1>1, StampsType
<1> QED
  BY <1>1, <1>2, PiecesAssumption DEF DiskType, Flush

LEMMA CheckType ==
  ASSUME Typed, NEW p \in Learners, Check(p)
  PROVE  Typed'
<1>1. DiskType /\ NamesType /\ SavingType /\ MadeAt(pc[p], made[p])
  BY TypedParts
<1>2. made[p] = 0 /\ UNCHANGED made /\ NamesType'
  BY <1>1 DEF Check, MadeAt, NamesType, names
<1>3. \A l \in {"unsaved", "map", "discard", "create"} : MadeAt(l, made'[p])
  BY <1>2, PiecesAssumption DEF MadeAt
<1>4. PICK l \in {"unsaved", "map", "discard", "create"} : GoTo(p, l)
  BY DEF Check
<1>5. DiskType' /\ SavingType'
  <2>1. CASE UNCHANGED <<data, out>>
    BY <1>1, <2>1 DEF Check, DiskType, SavingType
  <2>2. CASE /\ cat # None
             /\ out' = [out EXCEPT ![p] = cat]
             /\ data' = [data EXCEPT ![cat] =
                  [k \in 1..Pieces |-> IF k <= Len(@) THEN @[k] ELSE Zeros]]
    <3> DEFINE new == [k \in 1..Pieces |->
                        IF k <= Len(data[cat]) THEN data[cat][k] ELSE Zeros]
    <3>1. cat \in Files /\ data[cat] \in Seq(Writers)
      BY <1>1, <2>2 DEF DiskType
    <3>2. \A k \in 1..Pieces : new[k] \in Writers
      BY <3>1 DEF Writers
    <3>3. new \in Seq(Writers) /\ Len(new) = Pieces
      BY <3>2, PiecesAssumption
    <3>4. data' = [data EXCEPT ![cat] = new]
      BY <2>2
    <3> HIDE DEF new
    <3>5. data' \in [Files -> Seq(Writers)] /\ \A g \in Files : Len(data'[g]) <= Pieces
      BY <1>1, <3>1, <3>3, <3>4, PiecesAssumption DEF DiskType
    <3> QED
      <4>1. UNCHANGED <<cat, temp, full, opencat, outName, made>>
        BY DEF Check
      <4>2. DiskType'
        BY <1>1, <3>5, <4>1 DEF DiskType
      <4>3. out' \in [Learners -> Files \cup {None}]
        BY <1>1, <2>2, <3>1 DEF SavingType
      <4> QED
        BY <1>1, <4>1, <4>2, <4>3 DEF SavingType
  <2> QED
    BY <2>1, <2>2 DEF Check
<1> QED
  BY <1>2, <1>3, <1>4, <1>5, LearnerStep DEF Check, Labels, Ended

LEMMA InPlaceType ==
  ASSUME Typed, NEW p \in Learners,
         OverwritePiece(p) \/ MapPiece(p) \/ MapHeader(p) \/ Discard(p)
  PROVE  Typed'
<1>1. /\ DiskType /\ NamesType /\ SavingType /\ MadeAt(pc[p], made[p])
      /\ pc \in [Learners -> Labels]
  BY TypedParts
<1>2. CASE OverwritePiece(p)
  <2>1. made[p] \in 0..Pieces /\ made[p] < Pieces
    BY <1>1, <1>2 DEF OverwritePiece, MadeAt, SavingType
  <2>2. made' = [made EXCEPT ![p] = made[p] + 1] /\ made[p] + 1 \in 0..Pieces
    BY <1>2, <2>1, PiecesAssumption DEF OverwritePiece
  <2>3. DiskType'
    BY <1>1, <1>2, StampInPlace DEF OverwritePiece
  <2>4. NamesType' /\ SavingType' /\ made'[p] = made[p] + 1
    BY <1>1, <1>2, <2>2 DEF OverwritePiece, NamesType, SavingType, names
  <2>5. \/ GoTo(p, "saved")
        \/ GoTo(p, "overwrite") /\ MadeAt("overwrite", made'[p])
    BY <1>2, <2>1, <2>4, PiecesAssumption DEF OverwritePiece, MadeAt
  <2>6. \A q \in Learners \ {p} : made'[q] = made[q]
    BY <1>1, <2>2 DEF SavingType
  <2>7. MadeAt("saved", made'[p]) /\ {"saved", "overwrite"} \subseteq Labels
    BY DEF MadeAt, Labels, Ended
  <2>8. UNCHANGED <<opt, reading>>
    BY <1>2 DEF OverwritePiece
  <2> QED
    BY <2>3, <2>4, <2>5, <2>6, <2>7, <2>8, LearnerStep
<1>3. CASE MapPiece(p)
  <2>1. made' = [made EXCEPT ![p] = made[p] + 1] /\ made[p] + 1 \in 0..(Pieces - 1)
    BY <1>1, <1>3, PiecesAssumption DEF MapPiece, SavingType
  <2>2. DiskType'
    BY <1>1, <1>3, StampInPlace DEF MapPiece
  <2>3. NamesType' /\ SavingType' /\ MadeAt("map", made'[p])
    BY <1>1, <1>3, <2>1, PiecesAssumption DEF MapPiece, NamesType, SavingType, MadeAt, names
  <2>4. GoTo(p, "map")
    BY <1>1, <1>3 DEF MapPiece, GoTo
  <2>5. \A q \in Learners \ {p} : made'[q] = made[q]
    BY <1>1, <2>1 DEF SavingType
  <2> QED
    BY <1>3, <2>2, <2>3, <2>4, <2>5, LearnerStep DEF MapPiece, Labels
<1>4. CASE MapHeader(p)
  <2>1. DiskType'
    BY <1>1, <1>4, StampInPlace DEF MapHeader
  <2>2. NamesType' /\ SavingType' /\ UNCHANGED made
    BY <1>1, <1>4 DEF MapHeader, NamesType, SavingType, names, saving
  <2>3. \/ GoTo(p, "saved") /\ MadeAt("saved", made'[p])
        \/ GoTo(p, "discard") /\ MadeAt("discard", made'[p])
    BY <1>4, <2>2 DEF MapHeader, MadeAt
  <2>4. {"saved", "discard"} \subseteq Labels /\ UNCHANGED <<opt, reading>>
    BY <1>4 DEF MapHeader, Labels, Ended
  <2> QED
    BY <2>1, <2>2, <2>3, <2>4, LearnerStep
<1>5. CASE Discard(p)
  <2>1. DiskType' /\ NamesType' /\ SavingType' /\ UNCHANGED made
    BY <1>1, <1>5 DEF Discard, DiskType, NamesType, SavingType, names, saving
  <2>2. MadeAt("create", made'[p])
    BY <1>1, <1>5, <2>1 DEF Discard, MadeAt
  <2> QED
    BY <1>5, <2>1, <2>2, LearnerStep DEF Discard, Labels
<1> QED
  BY <1>2, <1>3, <1>4, <1>5

(* A learner that writes a new file has a name for it. *)
Named ==
  /\ pc \in [Learners -> Labels]
  /\ outName \in [Learners -> Temps \cup {None}]
  /\ \A p \in Learners : pc[p] \in {"write", "rename"} => outName[p] \in Temps

LEMMA NamedInductive ==
  ASSUME Named, [Next]_vars
  PROVE  Named'
<1>1. CASE UNCHANGED vars
  BY <1>1 DEF vars, saving, Named, Labels, Ended
<1>2. ASSUME NEW p \in Learners, Learn(p) \/ Crash(p)
      PROVE  Named'
  BY <1>2 DEF Learn, MakeTokenFile, Merge, Quit, NothingLearned, Prepare,
    FinishMinimising, Crash, GoTo, saving, Named, Labels, Ended
<1>3. ASSUME NEW p \in Learners, Save(p)
      PROVE  Named'
  <2>1. CASE Create(p)
    BY <2>1 DEF Create, GoTo, FirstFree, Named, Labels, Ended
  <2>2. CASE ~Create(p)
    BY <1>3, <2>2 DEF Save, OverwritePiece, Check, MapPiece, MapHeader, Discard,
      WritePiece, HeaderFails, Close, Rename, GoTo, saving, Named, Labels, Ended
  <2> QED
    BY <2>1, <2>2
<1>4. ASSUME NEW r \in Readers, Fill \/ Open(r) \/ Read(r)
      PROVE  Named'
  BY <1>4 DEF Fill, Open, Read, saving, Named
<1>5. CASE Fill
  BY <1>5 DEF Fill, saving, Named
<1> QED
  BY <1>1, <1>2, <1>3, <1>4, <1>5 DEF Next

LEMMA NewFileType ==
  ASSUME Typed, Named, NEW p \in Learners,
         \/ Create(p) \/ WritePiece(p) \/ HeaderFails(p)
         \/ Close(p) \/ Rename(p) \/ Crash(p)
  PROVE  Typed'
<1>1. /\ DiskType /\ NamesType /\ SavingType /\ MadeAt(pc[p], made[p])
      /\ pc \in [Learners -> Labels]
  BY TypedParts
<1>2. NewFile(p) \in Files
  BY DEF NewFile, Files
<1>3. /\ {"write", "rename", "saved", "unsaved", "crashed"} \subseteq Labels
      /\ \A l \in {"write", "rename", "saved", "unsaved", "crashed"}, n \in Nat : MadeAt(l, n)
  BY DEF Labels, Ended, MadeAt
<1>4. made[p] \in Nat
  BY <1>1, PiecesAssumption DEF SavingType
<1>5. CASE Create(p)
  <2>1. NamesType' /\ UNCHANGED <<opt, reading, made>>
    BY <1>1, <1>5 DEF Create, NamesType, names
  <2>2. /\ DiskType' /\ SavingType'
        /\ GoTo(p, "write") \/ GoTo(p, "unsaved")
    <3>1. CASE UNCHANGED <<temp, out, outName>> /\ GoTo(p, "unsaved")
      BY <1>1, <1>5, <3>1 DEF Create, DiskType, SavingType
    <3>2. ASSUME NEW n \in Temps, GoTo(p, "write"),
                 temp' = [temp EXCEPT ![n] = NewFile(p)],
                 out' = [out EXCEPT ![p] = NewFile(p)],
                 outName' = [outName EXCEPT ![p] = n]
          PROVE  DiskType' /\ SavingType'
      BY <1>1, <1>2, <1>5, <3>2 DEF Create, DiskType, SavingType
    <3> QED
      BY <1>5, <3>1, <3>2 DEF Create, FirstFree
  <2> QED
    BY <1>3, <1>4, <2>1, <2>2, LearnerStep
<1>6. CASE WritePiece(p)
  <2>1. made' = [made EXCEPT ![p] = made[p] + 1] /\ made[p] + 1 \in 0..Pieces
    BY <1>1, <1>6, PiecesAssumption DEF WritePiece, SavingType
  <2>2. DiskType'
    <3>1. CASE UNCHANGED data
      BY <1>1, <1>6, <3>1 DEF WritePiece, DiskType
    <3>2. CASE Flush(p, made[p])
      <4>1. made[p] \in 0..Pieces
        BY <1>1 DEF SavingType
      <4> QED
        BY <1>1, <1>6, <3>2, <4>1, FlushType DEF WritePiece
    <3> QED
      BY <1>6, <3>1, <3>2 DEF WritePiece
  <2>3. NamesType' /\ SavingType' /\ made'[p] \in Nat
    BY <1>1, <1>6, <2>1, PiecesAssumption DEF WritePiece, NamesType, SavingType, names
  <2>4. GoTo(p, "write")
    BY <1>1, <1>6 DEF WritePiece, GoTo
  <2>5. \A q \in Learners \ {p} : made'[q] = made[q]
    BY <1>1, <2>1 DEF SavingType
  <2> QED
    BY <1>3, <1>6, <2>2, <2>3, <2>4, <2>5, LearnerStep DEF WritePiece
<1>7. CASE HeaderFails(p)
  <2>1. DiskType' /\ NamesType' /\ SavingType' /\ UNCHANGED <<opt, reading, made>>
    BY <1>1, <1>7, UnlinkType DEF HeaderFails, NamesType, SavingType, names, saving
  <2> QED
    BY <1>3, <1>4, <1>7, <2>1, LearnerStep DEF HeaderFails
<1>8. CASE Close(p)
  <2>1. NamesType' /\ SavingType' /\ UNCHANGED <<opt, reading, made>>
    BY <1>1, <1>8 DEF Close, NamesType, SavingType, names, saving
  <2>2. PICK k \in Flushed(p)..Pieces : Flush(p, k)
    BY <1>8 DEF Close
  <2>3. Flushed(p) \in Nat
    BY <1>1, <1>2 DEF Flushed, DiskType
  <2>4. DiskType'
    BY <1>1, <1>8, <2>2, <2>3, FlushType, PiecesAssumption DEF Close
  <2> QED
    BY <1>3, <1>4, <1>8, <2>1, <2>4, LearnerStep DEF Close
<1>9. CASE Rename(p)
  <2>1. NamesType' /\ SavingType' /\ UNCHANGED <<opt, reading, made>>
    BY <1>1, <1>9 DEF Rename, NamesType, SavingType, names, saving
  <2>2. temp' \in [Temps -> Files \cup {None}]
    BY <1>1, <1>9 DEF Rename, Unlink, DiskType
  <2>3. temp[outName[p]] \in Files \cup {None}
    BY <1>1, <1>9 DEF DiskType, Rename, Named
  <2>4. cat' \in Files \cup {None}
    BY <1>1, <1>9, <2>3 DEF DiskType, Rename
  <2> QED
    BY <1>1, <1>3, <1>4, <1>9, <2>1, <2>2, <2>4, LearnerStep DEF Rename, DiskType
<1>10. CASE Crash(p)
  <2>1. DiskType' /\ NamesType' /\ SavingType' /\ UNCHANGED <<opt, reading, made>>
    BY <1>1, <1>10 DEF Crash, DiskType, NamesType, SavingType, disk, names, saving
  <2> QED
    BY <1>3, <1>4, <1>10, <2>1, LearnerStep DEF Crash
<1> QED
  BY <1>5, <1>6, <1>7, <1>8, <1>9, <1>10

LEMMA RestType ==
  ASSUME Typed, Fill \/ (\E r \in Readers : Open(r) \/ Read(r)) \/ UNCHANGED vars
  PROVE  Typed'
<1>1. CASE Fill \/ UNCHANGED vars
  BY <1>1 DEF Fill, vars, disk, names, saving, reading, Typed, TypeOK, Progress
<1>2. ASSUME NEW r \in Readers, Open(r)
      PROVE  Typed'
  BY <1>2 DEF Open, disk, names, saving, Typed, TypeOK, Progress
<1>3. ASSUME NEW r \in Readers, Read(r)
      PROVE  Typed'
  <2>1. rfile[r] \in Files /\ data[rfile[r]] \in Seq(Writers) /\ got[r] \in Seq(Writers)
    BY <1>3 DEF Read, Typed, TypeOK, Progress
  <2>2. got' \in [Readers -> Seq(Writers)]
    <3>1. CASE UNCHANGED got
      BY <3>1 DEF Typed, TypeOK
    <3>2. CASE /\ Len(got[r]) + 1 <= Len(data[rfile[r]])
               /\ got' = [got EXCEPT ![r] = Append(@, data[rfile[r]][Len(got[r]) + 1])]
      <4>1. data[rfile[r]][Len(got[r]) + 1] \in Writers
        BY <2>1, <3>2
      <4>2. Append(got[r], data[rfile[r]][Len(got[r]) + 1]) \in Seq(Writers)
        BY <2>1, <4>1
      <4> QED
        BY <3>2, <4>2 DEF Typed, TypeOK
    <3> QED
      BY <1>3, <3>1, <3>2 DEF Read
  <2>3. /\ rpc' \in [Readers -> {"start", "read", "loaded", "corrupt", "missing"}]
        /\ \A q \in Readers : rpc'[q] = "read" => rpc[q] = "read"
    BY <1>3 DEF Read, Typed, TypeOK
  <2>4. UNCHANGED <<disk, pc, opt, names, saving, rfile>>
    BY <1>3 DEF Read
  <2> QED
    BY <2>2, <2>3, <2>4 DEF disk, names, saving, Typed, TypeOK, Progress
<1> QED
  BY <1>1, <1>2, <1>3

LEMMA TypedInductive ==
  ASSUME Typed, Named, [Next]_vars
  PROVE  Typed'
<1>1. ASSUME NEW p \in Learners, Learn(p)
      PROVE  Typed'
  BY <1>1, MakeTokenFileType, LearningType DEF Learn
<1>2. ASSUME NEW p \in Learners, Save(p) \/ Crash(p)
      PROVE  Typed'
  BY <1>2, CheckType, InPlaceType, NewFileType DEF Save
<1> QED
  BY <1>1, <1>2, RestType DEF Next

LEMMA NamedInit == Init => Named
  BY DEF Init, Named, Labels

(* Type correctness, for all options, crashes, signals and full disks: the  *)
(* cells of save_learner() and optimize_and_save() hold what their types    *)
(* in the code allow, and no file grows beyond a category's pieces.         *)
THEOREM TypeCorrect == Spec => []TypeOK
<1>1. Init => Typed /\ Named
  BY TypedInit, NamedInit
<1>2. Typed /\ Named /\ [Next]_vars => Typed' /\ Named'
  BY TypedInductive, NamedInductive
<1>3. Typed => TypeOK
  BY DEF Typed
<1> QED
  BY <1>1, <1>2, <1>3, PTL DEF Spec

-----------------------------------------------------------------------------
(* Temporary names.                                                        *)

Unmerged == \A o \in OptionSets : "O" \notin o

(* A learner's names are those of its own files, and the name a clean-up    *)
(* would unlink is its token file's.                                       *)
HeldBy(p) ==
  /\ pc[p] # "merge"
  /\ cleanup[p] = tmpName[p] \/ pc[p] = "quit"
  /\ tmpName[p] # None /\ pc[p] # "quit" => temp[tmpName[p]] = TokenFile(p)
  /\ pc[p] \in {"write", "rename"} => temp[outName[p]] = NewFile(p)

Held == \A p \in Learners : HeldBy(p)

NameTypes ==
  /\ pc \in [Learners -> Labels]
  /\ temp \in [Temps -> Files \cup {None}]
  /\ tmpName \in [Learners -> Temps \cup {None}]
  /\ cleanup \in [Learners -> Temps \cup {None}]
  /\ outName \in [Learners -> Temps \cup {None}]

LEMMA HeldInit == Init => Held
  BY DEF Init, Held, HeldBy

LEMMA OwnFilesDiffer ==
  ASSUME NEW p \in Learners
  PROVE  /\ TokenFile(p) # None /\ NewFile(p) # None /\ None \notin Temps
         /\ \A q \in Learners : TokenFile(p) # NewFile(q)
         /\ \A q \in Learners \ {p} : TokenFile(p) # TokenFile(q) /\ NewFile(p) # NewFile(q)
<1>1. TokenFile(p) \in Files /\ NewFile(p) \in Files
  BY DEF TokenFile, NewFile, Files
<1> QED
  BY <1>1, CategoryStoreAssumption DEF TokenFile, NewFile

(* What learner p does to one name that is free or its own leaves the      *)
(* names of every other learner q alone.                                   *)
LEMMA OthersHeld ==
  ASSUME NameTypes, Named,
         NEW p \in Learners, NEW q \in Learners \ {p}, HeldBy(q),
         NEW n, n \in Temps => temp[n] \in {None, TokenFile(p), NewFile(p)},
         \A m \in Temps \ {n} : temp'[m] = temp[m],
         pc'[q] = pc[q], tmpName'[q] = tmpName[q], cleanup'[q] = cleanup[q],
         outName'[q] = outName[q]
  PROVE  HeldBy(q)'
<1>1. \A m \in Temps : temp[m] \in {TokenFile(q), NewFile(q)} => temp'[m] = temp[m]
  BY OwnFilesDiffer
<1>2. tmpName[q] # None => tmpName[q] \in Temps
  BY DEF NameTypes
<1>3. pc[q] \in {"write", "rename"} => outName[q] \in Temps
  BY DEF Named
<1>4. TokenFile(q)' = TokenFile(q) /\ NewFile(q)' = NewFile(q)
  BY DEF TokenFile, NewFile
<1> QED
  BY <1>1, <1>2, <1>3, <1>4 DEF HeldBy

LEMMA HeldInductive ==
  ASSUME Unmerged, Typed, Named, Held, [Next]_vars
  PROVE  Held'
<1>1. NameTypes /\ opt \in [Learners -> OptionSets]
  BY DEF NameTypes, Named, Typed, TypeOK
<1>2. CASE UNCHANGED <<temp, names, pc, saving>>
  BY <1>2 DEF Held, HeldBy, names, saving, TokenFile, NewFile
<1>3. ASSUME NEW p \in Learners, Learn(p) \/ Save(p) \/ Crash(p)
      PROVE  Held'
  <2>1. HeldBy(p) /\ ~Merge(p)
    BY DEF Held, HeldBy, Merge
  <2>2. \A q \in Learners \ {p} :
          /\ pc'[q] = pc[q] /\ tmpName'[q] = tmpName[q]
          /\ cleanup'[q] = cleanup[q] /\ outName'[q] = outName[q]
    <3>1. CASE Learn(p) \/ Crash(p)
      BY <1>1, <2>1, <3>1 DEF NameTypes, Learn, MakeTokenFile, Quit, NothingLearned,
        Prepare, FinishMinimising, CloseTokens, Crash, GoTo, names, saving
    <3>2. CASE Save(p)
      BY <1>1, <3>2 DEF NameTypes, Save, OverwritePiece, Check, MapPiece, MapHeader,
        Discard, Create, WritePiece, HeaderFails, Close, Rename, GoTo, names, saving
    <3> QED
      BY <1>3, <3>1, <3>2
  <2>3. SUFFICES ASSUME NEW n,
                        n \in Temps => temp[n] \in {None, TokenFile(p), NewFile(p)},
                        \A m \in Temps \ {n} : temp'[m] = temp[m]
                 PROVE  HeldBy(p)'
    <3>1. \E n : /\ n \in Temps => temp[n] \in {None, TokenFile(p), NewFile(p)}
                 /\ \A m \in Temps \ {n} : temp'[m] = temp[m]
      <4>1. CASE MakeTokenFile(p) \/ Create(p)
        <5>1. CASE UNCHANGED temp
          BY <5>1, OwnFilesDiffer
        <5>2. ASSUME NEW k \in Temps, temp[k] = None, NEW f, temp' = [temp EXCEPT ![k] = f]
              PROVE  /\ temp[k] \in {None, TokenFile(p), NewFile(p)}
                     /\ \A m \in Temps \ {k} : temp'[m] = temp[m]
          BY <1>1, <5>2 DEF NameTypes
        <5> QED
          BY <4>1, <5>1, <5>2 DEF MakeTokenFile, Create, FirstFree
      <4>2. CASE Quit(p)
        <5>1. cleanup[p] \in Temps => temp[cleanup[p]] = TokenFile(p)
          BY <2>1, <4>2, OwnFilesDiffer DEF Quit, HeldBy
        <5> QED
          BY <1>1, <4>2, <5>1 DEF Quit, Unlink, NameTypes
      <4>3. CASE NothingLearned(p) \/ FinishMinimising(p)
        <5>1. tmpName[p] \in Temps => temp[tmpName[p]] = TokenFile(p)
          BY <2>1, <4>3, OwnFilesDiffer DEF NothingLearned, FinishMinimising, HeldBy
        <5> QED
          BY <1>1, <4>3, <5>1 DEF NothingLearned, FinishMinimising, CloseTokens,
            Unlink, NameTypes
      <4>4. CASE HeaderFails(p) \/ Rename(p)
        <5>1. temp[outName[p]] = NewFile(p)
          BY <2>1, <4>4 DEF HeaderFails, Rename, HeldBy
        <5> QED
          BY <1>1, <4>4, <5>1 DEF HeaderFails, Rename, Unlink, NameTypes
      <4>5. CASE UNCHANGED temp
        BY <4>5, OwnFilesDiffer
      <4> QED
        BY <1>3, <2>1, <4>1, <4>2, <4>3, <4>4, <4>5 DEF Learn, Save, Prepare,
          OverwritePiece, Check, MapPiece, MapHeader, Discard, WritePiece, Close,
          Crash, disk
    <3> QED
      BY <1>1, <2>2, <3>1, OthersHeld DEF Held
  <2>4. CASE MakeTokenFile(p)
    BY <1>1, <2>1, <2>4, OwnFilesDiffer DEF MakeTokenFile, GoTo, names, HeldBy,
      NameTypes, Unmerged, TokenFile, NewFile
  <2>5. CASE Create(p)
    <3>1. tmpName[p] \in Temps => temp'[tmpName[p]] = temp[tmpName[p]] \/ tmpName[p] = None
      BY <1>1, <2>1, <2>5, OwnFilesDiffer DEF Create, FirstFree, HeldBy, NameTypes
    <3> QED
      BY <1>1, <2>1, <2>5, <3>1, OwnFilesDiffer DEF Create, GoTo, names, HeldBy,
        NameTypes, TokenFile, NewFile
  <2>6. CASE Quit(p) \/ NothingLearned(p) \/ FinishMinimising(p)
    BY <1>1, <2>1, <2>6 DEF Quit, NothingLearned, FinishMinimising, CloseTokens,
      GoTo, HeldBy, NameTypes
  <2>7. CASE HeaderFails(p) \/ Rename(p)
    <3>1. tmpName[p] # None => temp[tmpName[p]] = TokenFile(p) /\ tmpName[p] \in Temps
      BY <1>1, <2>1, <2>7 DEF HeaderFails, Rename, HeldBy, NameTypes
    <3>2. tmpName[p] # None => temp'[tmpName[p]] = TokenFile(p)
      BY <1>1, <2>1, <2>7, <3>1, OwnFilesDiffer DEF HeaderFails, Rename, Unlink,
        HeldBy, NameTypes
    <3> QED
      BY <1>1, <2>1, <2>7, <3>2 DEF HeaderFails, Rename, GoTo, names, HeldBy,
        NameTypes, TokenFile, NewFile
  <2>8. CASE \/ Prepare(p) \/ OverwritePiece(p) \/ Check(p) \/ MapPiece(p)
             \/ MapHeader(p) \/ Discard(p) \/ WritePiece(p) \/ Close(p) \/ Crash(p)
    <3>1. UNCHANGED <<temp, names, outName>>
      BY <2>8 DEF Prepare, OverwritePiece, Check, MapPiece, MapHeader, Discard,
        WritePiece, Close, Crash, disk, names, saving
    <3>2. /\ pc'[p] # "merge" /\ pc[p] # "quit"
          /\ pc'[p] \in {"write", "rename"} => pc[p] \in {"write", "rename"}
      BY <1>1, <2>8 DEF NameTypes, Prepare, OverwritePiece, Check, MapPiece,
        MapHeader, Discard, WritePiece, Close, Crash, GoTo, Ended
    <3> QED
      BY <2>1, <3>1, <3>2 DEF names, HeldBy, TokenFile, NewFile
  <2> QED
    BY <1>3, <2>1, <2>4, <2>5, <2>6, <2>7, <2>8 DEF Learn, Save
<1>4. ASSUME NEW r \in Readers, Open(r) \/ Read(r)
      PROVE  UNCHANGED <<temp, names, pc, saving>>
  BY <1>4 DEF Open, Read, disk
<1>5. CASE Fill
  BY <1>2, <1>5 DEF Fill
<1>6. CASE UNCHANGED vars
  BY <1>2, <1>6 DEF vars, disk
<1> QED
  BY <1>2, <1>3, <1>4, <1>5, <1>6 DEF Next

(* Without -O, a learner's temporary names stay its own, with any number of *)
(* learners, names, crashes and signals: mytmpfile() is exclusive, and      *)
(* nobody unlinks a name before the owner is done with it.                  *)
THEOREM TempsStayHeld ==
  ASSUME Unmerged
  PROVE  Spec => []TempsHeld
<1>1. Init => Typed /\ Named /\ Held
  BY TypedInit, NamedInit, HeldInit
<1>2. (Typed /\ Named /\ Held) /\ [Next]_vars => (Typed /\ Named /\ Held)'
  BY TypedInductive, NamedInductive, HeldInductive
<1>3. Held => TempsHeld
  BY DEF Held, HeldBy, TempsHeld
<1> QED
  BY <1>1, <1>2, <1>3, PTL DEF Spec

-----------------------------------------------------------------------------
(* The category file as an atomic register.                                *)

(* Nobody writes in place or merges, the file system has space, and the    *)
(* category's name was never used for anything else.                       *)
PlainSaving ==
  /\ Unmerged
  /\ \A o \in OptionSets : "m" \notin o
  /\ ~DiskMayFill
  /\ "foreign" \notin Past

Copy(w) == [k \in 1..Pieces |-> w]

(* f is a file that was renamed over the category, or the first one.        *)
Published(f) ==
  \/ f = OldFile
  \/ \E p \in Learners : f = NewFile(p) /\ pc[p] = "saved"

(* A new file is complete before it is renamed, and is not written after.   *)
Complete ==
  /\ ~full
  /\ data[OldFile] = Copy(Old)
  /\ cat = None \/ Published(cat)
  /\ \A p \in Learners :
       /\ pc[p] \notin {"merge", "overwrite", "map", "discard"}
       /\ pc[p] \in {"rename", "saved"} => data[NewFile(p)] = Copy(p)

(* A reader has a published file, and has read a part of it. *)
ReadsPublished(r) ==
  /\ rpc[r] # "corrupt"
  /\ rpc[r] = "start" => got[r] = <<>>
  /\ rpc[r] \in {"start", "missing"} => rfile[r] = None
  /\ rpc[r] \in {"read", "loaded"} =>
       /\ Published(rfile[r])
       /\ \A k \in 1..Len(got[r]) : got[r][k] = WriterOf(rfile[r])
  /\ rpc[r] = "start" => Len(got[r]) = 0
  /\ rpc[r] = "read" => Len(got[r]) < Pieces
  /\ rpc[r] = "loaded" => Len(got[r]) = Pieces

Registers == Complete /\ \A r \in Readers : ReadsPublished(r)

LEMMA PublishedFile ==
  ASSUME Complete, NEW f, Published(f)
  PROVE  /\ f \in Files /\ f # None
         /\ \E w \in Learners \cup {Old} : data[f] = Copy(w) /\ WriterOf(f) = w
<1>1. f \in Files /\ f # None
  BY CategoryStoreAssumption DEF Published, Files, OldFile, NewFile
<1>2. PICK w \in Learners \cup {Old} : data[f] = Copy(w)
  BY DEF Complete, Published
<1>3. data[f][1] = w
  BY <1>2, PiecesAssumption DEF Copy
<1> QED
  BY <1>1, <1>2, <1>3 DEF WriterOf

LEMMA RegistersInit ==
  ASSUME PlainSaving
  PROVE  Init => Registers
<1> SUFFICES ASSUME Init PROVE Registers
  OBVIOUS
<1>1. \A p \in Learners : pc[p] = "start"
  BY DEF Init
<1>2. data[OldFile] = Copy(Old)
  BY DEF Init, PlainSaving, Copy, Files
<1>3. cat = None \/ Published(cat)
  BY DEF Init, Published
<1>4. \A r \in Readers : rpc[r] = "start" /\ got[r] = <<>> /\ rfile[r] = None
  BY DEF Init
<1>5. ~full
  BY DEF Init
<1> QED
  BY <1>1, <1>2, <1>3, <1>4, <1>5 DEF Registers, Complete, ReadsPublished

(* A published file is never written or withdrawn again. *)
LEMMA PublishedKept ==
  ASSUME PlainSaving, Complete, Typed, [Next]_vars, NEW f, Published(f)
  PROVE  Published(f)' /\ data'[f] = data[f] /\ WriterOf(f)' = WriterOf(f)
<1>1. f \in Files /\ f # None
  BY PublishedFile
<1>2. pc \in [Learners -> Labels] /\ data \in [Files -> Seq(Writers)]
  BY DEF Typed, TypeOK, Labels
<1>3. \A p \in Learners : pc[p] = "saved" => pc'[p] = "saved"
  <2>1. CASE UNCHANGED pc
    BY <2>1
  <2>2. ASSUME NEW p \in Learners, Learn(p) \/ Save(p) \/ Crash(p)
        PROVE  \A q \in Learners : pc[q] = "saved" => pc'[q] = "saved"
    BY <1>2, <2>2 DEF Learn, MakeTokenFile, Merge, Quit, NothingLearned, Prepare,
      FinishMinimising, Save, OverwritePiece, Check, MapPiece, MapHeader, Discard,
      Create, WritePiece, HeaderFails, Close, Rename, Crash, GoTo, Ended
  <2> QED
    BY <2>1, <2>2 DEF Next, Fill, Open, Read, vars
<1>4. Published(f)'
  BY <1>3 DEF Published, OldFile, NewFile
<1>5. data'[f] = data[f]
  <2>1. CASE UNCHANGED data
    BY <2>1
  <2>2. ASSUME NEW p \in Learners, MakeTokenFile(p)
        PROVE  data'[f] = data[f]
    <3>1. f # TokenFile(p)
      BY CategoryStoreAssumption DEF Published, TokenFile, OldFile, NewFile
    <3> QED
      BY <1>1, <1>2, <2>2, <3>1 DEF MakeTokenFile
  <2>3. ASSUME NEW p \in Learners, WritePiece(p) \/ Close(p)
        PROVE  data'[f] = data[f]
    <3>1. f # NewFile(p)
      BY <2>3, CategoryStoreAssumption DEF Published, OldFile, NewFile, WritePiece, Close
    <3> QED
      BY <1>1, <1>2, <2>3, <3>1 DEF WritePiece, Close, Flush
  <2>4. ASSUME NEW p \in Learners, Learn(p) \/ Save(p) \/ Crash(p)
        PROVE  UNCHANGED data \/ MakeTokenFile(p) \/ WritePiece(p) \/ Close(p)
    <3>1. "m" \notin opt[p] /\ pc[p] \notin {"overwrite", "map"}
      BY DEF PlainSaving, Complete, Typed, TypeOK
    <3> QED
      BY <2>4, <3>1 DEF Learn, Merge, Quit, NothingLearned, Prepare,
        FinishMinimising, Save, OverwritePiece, Check, MapPiece, MapHeader, Discard,
        Create, HeaderFails, Rename, Crash, disk
  <2> QED
    BY <2>1, <2>2, <2>3, <2>4 DEF Next, Fill, Open, Read, vars, disk
<1>6. WriterOf(f)' = WriterOf(f)
  BY <1>1, <1>5 DEF WriterOf
<1> QED
  BY <1>4, <1>5, <1>6

LEMMA CompleteInductive ==
  ASSUME PlainSaving, Typed, Named, Held, Complete, [Next]_vars
  PROVE  Complete'
<1>1. /\ pc \in [Learners -> Labels] /\ opt \in [Learners -> OptionSets]
      /\ data \in [Files -> Seq(Writers)]
  BY DEF Typed, TypeOK, Labels
<1>2. data'[OldFile] = Copy(Old)
  BY PublishedKept DEF Complete, Published
<1>3. \A f : Published(f) => Published(f)'
  BY PublishedKept
<1>4. ~full'
  BY DEF PlainSaving, Complete, Next, Learn, MakeTokenFile, Merge, Quit,
    NothingLearned, Prepare, FinishMinimising, Save, OverwritePiece, Check, MapPiece,
    MapHeader, Discard, Create, WritePiece, HeaderFails, Close, Rename, Crash, Fill,
    Open, Read, vars, disk
<1>5. CASE UNCHANGED <<cat, data, pc>>
  <2>1. (cat = None \/ Published(cat))'
    BY <1>5 DEF Complete, Published, OldFile, NewFile
  <2> QED
    BY <1>2, <1>4, <1>5, <2>1 DEF Complete, OldFile, NewFile, Copy
<1>6. ASSUME NEW p \in Learners, Learn(p) \/ Save(p) \/ Crash(p)
      PROVE  Complete'
  <2>1. /\ "m" \notin opt[p] /\ "O" \notin opt[p]
        /\ pc[p] \notin {"merge", "overwrite", "map", "discard"}
    BY <1>1 DEF PlainSaving, Unmerged, Complete
  <2>2. /\ pc'[p] \notin {"merge", "overwrite", "map", "discard"}
        /\ \A q \in Learners \ {p} : pc'[q] = pc[q]
    BY <1>1, <1>6, <2>1 DEF Learn, MakeTokenFile, Merge, Quit, NothingLearned, Prepare,
      FinishMinimising, Save, OverwritePiece, Check, MapPiece, MapHeader, Discard,
      Create, WritePiece, HeaderFails, Close, Rename, Crash, GoTo
  <2>3. cat' = None \/ Published(cat)'
    <3>1. CASE UNCHANGED cat
      <4>1. \A f : f = cat => (f = None \/ Published(f)')
        BY <1>3 DEF Complete
      <4> QED
        BY <3>1, <4>1
    <3>2. CASE Rename(p) /\ ~UNCHANGED cat
      <4>1. temp[outName[p]] = NewFile(p)
        BY <3>2 DEF Rename, Held, HeldBy
      <4>2. cat' = NewFile(p) /\ pc'[p] = "saved"
        BY <1>1, <3>2, <4>1 DEF Rename, GoTo
      <4> QED
        BY <4>2 DEF Published, NewFile
    <3> QED
      BY <1>6, <2>1, <3>1, <3>2 DEF Learn, MakeTokenFile, Merge, Quit, NothingLearned,
        Prepare, FinishMinimising, Save, OverwritePiece, Check, MapPiece, MapHeader,
        Discard, Create, WritePiece, HeaderFails, Close, Crash, disk
  <2>4. \A q \in Learners \ {p} : pc[q] \in {"rename", "saved"} => data'[NewFile(q)] = Copy(q)
    <3> SUFFICES ASSUME NEW q \in Learners \ {p}, pc[q] \in {"rename", "saved"}
                 PROVE  data'[NewFile(q)] = data[NewFile(q)]
      BY DEF Complete
    <3>1. NewFile(q) \in Files /\ NewFile(q) # TokenFile(p) /\ NewFile(q) # NewFile(p)
      BY DEF NewFile, TokenFile, Files
    <3>2. CASE MakeTokenFile(p)
      BY <1>1, <3>1, <3>2 DEF MakeTokenFile
    <3>3. CASE WritePiece(p) \/ Close(p)
      BY <1>1, <3>1, <3>3 DEF WritePiece, Close, Flush
    <3>4. CASE UNCHANGED data
      BY <3>4
    <3> QED
      BY <1>6, <2>1, <3>2, <3>3, <3>4 DEF Learn, Merge, Quit, NothingLearned, Prepare,
        FinishMinimising, Save, OverwritePiece, Check, MapPiece, MapHeader, Discard,
        Create, HeaderFails, Rename, Crash, disk
  <2>5. pc'[p] \in {"rename", "saved"} => data'[NewFile(p)] = Copy(p)
    <3>1. NewFile(p) \in Files
      BY DEF NewFile, Files
    <3>2. CASE Close(p)
      <4>1. PICK k \in Flushed(p)..Pieces : (k < Pieces => full) /\ Flush(p, k)
        BY <3>2 DEF Close
      <4>2. Flushed(p) \in Nat
        BY <1>1, <3>1 DEF Flushed
      <4>3. k = Pieces
        BY <4>1, <4>2, PiecesAssumption DEF Complete
      <4> QED
        BY <1>1, <3>1, <4>1, <4>3 DEF Flush, Copy
    <3>3. CASE Rename(p)
      BY <3>3 DEF Rename, Complete
    <3>4. CASE ~Close(p) /\ ~Rename(p)
      <4>1. pc'[p] \notin {"rename", "saved"}
        BY <1>1, <1>6, <2>1, <3>4 DEF Learn, MakeTokenFile, Merge, Quit,
          NothingLearned, Prepare, FinishMinimising, Save, OverwritePiece, Check,
          MapPiece, MapHeader, Discard, Create, WritePiece, HeaderFails, Crash, GoTo
      <4> QED
        BY <4>1
    <3> QED
      BY <3>2, <3>3, <3>4
  <2>6. ASSUME NEW q \in Learners
        PROVE  /\ pc'[q] \notin {"merge", "overwrite", "map", "discard"}
               /\ pc'[q] \in {"rename", "saved"} => data'[NewFile(q)] = Copy(q)
    BY <2>2, <2>4, <2>5 DEF Complete
  <2> QED
    BY <1>2, <1>4, <2>3, <2>6 DEF Complete, OldFile, NewFile, Copy
<1> QED
  BY <1>5, <1>6 DEF Next, Fill, PlainSaving, Open, Read, vars, disk

(* A reader that does not move keeps what it has. *)
LEMMA ReaderWaits ==
  ASSUME PlainSaving, Complete, Typed, [Next]_vars,
         NEW r \in Readers, ReadsPublished(r),
         rpc'[r] = rpc[r], rfile'[r] = rfile[r], got'[r] = got[r]
  PROVE  ReadsPublished(r)'
<1>1. CASE rpc[r] \notin {"read", "loaded"}
  BY <1>1 DEF ReadsPublished
<1>2. CASE rpc[r] \in {"read", "loaded"}
  <2>1. \A f : f = rfile[r] => Published(f)' /\ WriterOf(f)' = WriterOf(f)
    BY <1>2, PublishedKept DEF ReadsPublished
  <2>2. Published(rfile[r])' /\ WriterOf(rfile[r])' = WriterOf(rfile[r])
    BY <2>1
  <2> QED
    BY <1>2, <2>2 DEF ReadsPublished
<1> QED
  BY <1>1, <1>2

LEMMA ReadsInductive ==
  ASSUME PlainSaving, Typed, Registers, [Next]_vars
  PROVE  \A r \in Readers : ReadsPublished(r)'
<1> SUFFICES ASSUME NEW r \in Readers
             PROVE  ReadsPublished(r)'
  OBVIOUS
<1>1. /\ rfile \in [Readers -> Files \cup {None}] /\ got \in [Readers -> Seq(Writers)]
      /\ rpc \in [Readers -> {"start", "read", "loaded", "corrupt", "missing"}]
  BY DEF Typed, TypeOK
<1>2. Complete /\ ReadsPublished(r)
  BY DEF Registers
<1>3. CASE rpc'[r] = rpc[r] /\ rfile'[r] = rfile[r] /\ got'[r] = got[r]
  BY <1>2, <1>3, ReaderWaits
<1>4. CASE Open(r)
  <2>1. rfile'[r] = cat /\ got'[r] = <<>> /\ Len(got'[r]) = 0 /\ UNCHANGED <<cat, data, pc>>
    BY <1>1, <1>2, <1>4 DEF Open, disk, ReadsPublished
  <2>2. rpc'[r] = IF cat = None THEN "missing" ELSE "read"
    BY <1>1, <1>4 DEF Open
  <2>3. cat # None => Published(rfile[r])'
    BY <1>2, <2>1 DEF Complete, Published, OldFile, NewFile
  <2> QED
    BY <2>1, <2>2, <2>3, PiecesAssumption DEF ReadsPublished
<1>5. CASE Read(r)
  <2> DEFINE k == Len(got[r]) + 1
  <2>1. rpc[r] = "read" /\ Published(rfile[r])
    BY <1>2, <1>5 DEF Read, ReadsPublished
  <2>2. PICK w \in Learners \cup {Old} : data[rfile[r]] = Copy(w) /\ WriterOf(rfile[r]) = w
    BY <1>2, <2>1, PublishedFile
  <2>3. got[r] \in Seq(Writers) /\ k \in 1..Pieces
    BY <1>1, <1>2, <2>1, PiecesAssumption DEF ReadsPublished
  <2>4. Len(data[rfile[r]]) = Pieces /\ data[rfile[r]][k] = w /\ data[rfile[r]][1] = w
    BY <2>2, <2>3, PiecesAssumption DEF Copy
  <2>5. HasMagic(rfile[r])
    <3>1. w \notin {Tokens, Zeros}
      BY CategoryStoreAssumption DEF Old, Tokens, Zeros
    <3> QED
      BY <2>4, <3>1, PiecesAssumption DEF HasMagic
  <2>6. /\ got' = [got EXCEPT ![r] = Append(@, w)]
        /\ rpc' = [rpc EXCEPT ![r] = IF k = Pieces THEN "loaded" ELSE "read"]
        /\ UNCHANGED <<data, pc, rfile>>
    <3>1. k <= Len(data[rfile[r]])
      BY <2>3, <2>4
    <3> QED
      BY <1>5, <2>4, <2>5, <3>1 DEF Read, disk
  <2>7. Published(rfile[r])' /\ WriterOf(rfile[r])' = w
    BY <2>1, <2>2, <2>6 DEF Published, OldFile, NewFile, WriterOf
  <2>8. got'[r] = Append(got[r], w) /\ Len(got'[r]) = k
    BY <1>1, <2>3, <2>6
  <2>9. \A i \in 1..k : got'[r][i] = w
    BY <1>2, <2>1, <2>2, <2>3, <2>8 DEF ReadsPublished
  <2>10. rpc'[r] = IF k = Pieces THEN "loaded" ELSE "read"
    BY <1>1, <2>6
  <2> QED
    BY <2>3, <2>7, <2>8, <2>9, <2>10, PiecesAssumption DEF ReadsPublished
<1>6. ASSUME NEW q \in Readers \ {r}, Open(q) \/ Read(q)
      PROVE  rpc'[r] = rpc[r] /\ rfile'[r] = rfile[r] /\ got'[r] = got[r]
  BY <1>1, <1>6 DEF Open, Read
<1>7. ASSUME NEW p \in Learners, Learn(p) \/ Save(p) \/ Crash(p)
      PROVE  UNCHANGED reading
  BY <1>7 DEF Learn, MakeTokenFile, Merge, Quit, NothingLearned, Prepare,
    FinishMinimising, Save, OverwritePiece, Check, MapPiece, MapHeader, Discard,
    Create, WritePiece, HeaderFails, Close, Rename, Crash, reading
<1> QED
  BY <1>3, <1>4, <1>5, <1>6, <1>7 DEF Next, Fill, vars, reading

-----------------------------------------------------------------------------
AtomicInv == Typed /\ Named /\ Held /\ Registers

LEMMA AtomicInvInit ==
  ASSUME PlainSaving
  PROVE  Init => AtomicInv
  BY TypedInit, NamedInit, HeldInit, RegistersInit DEF AtomicInv

LEMMA AtomicInvInductive ==
  ASSUME PlainSaving, AtomicInv, [Next]_vars
  PROVE  AtomicInv'
<1>1. Typed' /\ Named' /\ Held'
  BY TypedInductive, NamedInductive, HeldInductive DEF AtomicInv, PlainSaving
<1>2. Complete'
  BY CompleteInductive DEF AtomicInv, Registers
<1>3. \A r \in Readers : ReadsPublished(r)'
  BY ReadsInductive DEF AtomicInv
<1> QED
  BY <1>1, <1>2, <1>3 DEF AtomicInv, Registers

(* Without -m and -O and with space on the file system, the category file   *)
(* is at every moment the complete work of one run, whoever learns, is      *)
(* interrupted or killed at the same time.                                 *)
THEOREM AlwaysWhole ==
  ASSUME PlainSaving
  PROVE  Spec => []CategoryWhole
<1>1. ASSUME AtomicInv PROVE CategoryWhole
  <2> SUFFICES ASSUME cat # None PROVE Whole(cat)
    BY DEF CategoryWhole
  <2>1. PICK w \in Learners \cup {Old} : data[cat] = Copy(w)
    BY <1>1, PublishedFile DEF AtomicInv, Registers, Complete
  <2> QED
    BY <2>1, PiecesAssumption DEF Whole, Copy
<1> QED
  BY <1>1, AtomicInvInit, AtomicInvInductive, PTL DEF Spec

(* Under the same conditions nobody ever finds a corrupt category. *)
THEOREM NeverCorrupt ==
  ASSUME PlainSaving
  PROVE  Spec => []NoCorruptLoad
<1>1. ASSUME AtomicInv PROVE NoCorruptLoad
  BY <1>1 DEF AtomicInv, Registers, ReadsPublished, NoCorruptLoad
<1> QED
  BY <1>1, AtomicInvInit, AtomicInvInductive, PTL DEF Spec

-----------------------------------------------------------------------------
(* The refinement.                                                         *)

(* What the register's variables are mapped to. *)
Current == WriterOf(cat)
Savers == {p \in Learners : pc[p] = "saved"}
Opened == {r \in Readers : rpc[r] # "start"}
Snapshot(r) == WriterOf(rfile[r])
LoadedBy(r) ==
  CASE rpc[r] = "loaded" -> IF Torn(got[r]) THEN Zeros ELSE got[r][1]
    [] rpc[r] = "corrupt" -> Zeros
    [] OTHER -> None

(* A reader that has loaded has loaded what it opened. *)
LEMMA LoadedIsSnapshot ==
  ASSUME Typed, NEW r \in Readers, ReadsPublished(r)
  PROVE  LoadedBy(r) = IF rpc[r] = "loaded" THEN Snapshot(r) ELSE None
<1>1. CASE rpc[r] = "loaded"
  <2>1. got[r] \in Seq(Writers) /\ Len(got[r]) = Pieces
    BY <1>1 DEF Typed, TypeOK, ReadsPublished
  <2>2. DOMAIN got[r] = 1..Pieces
    BY <2>1
  <2>3. \A k \in 1..Pieces : got[r][k] = Snapshot(r)
    BY <1>1, <2>1 DEF ReadsPublished, Snapshot
  <2>4. ~Torn(got[r]) /\ got[r][1] = Snapshot(r)
    BY <2>2, <2>3, PiecesAssumption DEF Torn
  <2> QED
    BY <1>1, <2>4 DEF LoadedBy
<1>2. CASE rpc[r] # "loaded"
  BY <1>2 DEF LoadedBy, ReadsPublished
<1> QED
  BY <1>1, <1>2

LEMMA RefinesInit ==
  ASSUME PlainSaving
  PROVE  Init => Atomic!Init
<1> SUFFICES ASSUME Init PROVE Atomic!Init
  OBVIOUS
<1>1. AtomicInv
  BY AtomicInvInit
<1>2. \A p \in Learners : pc[p] = "start"
  BY DEF Init
<1>3. \A r \in Readers : rpc[r] = "start" /\ rfile[r] = None
  BY DEF Init
<1>4. Current \in {Old, None}
  <2>1. data[OldFile] = Copy(Old) /\ (cat = OldFile \/ cat = None)
    BY <1>1 DEF AtomicInv, Registers, Complete, Init
  <2> QED
    BY <2>1, PiecesAssumption DEF Current, WriterOf, Copy
<1>5. \A r \in Readers : Snapshot(r) = None /\ LoadedBy(r) = None
  BY <1>3 DEF Snapshot, WriterOf, LoadedBy
<1> QED
  BY <1>2, <1>3, <1>4, <1>5 DEF Atomic!Init, Current, Snapshot, LoadedBy

(* A step of a learner publishes its category or is invisible. *)
LEMMA LearnerRefines ==
  ASSUME PlainSaving, AtomicInv, [Next]_vars,
         NEW p \in Learners, Learn(p) \/ Save(p) \/ Crash(p)
  PROVE  /\ \/ Savers' = Savers /\ Current' = Current
            \/ /\ p \notin Savers
               /\ Savers' = Savers \cup {p}
               /\ Current' = p
         /\ UNCHANGED reading
<1>1. /\ pc \in [Learners -> Labels] /\ opt \in [Learners -> OptionSets]
      /\ Complete /\ Held /\ Typed
  BY DEF AtomicInv, Named, Typed, TypeOK, Registers
<1>2. UNCHANGED reading
  BY DEF Learn, MakeTokenFile, Merge, Quit, NothingLearned, Prepare,
    FinishMinimising, Save, OverwritePiece, Check, MapPiece, MapHeader, Discard,
    Create, WritePiece, HeaderFails, Close, Rename, Crash, reading
<1>3. CASE Rename(p)
  <2>1. temp[outName[p]] = NewFile(p) /\ NewFile(p) # None
    BY <1>1, <1>3, OwnFilesDiffer DEF Rename, Held, HeldBy
  <2>2. cat' = NewFile(p) /\ pc' = [pc EXCEPT ![p] = "saved"] /\ UNCHANGED data
    BY <1>3, <2>1 DEF Rename, GoTo
  <2>3. data[NewFile(p)] = Copy(p) /\ pc[p] = "rename"
    BY <1>1, <1>3 DEF Rename, Complete
  <2>4. WriterOf(cat)' = p
    BY <2>1, <2>2, <2>3, PiecesAssumption DEF WriterOf, Copy
  <2>5. p \notin Savers /\ Savers' = Savers \cup {p}
    BY <1>1, <2>2, <2>3 DEF Savers
  <2> QED
    BY <1>2, <2>4, <2>5 DEF Current
<1>4. CASE ~Rename(p)
  <2>1. UNCHANGED cat /\ Savers' = Savers
    <3>1. "m" \notin opt[p] /\ pc[p] \notin {"overwrite", "map", "discard"}
      BY <1>1 DEF PlainSaving, Complete
    <3>2. UNCHANGED cat
      BY <1>4, <3>1 DEF Learn, MakeTokenFile, Merge, Quit, NothingLearned, Prepare,
        FinishMinimising, Save, OverwritePiece, Check, MapPiece, MapHeader, Discard,
        Create, WritePiece, HeaderFails, Close, Crash, disk
    <3>3. /\ pc'[p] = "saved" <=> pc[p] = "saved"
          /\ \A q \in Learners \ {p} : pc'[q] = pc[q]
      BY <1>1, <1>4, <3>1 DEF Learn, MakeTokenFile, Merge, Quit, NothingLearned,
        Prepare, FinishMinimising, Save, OverwritePiece, Check, MapPiece, MapHeader,
        Discard, Create, WritePiece, HeaderFails, Close, Crash, GoTo, Ended
    <3> QED
      BY <3>2, <3>3 DEF Savers
  <2>2. \A f : f = cat => WriterOf(f)' = WriterOf(f)
    BY <1>1, PublishedKept DEF Complete, WriterOf
  <2>3. WriterOf(cat)' = WriterOf(cat)
    BY <2>1, <2>2
  <2> QED
    BY <1>2, <2>1, <2>3 DEF Current
<1> QED
  BY <1>3, <1>4

(* What a reader holds is worth the same after any step that is not its own. *)
LEMMA SnapshotKept ==
  ASSUME PlainSaving, AtomicInv, [Next]_vars,
         NEW r \in Readers, rfile'[r] = rfile[r]
  PROVE  Snapshot(r)' = Snapshot(r)
<1>1. Complete /\ Typed /\ ReadsPublished(r)
  BY DEF AtomicInv, Registers
<1>2. rfile[r] = None \/ Published(rfile[r])
  BY <1>1 DEF ReadsPublished, Typed, TypeOK
<1>3. \A f : f = rfile[r] => WriterOf(f)' = WriterOf(f)
  BY <1>1, <1>2, PublishedKept DEF WriterOf
<1> QED
  BY <1>3 DEF Snapshot

(* What a reader has loaded, before and after a step.                      *)
LEMMA LoadedImage ==
  ASSUME PlainSaving, AtomicInv, [Next]_vars, NEW r \in Readers
  PROVE  /\ LoadedBy(r) = IF rpc[r] = "loaded" THEN Snapshot(r) ELSE None
         /\ LoadedBy(r)' = IF rpc'[r] = "loaded" THEN Snapshot(r)' ELSE None
<1>1. Typed /\ ReadsPublished(r) /\ Typed' /\ ReadsPublished(r)'
  BY AtomicInvInductive DEF AtomicInv, Registers
<1>2. LoadedBy(r) = IF rpc[r] = "loaded" THEN Snapshot(r) ELSE None
  BY <1>1, LoadedIsSnapshot
<1>3. (LoadedBy(r) = IF rpc[r] = "loaded" THEN Snapshot(r) ELSE None)'
  BY <1>1, LoadedIsSnapshot, PTL
<1> QED
  BY <1>2, <1>3

(* The images of readers that do not move stay.                            *)
LEMMA ReaderImage ==
  ASSUME PlainSaving, AtomicInv, [Next]_vars, NEW r \in Readers,
         rpc'[r] = rpc[r], rfile'[r] = rfile[r]
  PROVE  Snapshot(r)' = Snapshot(r) /\ LoadedBy(r)' = LoadedBy(r)
  BY SnapshotKept, LoadedImage

LEMMA RefinesNext ==
  ASSUME PlainSaving, AtomicInv, [Next]_vars
  PROVE  [Atomic!Next]_(Atomic!vars)
<1> DEFINE Snap == [r \in Readers |-> Snapshot(r)]
           Load == [r \in Readers |-> LoadedBy(r)]
           Image == <<Current, Savers, Opened, Snap, Load>>
<1>1. SUFFICES \/ \E p \in Learners :
                   /\ p \notin Savers
                   /\ Savers' = Savers \cup {p}
                   /\ Current' = p
                   /\ UNCHANGED <<Opened, Snap, Load>>
               \/ \E r \in Readers :
                   /\ r \notin Opened
                   /\ Opened' = Opened \cup {r}
                   /\ Snap' = [Snap EXCEPT ![r] = Current]
                   /\ UNCHANGED <<Current, Savers, Load>>
               \/ \E r \in Readers :
                   /\ r \in Opened
                   /\ Load' = [Load EXCEPT ![r] = Snap[r]]
                   /\ UNCHANGED <<Current, Savers, Opened, Snap>>
               \/ UNCHANGED Image
  BY DEF Atomic!Next, Atomic!Publish, Atomic!Open, Atomic!Load, Atomic!vars,
    Current, Savers, Opened, Snapshot, LoadedBy
<1>2. /\ rpc \in [Readers -> {"start", "read", "loaded", "corrupt", "missing"}]
      /\ rfile \in [Readers -> Files \cup {None}]
      /\ Complete
  BY DEF AtomicInv, Typed, TypeOK, Registers
<1>3. ASSUME UNCHANGED <<rpc, rfile>>
      PROVE  UNCHANGED <<Opened, Snap, Load>>
  BY <1>3, ReaderImage DEF Opened
<1>4. ASSUME UNCHANGED <<cat, pc>>
      PROVE  UNCHANGED <<Current, Savers>>
  <2>1. \A f : f = cat => WriterOf(f)' = WriterOf(f)
    BY <1>2, PublishedKept DEF Complete, WriterOf, AtomicInv
  <2> QED
    BY <1>4, <2>1 DEF Current, Savers
<1>5. ASSUME NEW p \in Learners, Learn(p) \/ Save(p) \/ Crash(p)
      PROVE  \/ UNCHANGED Image
             \/ /\ p \notin Savers
                /\ Savers' = Savers \cup {p}
                /\ Current' = p
                /\ UNCHANGED <<Opened, Snap, Load>>
  <2>1. UNCHANGED <<Opened, Snap, Load>>
    BY <1>3, <1>5, LearnerRefines DEF reading
  <2> QED
    BY <1>5, <2>1, LearnerRefines
<1>6. ASSUME NEW r \in Readers, Open(r)
      PROVE  /\ r \notin Opened
             /\ Opened' = Opened \cup {r}
             /\ Snap' = [Snap EXCEPT ![r] = Current]
             /\ UNCHANGED <<Current, Savers, Load>>
  <2>1. /\ rpc[r] = "start" /\ rpc'[r] \in {"missing", "read"} /\ rfile'[r] = cat
        /\ \A q \in Readers \ {r} : rpc'[q] = rpc[q] /\ rfile'[q] = rfile[q]
        /\ UNCHANGED <<cat, data, pc>>
    BY <1>2, <1>6 DEF Open, disk
  <2>2. \A q \in Readers \ {r} : Snapshot(q)' = Snapshot(q) /\ LoadedBy(q)' = LoadedBy(q)
    BY <2>1, ReaderImage
  <2>3. Snapshot(r)' = Current
    BY <2>1 DEF Snapshot, Current, WriterOf
  <2>4. LoadedBy(r)' = LoadedBy(r)
    BY <2>1, LoadedImage
  <2>5. Opened' = Opened \cup {r} /\ r \notin Opened
    BY <2>1 DEF Opened
  <2>6. UNCHANGED <<Current, Savers>>
    BY <1>4, <2>1
  <2>7. Load' = Load
    BY <2>2, <2>4
  <2>8. Snap' = [Snap EXCEPT ![r] = Current]
    BY <2>2, <2>3
  <2> QED
    BY <2>5, <2>6, <2>7, <2>8
<1>7. ASSUME NEW r \in Readers, Read(r)
      PROVE  \/ UNCHANGED Image
             \/ /\ r \in Opened
                /\ Load' = [Load EXCEPT ![r] = Snap[r]]
                /\ UNCHANGED <<Current, Savers, Opened, Snap>>
  <2>1. /\ rpc[r] = "read" /\ rpc'[r] # "start" /\ UNCHANGED <<cat, pc, rfile>>
        /\ \A q \in Readers \ {r} : rpc'[q] = rpc[q]
    BY <1>2, <1>7 DEF Read, disk
  <2>2. UNCHANGED <<Current, Savers>>
    BY <1>4, <2>1
  <2>3. \A q \in Readers : Snapshot(q)' = Snapshot(q)
    BY <2>1, SnapshotKept
  <2>4. \A q \in Readers \ {r} : LoadedBy(q)' = LoadedBy(q)
    BY <2>1, ReaderImage
  <2>5. LoadedBy(r)' = LoadedBy(r) \/ LoadedBy(r)' = Snapshot(r)
    BY <2>1, <2>3, LoadedImage
  <2>6. Opened' = Opened /\ r \in Opened
    BY <2>1 DEF Opened
  <2>7. Snap' = Snap
    BY <2>3
  <2>8. Load' = Load \/ Load' = [Load EXCEPT ![r] = Snap[r]]
    BY <2>4, <2>5
  <2> QED
    BY <2>2, <2>6, <2>7, <2>8
<1>8. CASE UNCHANGED vars
  BY <1>3, <1>4, <1>8 DEF vars, disk, reading
<1>9. ~Fill
  BY DEF Fill, PlainSaving
<1> HIDE DEF Image, Snap, Load
<1> QED
  BY <1>5, <1>6, <1>7, <1>8, <1>9 DEF Next, Image

(* Saving is atomic: without -m and -O, with space on the file system, and  *)
(* however many processes learn, read, are interrupted or killed, the       *)
(* category file is an atomic register.                                    *)
THEOREM SavingIsAtomic ==
  ASSUME PlainSaving
  PROVE  Spec => SavesAtomically
<1>1. Init => Atomic!Init
  BY RefinesInit
<1>2. AtomicInv /\ [Next]_vars => [Atomic!Next]_(Atomic!vars)
  BY RefinesNext
<1> QED
  BY <1>1, <1>2, AtomicInvInit, AtomicInvInductive, PTL
    DEF Spec, SavesAtomically, Atomic!Spec
=============================================================================
