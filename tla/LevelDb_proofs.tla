----------------------------- MODULE LevelDb_proofs ----------------------------
(******************************************************************************)
(* What LevelDb keeps, for any buffer size, triggers, number of writes,       *)
(* crashes and failures: its bookkeeping, the writes that reached a table,    *)
(* and the promise of DurableWrites.                                          *)
(******************************************************************************)
EXTENDS LevelDb, FiniteSetTheorems, WellFoundedInduction, TLAPS

Writes == 1..MaxWrites

Version == [logNumber: Nat, nextFile: Nat, lastSequence: 0..MaxWrites,
            level0: SUBSET Nat, level1: SUBSET Nat]
VersionEdit == [new0: SUBSET Nat, new1: SUBSET Nat, deleted: SUBSET Nat,
                logNumber: Nat, nextFile: Nat, lastSequence: 0..MaxWrites]

DiskTyped ==
    /\ DOMAIN logs \subseteq Nat /\ logs \in [DOMAIN logs -> Seq(Writes)]
    /\ DOMAIN tables \subseteq Nat
    /\ tables \in [DOMAIN tables -> SUBSET Writes]
    /\ manifest \in Version
    /\ settled \subseteq Writes

ProcessTyped ==
    /\ phase \in {"down", "recovering", "created", "open", "installed"}
    /\ nextFile \in Nat /\ lastSequence \in 0..MaxWrites
    /\ current \in Version
    /\ saving # <<>> => \E e \in VersionEdit : saving = <<e>>
    /\ replay \subseteq DOMAIN logs /\ logNumber \in Nat
    /\ mem \subseteq Writes /\ imm \subseteq Writes
    /\ writing \in 0..MaxWrites
    /\ work \in {"idle", "scheduled", "merging"}
    /\ built \in Nat /\ output \in Nat /\ bgError \in BOOLEAN

\* What the MANIFEST names exists, and its two counters are beyond it.
Named ==
    /\ Live(manifest) \cup Live(current) \subseteq DOMAIN tables
    /\ \A n \in Live(manifest) : n < manifest.nextFile
    /\ \A w \in InTables(Live(manifest)) : w <= manifest.lastSequence

\* What has been in a table is in one.
Settled == settled \subseteq InTables(Live(manifest))

Running == phase \in {"open", "installed"}

\* A process that does not run yet has nothing but what it has read and written.
Quiet ==
    ~Running => /\ mem = {} /\ imm = {} /\ writing = 0
                /\ built = 0 /\ output = 0 /\ work = "idle"
                /\ ~bgError

\* The numbers in use are behind nextFile.
Numbered ==
    phase # "down" =>
        /\ \A n \in Live(manifest) \cup Live(current) \cup edit \cup {built, output} :
               n < nextFile
        /\ \A n \in DOMAIN logs : n < nextFile \/ n \in replay
        /\ manifest.logNumber < nextFile
        /\ \A w \in InTables(Live(manifest)) : w <= lastSequence

\* What is not to be replayed any more is in the tables written for it.
Recovering ==
    phase \in {"recovering", "created"} =>
        /\ edit \subseteq DOMAIN tables
        /\ InTables(edit) \subseteq Recoverable
        /\ \A w \in InTables(edit) : w <= lastSequence
        /\ \A n \in replay : n >= manifest.logNumber
        /\ \A n \in DOMAIN logs : n >= manifest.logNumber /\ n \notin replay =>
               ToSet(logs[n]) \subseteq InTables(edit)

\* The log of the memtable is the last one.
LogOpen ==
    phase \in {"created", "open", "installed"} =>
        /\ replay = {}
        /\ logNumber \in DOMAIN logs
        /\ manifest.logNumber <= logNumber
        /\ \A n \in DOMAIN logs : n <= logNumber
        /\ phase = "created" => logs[logNumber] = <<>>

\* The memtables are what the logs hold that the version still needs.
Logged ==
    Running =>
        /\ ToSet(logs[logNumber]) = mem \cup ({writing} \ {0})
        /\ writing # 0 => writing = lastSequence + 1
        /\ \A w \in mem \cup imm : w <= lastSequence
        /\ current.logNumber <= manifest.logNumber
        /\ \A n \in DOMAIN logs : current.logNumber <= n /\ n < logNumber =>
               ToSet(logs[n]) \subseteq imm
        /\ imm \subseteq Recoverable

\* The version and the MANIFEST hold the same, but for a table of imm that may
\* or may not have come to the disk.
Twins ==
    /\ ~bgError => current = manifest
    /\ Running => /\ InTables(Live(current)) \subseteq InTables(Live(manifest))
                  /\ InTables(Live(manifest)) \subseteq
                         InTables(Live(current)) \cup imm

\* Tables under way hold what they are to replace.
UnderWay ==
    Running =>
        /\ built # 0 => /\ built \in DOMAIN tables /\ tables[built] = imm
                         /\ imm # {}
        /\ work = "merging" => /\ output # 0 /\ output \in DOMAIN tables
                               /\ edit \subseteq Live(current)
                               /\ tables[output] = InTables(edit)
        /\ work # "merging" => output = 0 /\ edit = {}

New == saving[1].new0 \cup saving[1].new1

\* An edit on its way is its caller's.
Saving ==
    saving # <<>> =>
        /\ phase \in {"created", "open"}
        /\ saving[1].nextFile <= nextFile
        /\ \A n \in Live(manifest) \cup New : n < saving[1].nextFile
        /\ \A w \in InTables(Live(manifest) \cup New) : w <= saving[1].lastSequence
        /\ phase = "created" => /\ New = edit /\ saving[1].deleted = {}
                                /\ saving[1].logNumber = logNumber
        /\ phase = "open" /\ built # 0 =>
               /\ New = {built} /\ saving[1].deleted = {}
               /\ saving[1].logNumber = logNumber
        /\ phase = "open" /\ built = 0 =>
               /\ work = "merging"
               /\ New = {output} /\ saving[1].deleted = edit
               /\ saving[1].logNumber = current.logNumber

\* A memtable takes no more than it may.
Bounded == /\ IsFiniteSet(mem) /\ Cardinality(mem) <= BufferSize
           /\ writing # 0 => Cardinality(mem) < BufferSize
           /\ bgError => work # "scheduled"

\* That nothing accepted is lost when a log is removed (Saved, FailToSave and
\* DeleteObsoleteFiles) needs to be known of the logs and tables at all times:
\* what an older log holds is in imm (Logged), imm is in the table to install
\* (UnderWay), and the edit on its way is still right although writers went on
\* while it was written (Saving).
IInv == /\ DiskTyped /\ ProcessTyped /\ Named /\ Settled /\ Quiet /\ Numbered
        /\ Recovering /\ LogOpen /\ Logged /\ Twins /\ UnderWay /\ Saving /\ Bounded

--------------------------------------------------------------------------------
(* Least and greatest elements.                                               *)

LEMMA MinIsIn ==
    ASSUME NEW S \in SUBSET Nat, S # {}
    PROVE  Min(S) \in S /\ \A n \in S : Min(S) <= n
<1> DEFINE R == OpToRel(<, Nat)
<1>1. IsWellFoundedOn(R, Nat)
  BY NatLessThanWellFounded
<1>2. \A x, y \in Nat : y < x => <<y, x>> \in R
  BY Zenon DEF OpToRel
<1> HIDE DEF R
<1>3. PICK x \in S : \A y \in S : <<y, x>> \notin R
  BY <1>1, WFMin
<1>4. \A y \in S : ~(y < x)
  BY <1>2, <1>3
<1>5. \A y \in S : x =< y
  BY <1>4
<1> QED BY <1>5 DEF Min

LEMMA MaxIsIn ==
    ASSUME NEW N \in Nat, NEW S \in SUBSET (0..N), S # {}
    PROVE  Max(S) \in S /\ \A n \in S : n <= Max(S)
<1> DEFINE U == {k \in Nat : \A x \in S : x <= k}
<1>1. U # {} /\ U \in SUBSET Nat
  BY N \in U
<1>2. Min(U) \in U /\ \A k \in U : Min(U) <= k
  BY <1>1, MinIsIn
<1>3. Min(U) \in S
  <2> SUFFICES ASSUME Min(U) \notin S PROVE FALSE
    OBVIOUS
  <2> DEFINE u == Min(U)
  <2>0. u \in Nat /\ (\A y \in S : y <= u) /\ u \notin S
    BY <1>2
  <2> HIDE DEF u, U
  <2>1. PICK x \in S : TRUE
    OBVIOUS
  <2>3. x \in Nat /\ x < u
    <3>1. x <= u /\ x # u /\ x \in Nat
      BY <2>0, <2>1
    <3> QED BY <2>0, <3>1
  <2>2. u - 1 \in Nat /\ \A y \in S : y <= u - 1
    BY <2>0, <2>3
  <2> USE DEF U, u
  <2>4. Min(U) - 1 \in U
    BY <2>2
  <2> QED BY <1>2, <2>0, <2>2, <2>4
<1>4. \A y \in S : Min(U) >= y
  BY <1>2
<1>5. Max(S) \in S /\ \A y \in S : Max(S) >= y
  BY <1>3, <1>4 DEF Max
<1> QED BY <1>5

--------------------------------------------------------------------------------
(* What tables and logs hold.                                                 *)

LEMMA InTablesIs ==
    /\ \A S : \A w : w \in InTables(S) <=> \E n \in S : w \in tables[n]
    /\ \A S : \A w : w \in InTables(S)' <=> \E n \in S : w \in tables'[n]
BY DEF InTables

LEMMA InTablesJoin ==
    /\ \A S, T : InTables(S \cup T) = InTables(S) \cup InTables(T)
    /\ \A n : InTables({n}) = tables[n]
    /\ \A S, T : S \subseteq T => InTables(S) \subseteq InTables(T)
    /\ InTables({}) = {}
    /\ \A S, n : InTables(S \cup {n})' = InTables(S)' \cup tables'[n]
<1>1. \A S, T : InTables(S \cup T) = InTables(S) \cup InTables(T)
  BY DEF InTables
<1>2. \A n : InTables({n}) = tables[n]
  BY DEF InTables
<1>3. \A S, T : S \subseteq T => InTables(S) \subseteq InTables(T)
  BY DEF InTables
<1>4. InTables({}) = {}
  BY DEF InTables
<1>5. \A S, n : InTables(S \cup {n})' = InTables(S)' \cup tables'[n]
  BY DEF InTables
<1> QED BY <1>1, <1>2, <1>3, <1>4, <1>5

LEMMA RecoverableIs ==
    /\ \A w : w \in Recoverable <=>
           \/ w \in InTables(Live(manifest))
           \/ \E n \in DOMAIN logs : n >= manifest.logNumber /\ w \in ToSet(logs[n])
    /\ \A w : w \in Recoverable' <=>
           \/ w \in InTables(Live(manifest))'
           \/ \E n \in DOMAIN logs' : n >= manifest'.logNumber /\ w \in ToSet(logs'[n])
BY DEF Recoverable

\* A table under a number that S does not have changes nothing for S.
LEMMA TableAdded ==
    ASSUME NEW t, NEW X, tables' = With(tables, t, X)
    PROVE  /\ DOMAIN tables' = DOMAIN tables \cup {t}
           /\ tables'[t] = X
           /\ \A n \in DOMAIN tables : n # t => tables'[n] = tables[n]
           /\ \A S : S \subseteq DOMAIN tables /\ t \notin S =>
                  InTables(S)' = InTables(S)
<1>1. /\ DOMAIN tables' = DOMAIN tables \cup {t}
      /\ tables'[t] = X
      /\ \A n \in DOMAIN tables : n # t => tables'[n] = tables[n]
  BY DEF With
<1>2. ASSUME NEW S, S \subseteq DOMAIN tables, t \notin S
      PROVE  InTables(S)' = InTables(S)
  <2>1. \A n \in S : tables'[n] = tables[n]
    BY <1>1, <1>2
  <2>2. UNION {tables'[n] : n \in S} = UNION {tables[n] : n \in S}
    BY <2>1
  <2> QED BY <2>2 DEF InTables
<1> QED BY <1>1, <1>2

LEMMA TablesRemoved ==
    ASSUME NEW S, tables' = Without(tables, DOMAIN tables \ S)
    PROVE  /\ DOMAIN tables' = DOMAIN tables \cap S
           /\ \A n \in DOMAIN tables \cap S : tables'[n] = tables[n]
           /\ \A T : T \subseteq DOMAIN tables \cap S => InTables(T)' = InTables(T)
<1>1. /\ DOMAIN tables' = DOMAIN tables \cap S
      /\ \A n \in DOMAIN tables \cap S : tables'[n] = tables[n]
  BY DEF Without
<1>2. ASSUME NEW T, T \subseteq DOMAIN tables \cap S
      PROVE  InTables(T)' = InTables(T)
  <2>1. \A n \in T : tables'[n] = tables[n]
    BY <1>1, <1>2
  <2>2. UNION {tables'[n] : n \in T} = UNION {tables[n] : n \in T}
    BY <2>1
  <2> QED BY <2>2 DEF InTables
<1> QED BY <1>1, <1>2

LEMMA DiskSame ==
    ASSUME UNCHANGED disk
    PROVE  (\A S : InTables(S)' = InTables(S)) /\ Recoverable' = Recoverable
BY DEF disk, Recoverable, InTables

LEMMA TablesTyped ==
    ASSUME IInv
    PROVE  /\ MaxWrites \in Nat /\ Writes \subseteq Nat
           /\ \A S : S \subseteq DOMAIN tables => InTables(S) \subseteq Writes
           /\ Live(manifest) \subseteq DOMAIN tables
           /\ Live(current) \subseteq DOMAIN tables
           /\ InTables(Live(manifest)) \subseteq Writes
           /\ InTables(Live(current)) \subseteq Writes
<1>1. MaxWrites \in Nat /\ Writes \subseteq Nat
  BY LevelDbAssumption DEF Writes
<1>2. \A S : S \subseteq DOMAIN tables => InTables(S) \subseteq Writes
  BY DEF IInv, DiskTyped, InTables
<1>3. Live(manifest) \subseteq DOMAIN tables /\ Live(current) \subseteq DOMAIN tables
  BY DEF IInv, Named
<1> QED BY <1>1, <1>2, <1>3

LEMMA SavingIs ==
    ASSUME IInv
    PROVE  saving # <<>> => /\ saving = <<saving[1]>>
                            /\ saving[1] \in VersionEdit
BY DEF IInv, ProcessTyped

LEMMA ToSetFacts ==
    /\ ToSet(<<>>) = {}
    /\ \A S : \A s \in Seq(S) : ToSet(s) \subseteq S
    /\ \A S : \A s \in Seq(S), e \in S : /\ Append(s, e) \in Seq(S)
                                         /\ ToSet(Append(s, e)) = ToSet(s) \cup {e}
<1>1. ToSet(<<>>) = {}
  BY DEF ToSet
<1>2. ASSUME NEW S, NEW s \in Seq(S) PROVE ToSet(s) \subseteq S
  BY DEF ToSet
<1>3. ASSUME NEW S, NEW s \in Seq(S), NEW e \in S
      PROVE  /\ Append(s, e) \in Seq(S)
             /\ ToSet(Append(s, e)) = ToSet(s) \cup {e}
  <2>1. /\ Append(s, e) \in Seq(S) /\ DOMAIN s = 1..Len(s)
        /\ DOMAIN Append(s, e) = 1..(Len(s) + 1) /\ Len(s) \in Nat
        /\ \A i \in DOMAIN s : Append(s, e)[i] = s[i]
        /\ Append(s, e)[Len(s) + 1] = e
    OBVIOUS
  <2>2. DOMAIN Append(s, e) = DOMAIN s \cup {Len(s) + 1}
    BY <2>1
  <2> QED BY <2>1, <2>2 DEF ToSet
<1> QED BY <1>1, <1>2, <1>3

\* A running database has no number beyond the last one, but for the write that
\* is in its log.
LEMMA RecoverableBelow ==
    ASSUME IInv
    PROVE  /\ Recoverable \subseteq Writes
           /\ Running => \A w \in Recoverable : w <= lastSequence \/ w = writing
<1>1. \A n \in DOMAIN logs : ToSet(logs[n]) \subseteq Writes
  BY ToSetFacts DEF IInv, DiskTyped
<1>2. Recoverable \subseteq Writes
  BY <1>1, TablesTyped, RecoverableIs
<1>3. ASSUME Running, NEW w \in Recoverable PROVE w <= lastSequence \/ w = writing
  <2>1. CASE w \in InTables(Live(manifest))
    BY <1>3, <2>1 DEF IInv, Numbered, Running
  <2>2. CASE \E n \in DOMAIN logs : n >= manifest.logNumber /\ w \in ToSet(logs[n])
    <3>1. PICK n \in DOMAIN logs : n >= manifest.logNumber /\ w \in ToSet(logs[n])
      BY <2>2
    <3>2. n \in Nat /\ n <= logNumber /\ logNumber \in Nat
          /\ current.logNumber <= manifest.logNumber
          /\ current.logNumber \in Nat /\ manifest.logNumber \in Nat
      BY <1>3 DEF IInv, LogOpen, Logged, DiskTyped, ProcessTyped, Version, Running
    <3>3. CASE n = logNumber
      BY <3>1, <3>3, <1>3 DEF IInv, Logged
    <3>4. CASE n < logNumber
      <4>1. ToSet(logs[n]) \subseteq imm
        BY <3>1, <3>2, <3>4, <1>3 DEF IInv, Logged
      <4> QED BY <4>1, <3>1, <1>3 DEF IInv, Logged
    <3> QED BY <3>2, <3>3, <3>4
  <2> QED BY <2>1, <2>2, RecoverableIs
<1> QED BY <1>2, <1>3

--------------------------------------------------------------------------------
(* One lemma per action.                                                      *)

LEMMA InsertIntoKeeps ==
    ASSUME IInv, InsertInto
    PROVE  IInv' /\ Recoverable' = Recoverable
<1> USE DEF InsertInto, known, opening, background, counts, disk
<1>0. (\A S : InTables(S)' = InTables(S)) /\ Recoverable' = Recoverable
  BY DiskSame
<1>t. /\ writing \in Nat /\ lastSequence \in Nat /\ writing = lastSequence + 1
      /\ mem \subseteq Nat /\ imm \subseteq Nat
  BY TablesTyped DEF IInv, ProcessTyped, Logged, Running
<1>1. DiskTyped'
  BY DEF IInv, DiskTyped
<1>2. ProcessTyped'
  BY TablesTyped DEF IInv, ProcessTyped, Writes
<1>3. Named' /\ Settled' /\ Quiet'
  BY <1>0 DEF IInv, Named, Settled, Quiet, Running, Live
<1>4. Numbered'
  <2>1. \A w \in InTables(Live(manifest)) : w <= lastSequence /\ w \in Nat
    BY TablesTyped DEF IInv, Numbered
  <2>2. \A w \in InTables(Live(manifest))' : w <= lastSequence'
    BY <1>0, <1>t, <2>1 DEF Live
  <2> QED BY <2>2 DEF IInv, Numbered, Live
<1>5. Recovering' /\ LogOpen'
  BY <1>0 DEF IInv, Recovering, LogOpen
<1>6. Logged'
  BY <1>0, <1>t DEF IInv, Logged, Running
<1>7. Twins' /\ UnderWay'
  BY <1>0 DEF IInv, Twins, UnderWay, Running, Live
<1>8. Saving'
  BY <1>0 DEF IInv, Saving, New, Live
<1>9. Bounded'
  <2>1. IsFiniteSet(mem) /\ Cardinality(mem) < BufferSize /\ BufferSize \in Nat
    BY LevelDbAssumption DEF IInv, Bounded
  <2>2. Cardinality(mem) \in Nat
    BY <2>1, FS_CardinalityType
  <2>3. /\ IsFiniteSet(mem \cup {writing})
        /\ Cardinality(mem \cup {writing}) \in Nat
        /\ Cardinality(mem \cup {writing}) <= Cardinality(mem) + 1
    BY <2>1, <2>2, FS_AddElement
  <2> QED BY <2>1, <2>2, <2>3 DEF IInv, Bounded
<1> QED BY <1>0, <1>1, <1>2, <1>3, <1>4, <1>5, <1>6, <1>7, <1>8, <1>9 DEF IInv

LEMMA RecoverKeeps ==
    ASSUME IInv, Recover
    PROVE  IInv' /\ Recoverable' = Recoverable
<1> USE DEF Recover, disk, background, counts
<1>0. (\A S : InTables(S)' = InTables(S)) /\ Recoverable' = Recoverable
  BY DiskSame
<1>q. saving = <<>>
  BY DEF IInv, Saving
<1>n. /\ manifest.nextFile \in Nat /\ manifest.logNumber \in Nat
      /\ nextFile' \in Nat
      /\ manifest.nextFile < nextFile' /\ manifest.logNumber < nextFile'
  BY DEF IInv, DiskTyped, Version, MarkUsed
<1>1. DiskTyped'
  BY DEF IInv, DiskTyped
<1>2. ProcessTyped'
  BY <1>n DEF IInv, ProcessTyped, DiskTyped, Version
<1>3. Named' /\ Settled' /\ Quiet'
  BY <1>0 DEF IInv, Named, Settled, Quiet, Running, Live
<1>4. Numbered'
  <2>1. \A n \in Live(manifest) : n \in Nat /\ n < manifest.nextFile
    BY DEF IInv, DiskTyped, Named
  <2>2. \A n \in Live(manifest)' : n < nextFile'
    BY <1>n, <2>1 DEF Live
  <2>3. built = 0 /\ output = 0
    BY DEF IInv, Quiet, Running
  <2>4. \A n \in DOMAIN logs : n < nextFile' \/ n \in replay'
    BY <1>n DEF IInv, DiskTyped
  <2>5. \A w \in InTables(Live(manifest))' : w <= lastSequence'
    BY <1>0 DEF IInv, Named, Live
  <2> QED BY <1>n, <2>2, <2>3, <2>4, <2>5 DEF Numbered, Live
<1>5. Recovering'
  <2>1. edit' = {} /\ InTables(edit)' = {}
    BY <1>0, InTablesJoin
  <2> QED BY <2>1 DEF Recovering
<1>6. LogOpen' /\ Logged' /\ UnderWay' /\ Saving'
  BY <1>q DEF LogOpen, Logged, UnderWay, Running, Saving
<1>7. Twins'
  BY <1>0 DEF IInv, Twins, Running
<1>8. Bounded'
  BY DEF IInv, Bounded
<1> QED BY <1>0, <1>1, <1>2, <1>3, <1>4, <1>5, <1>6, <1>7, <1>8 DEF IInv

LEMMA CreateLogKeeps ==
    ASSUME IInv, CreateLog
    PROVE  IInv' /\ Recoverable' = Recoverable
<1> USE DEF CreateLog, background, counts
<1>l. /\ DOMAIN logs' = DOMAIN logs \cup {nextFile}
      /\ logs'[nextFile] = <<>>
      /\ \A n \in DOMAIN logs : n < nextFile /\ n # nextFile /\ logs'[n] = logs[n]
      /\ nextFile \in Nat
  BY DEF With, IInv, Numbered, ProcessTyped, DiskTyped
<1>s. ToSet(<<>>) = {}
  BY DEF ToSet
<1>0. /\ \A S : InTables(S)' = InTables(S)
      /\ Recoverable' = Recoverable
  <2>1. \A S : InTables(S)' = InTables(S)
    BY DEF InTables
  <2>2. \A w : w \in Recoverable' <=> w \in Recoverable
    BY <1>l, <1>s, <2>1, RecoverableIs DEF Live
  <2> QED BY <2>1, <2>2
<1>q. saving = <<>>
  BY DEF IInv, Saving
<1>1. DiskTyped'
  <2>1. <<>> \in Seq(Writes)
    OBVIOUS
  <2>2. logs' \in [DOMAIN logs' -> Seq(Writes)] /\ DOMAIN logs' \subseteq Nat
    BY <1>l, <2>1 DEF IInv, DiskTyped, With
  <2> QED BY <2>2 DEF IInv, DiskTyped
<1>2. ProcessTyped'
  BY <1>l DEF IInv, ProcessTyped
<1>3. Named' /\ Settled' /\ Quiet'
  BY <1>0 DEF IInv, Named, Settled, Quiet, Running, Live
<1>4. Numbered'
  <2>1. /\ \A n \in Live(manifest) \cup Live(current) \cup edit \cup {built, output} :
               n < nextFile
        /\ manifest.logNumber < nextFile
        /\ \A w \in InTables(Live(manifest)) : w <= lastSequence
    BY DEF IInv, Numbered
  <2>2. /\ Live(manifest) \cup Live(current) \cup edit \cup {built, output} \subseteq Nat
        /\ manifest.logNumber \in Nat
    BY TablesTyped DEF IInv, DiskTyped, Version, ProcessTyped, Recovering
  <2>3. \A n \in Nat : n <= nextFile => n < nextFile'
    BY <1>l
  <2>4. \A n \in DOMAIN logs' : n < nextFile'
    BY <1>l, <2>3 DEF IInv, DiskTyped
  <2>5. /\ \A n \in Live(manifest) \cup Live(current) \cup edit \cup {built, output} :
               n < nextFile'
        /\ manifest.logNumber < nextFile'
    <3>1. nextFile' = nextFile + 1
      OBVIOUS
    <3> HIDE DEF CreateLog
    <3>2. \A k \in Nat : k < nextFile => k < nextFile'
      BY <3>1, <1>l
    <3> QED BY <3>2, <2>1, <2>2
  <2>6. \A w \in InTables(Live(manifest))' : w <= lastSequence'
    BY <1>0, <2>1 DEF Live
  <2> QED BY <2>4, <2>5, <2>6 DEF Numbered, Live
<1>5. Recovering'
  BY <1>0, <1>l, <1>s DEF IInv, Recovering
<1>6. LogOpen'
  BY <1>l DEF IInv, LogOpen, Numbered, DiskTyped, Version
<1>7. Logged' /\ UnderWay' /\ Saving'
  BY <1>q DEF Logged, UnderWay, Running, Saving
<1>8. Twins' /\ Bounded'
  BY <1>0 DEF IInv, Twins, Running, Bounded
<1> QED BY <1>0, <1>1, <1>2, <1>3, <1>4, <1>5, <1>6, <1>7, <1>8 DEF IInv

LEMMA FinishOpenKeeps ==
    ASSUME IInv, FinishOpen
    PROVE  IInv' /\ Recoverable' = Recoverable
<1> USE DEF FinishOpen, disk, opening, background, counts
<1>0. (\A S : InTables(S)' = InTables(S)) /\ Recoverable' = Recoverable
  BY DiskSame
<1>e. /\ saving' = <<[new0 |-> edit, new1 |-> {}, deleted |-> {},
                      logNumber |-> logNumber, nextFile |-> nextFile,
                      lastSequence |-> lastSequence]>>
      /\ edit \subseteq Nat
  BY DEF LogAndApply, IInv, Recovering, DiskTyped
<1>1. DiskTyped'
  BY DEF IInv, DiskTyped
<1>2. ProcessTyped'
  <2>1. saving'[1] \in VersionEdit /\ saving' = <<saving'[1]>>
    BY <1>e DEF IInv, ProcessTyped, VersionEdit
  <2> QED BY <2>1 DEF IInv, ProcessTyped
<1>3. Named' /\ Settled' /\ Quiet'
  BY <1>0 DEF IInv, Named, Settled, Quiet, Running, Live
<1>4. Numbered' /\ Recovering' /\ LogOpen' /\ Bounded'
  BY <1>0 DEF IInv, Numbered, Recovering, LogOpen, Bounded, Live
<1>5. Logged' /\ UnderWay' /\ Twins'
  BY <1>0 DEF IInv, Logged, UnderWay, Twins, Running
<1>6. Saving'
  <2>1. New' = edit /\ saving'[1].deleted = {} /\ saving'[1].logNumber = logNumber
        /\ saving'[1].nextFile = nextFile /\ saving'[1].lastSequence = lastSequence
    BY <1>e DEF New
  <2>2. \A n \in Live(manifest) \cup edit : n < nextFile
    BY DEF IInv, Numbered
  <2>3. \A w \in InTables(Live(manifest) \cup edit) : w <= lastSequence
    BY InTablesJoin DEF IInv, Numbered, Recovering
  <2>4. nextFile <= nextFile
    BY DEF IInv, ProcessTyped
  <2> QED BY <1>0, <2>1, <2>2, <2>3, <2>4 DEF Saving, Live
<1> QED BY <1>0, <1>1, <1>2, <1>3, <1>4, <1>5, <1>6 DEF IInv

LEMMA RecoverLogFileKeeps ==
    ASSUME IInv, RecoverLogFile
    PROVE  IInv' /\ Recoverable' = Recoverable
<1> USE DEF RecoverLogFile, background, counts
<1> DEFINE n == Min(replay)
           found == ToSet(logs[n])
<1>p. phase = "recovering" /\ phase' = "recovering" /\ saving = <<>> /\ saving' = <<>>
  BY DEF IInv, Saving
<1>t. /\ replay \in SUBSET Nat /\ replay # {}
      /\ nextFile \in Nat /\ lastSequence \in 0..MaxWrites /\ MaxWrites \in Nat
      /\ edit \subseteq DOMAIN tables /\ edit \subseteq Nat
      /\ Live(manifest) \subseteq Nat /\ Live(current) \subseteq Nat
  BY <1>p, TablesTyped DEF IInv, ProcessTyped, DiskTyped, Recovering
<1>n. /\ n \in replay /\ n \in DOMAIN logs /\ n \in Nat
      /\ n >= manifest.logNumber
  BY <1>p, <1>t, MinIsIn DEF IInv, Recovering, ProcessTyped
<1>f. found \subseteq Writes /\ found \subseteq 0..MaxWrites
  <2>1. logs[n] \in Seq(Writes)
    BY <1>n DEF IInv, DiskTyped
  <2> QED BY <1>t, <2>1 DEF ToSet, Writes
<1>m. /\ lastSequence' \in 0..MaxWrites
      /\ lastSequence <= lastSequence'
      /\ \A w \in found : w <= lastSequence'
  <2>1. found \cup {lastSequence} \in SUBSET (0..MaxWrites)
    BY <1>f, <1>t
  <2> QED BY <1>t, <2>1, MaxIsIn
<1>u. /\ nextFile' \in Nat /\ nextFile <= nextFile' /\ n < nextFile'
      /\ found # {} => nextFile < nextFile'
  BY <1>t, <1>n DEF MarkUsed
<1> HIDE DEF n
<1>b. nextFile \notin Live(manifest) \cup Live(current) \cup edit
  BY <1>p, <1>t DEF IInv, Numbered
<1>i. /\ InTables(Live(manifest))' = InTables(Live(manifest))
      /\ InTables(Live(current))' = InTables(Live(current))
      /\ InTables(edit)' = InTables(edit) \cup found
      /\ edit' \subseteq DOMAIN tables' /\ DOMAIN tables \subseteq DOMAIN tables'
  <2>1. CASE found = {}
    <3>1. UNCHANGED <<tables, edit, manifest, current>>
      BY <2>1 DEF n
    <3> QED BY <2>1, <3>1, <1>t DEF InTables, Live
  <2>2. CASE found # {}
    <3>1. /\ tables' = With(tables, nextFile, found) /\ edit' = edit \cup {nextFile}
          /\ manifest' = manifest /\ current' = current
      BY <2>2 DEF n
    <3>2. /\ DOMAIN tables' = DOMAIN tables \cup {nextFile}
          /\ tables'[nextFile] = found
          /\ \A S : S \subseteq DOMAIN tables /\ nextFile \notin S =>
                 InTables(S)' = InTables(S)
      BY <3>1, TableAdded
    <3>3. \E S, k : edit' = S \cup {k} /\ S = edit /\ k = nextFile
      BY <3>1
    <3>4. InTables(edit)' = InTables(edit) \cup found
      BY <3>2, <3>3, InTablesJoin, <1>b, <1>t
    <3>5. /\ InTables(Live(manifest))' = InTables(Live(manifest))
          /\ InTables(Live(current))' = InTables(Live(current))
      BY <3>1, <3>2, <1>b, TablesTyped DEF Live
    <3> QED BY <3>1, <3>2, <3>4, <3>5, <1>t
  <2> QED BY <2>1, <2>2
<1>0. Recoverable' = Recoverable
  <2>1. \A w : w \in Recoverable' <=> w \in Recoverable
    BY <1>i, RecoverableIs
  <2> QED BY <2>1
<1>1. DiskTyped'
  <2>1. CASE found = {}
    BY <2>1 DEF IInv, DiskTyped, n
  <2>2. CASE found # {}
    BY <2>2, <1>f, <1>t DEF IInv, DiskTyped, With, n
  <2> QED BY <2>1, <2>2
<1>2. ProcessTyped'
  BY <1>m, <1>u DEF IInv, ProcessTyped
<1>3. Named' /\ Settled' /\ Quiet'
  BY <1>i DEF IInv, Named, Settled, Quiet, Running, Live
<1>4. Numbered'
  <2>1. /\ \A k \in Live(manifest) \cup Live(current) \cup edit \cup {built, output} :
               k < nextFile
        /\ \A k \in DOMAIN logs : k < nextFile \/ k \in replay
        /\ manifest.logNumber < nextFile
        /\ \A w \in InTables(Live(manifest)) : w <= lastSequence
    BY <1>p DEF IInv, Numbered
  <2>2. /\ Live(manifest) \cup Live(current) \cup edit \cup {built, output} \subseteq Nat
        /\ manifest.logNumber \in Nat /\ DOMAIN logs \subseteq Nat
    BY <1>t DEF IInv, DiskTyped, Version, ProcessTyped
  <2>3. \A k \in Nat : k < nextFile => k < nextFile'
    BY <1>t, <1>u
  <2>4. \A k \in DOMAIN logs : k < nextFile' \/ k \in replay \ {n}
    BY <2>1, <2>2, <2>3, <1>u
  <2>5. /\ \A k \in Live(manifest) \cup Live(current) \cup edit \cup {built, output} :
               k < nextFile'
        /\ manifest.logNumber < nextFile'
    BY <2>1, <2>2, <2>3
  <2>6. edit' = edit \/ (edit' = edit \cup {nextFile} /\ nextFile < nextFile')
    BY <1>u DEF n
  <2>7. \A w \in InTables(Live(manifest))' : w <= lastSequence'
    BY <1>i, <1>m, <1>t, <2>1, TablesTyped
  <2> QED BY <2>4, <2>5, <2>6, <2>7 DEF Numbered, Live, n
<1>5. Recovering'
  <2>1. /\ InTables(edit) \subseteq Recoverable
        /\ \A w \in InTables(edit) : w <= lastSequence
        /\ \A k \in DOMAIN logs : k >= manifest.logNumber /\ k \notin replay =>
               ToSet(logs[k]) \subseteq InTables(edit)
        /\ \A k \in replay : k >= manifest.logNumber
    BY <1>p DEF IInv, Recovering
  <2>2. InTables(edit)' \subseteq Recoverable'
    BY <1>0, <1>i, <1>n, <2>1, RecoverableIs
  <2>3. \A w \in InTables(edit)' : w <= lastSequence'
    <3>1. InTables(edit) \subseteq Nat /\ lastSequence \in Nat /\ lastSequence' \in Nat
      BY <1>t, <1>m, TablesTyped
    <3> HIDE DEF found, RecoverLogFile
    <3> QED BY <1>i, <1>m, <2>1, <3>1
  <2>4. \A k \in DOMAIN logs' : k >= manifest'.logNumber /\ k \notin replay' =>
               ToSet(logs'[k]) \subseteq InTables(edit)'
    BY <1>i, <2>1 DEF n
  <2>5. \A k \in replay' : k >= manifest'.logNumber
    BY <2>1
  <2> QED BY <1>i, <2>2, <2>3, <2>4, <2>5 DEF Recovering
<1>6. LogOpen' /\ Logged' /\ UnderWay' /\ Saving'
  BY <1>p DEF LogOpen, Logged, UnderWay, Running, Saving
<1>7. Twins' /\ Bounded'
  BY <1>p DEF IInv, Twins, Running, Bounded
<1> QED BY <1>0, <1>1, <1>2, <1>3, <1>4, <1>5, <1>6, <1>7 DEF IInv

LEMMA WriteLogKeeps ==
    ASSUME IInv, WriteLog
    PROVE  /\ IInv'
           /\ Recoverable' = Recoverable \cup {lastSequence + 1}
           /\ lastSequence + 1 \in Writes
           /\ \A w \in Recoverable : w < lastSequence + 1
<1> USE DEF WriteLog, MayWrite, known, opening, background, counts
<1> DEFINE w == lastSequence + 1
<1>w. /\ w \in Writes /\ w # 0 /\ w \in 0..MaxWrites /\ lastSequence \in Nat
      /\ writing = 0 /\ writing' = w /\ phase = "open" /\ phase' = "open"
  BY LevelDbAssumption DEF IInv, ProcessTyped, Writes
<1>l. /\ DOMAIN logs' = DOMAIN logs /\ logNumber \in DOMAIN logs
      /\ \A n \in DOMAIN logs : n # logNumber => logs'[n] = logs[n]
      /\ logs'[logNumber] = Append(logs[logNumber], w)
      /\ logs' \in [DOMAIN logs' -> Seq(Writes)]
      /\ ToSet(logs'[logNumber]) = ToSet(logs[logNumber]) \cup {w}
  <2>1. logNumber \in DOMAIN logs /\ logs[logNumber] \in Seq(Writes)
    BY DEF IInv, LogOpen, DiskTyped
  <2>2. /\ Append(logs[logNumber], w) \in Seq(Writes)
        /\ ToSet(Append(logs[logNumber], w)) = ToSet(logs[logNumber]) \cup {w}
    BY <1>w, <2>1, ToSetFacts
  <2> QED BY <2>1, <2>2 DEF IInv, DiskTyped
<1>m. manifest.logNumber <= logNumber
  BY DEF IInv, LogOpen
<1>i. \A S : InTables(S)' = InTables(S)
  BY DEF InTables
<1>0. Recoverable' = Recoverable \cup {w}
  <2> HIDE DEF w
  <2>1. \A x : x \in Recoverable' <=> x \in Recoverable \/ x = w
    BY <1>l, <1>i, <1>m, RecoverableIs DEF Live
  <2> QED BY <2>1
<1>g. \A x \in Recoverable : x < w
  <2>1. \A x \in Recoverable : x \in Nat /\ x # 0
    BY RecoverableBelow, TablesTyped DEF Writes
  <2> QED BY <1>w, <2>1, RecoverableBelow DEF Running
<1>1. DiskTyped'
  BY <1>l DEF IInv, DiskTyped
<1>2. ProcessTyped'
  BY <1>w, <1>l DEF IInv, ProcessTyped
<1>3. Named' /\ Settled' /\ Quiet'
  BY <1>i DEF IInv, Named, Settled, Quiet, Running, Live
<1>4. Numbered' /\ Recovering' /\ LogOpen'
  BY <1>i, <1>l DEF IInv, Numbered, Recovering, LogOpen, Live
<1>5. Logged'
  <2>1. imm \subseteq Recoverable'
    BY <1>0, <1>w DEF IInv, Logged, Running
  <2>2. /\ ToSet(logs'[logNumber]) = mem \cup {w}
        /\ \A x \in mem \cup imm : x <= lastSequence
        /\ current.logNumber <= manifest.logNumber
    BY <1>l, <1>w DEF IInv, Logged, Running
  <2>3. \A n \in DOMAIN logs' : current.logNumber <= n /\ n < logNumber =>
            ToSet(logs'[n]) \subseteq imm
    <3> SUFFICES ASSUME NEW n \in DOMAIN logs, current.logNumber <= n, n < logNumber
                 PROVE  ToSet(logs'[n]) \subseteq imm
      BY <1>l
    <3>1. n # logNumber
      BY DEF IInv, DiskTyped, ProcessTyped
    <3> QED BY <3>1, <1>l, <1>w DEF IInv, Logged, Running
  <2> QED BY <2>1, <2>2, <2>3, <1>w DEF Logged
<1>6. Twins' /\ UnderWay'
  BY <1>i DEF IInv, Twins, UnderWay, Running, Live
<1>7. Saving'
  BY <1>i DEF IInv, Saving, New, Live
<1>8. Bounded'
  <2>1. Cardinality(mem) < BufferSize
    BY DEF HasRoom
  <2> QED BY <2>1 DEF IInv, Bounded
<1> QED BY <1>w, <1>g, <1>0, <1>1, <1>2, <1>3, <1>4, <1>5, <1>6, <1>7, <1>8 DEF IInv

LEMMA SwitchLogKeeps ==
    ASSUME IInv, SwitchLog
    PROVE  IInv' /\ Recoverable' = Recoverable
<1> USE DEF SwitchLog, MayWrite, counts
<1>p. /\ phase = "open" /\ phase' = "open" /\ writing = 0 /\ writing' = 0
      /\ imm = {} /\ imm' = mem /\ mem' = {} /\ replay = {} /\ built = 0
      /\ built' = 0 /\ saving' = saving /\ current' = current /\ edit' = edit
      /\ manifest' = manifest /\ tables' = tables /\ ~bgError /\ ~bgError'
      /\ nextFile' = nextFile + 1 /\ logNumber' = nextFile /\ output' = output
      /\ nextFile \in Nat /\ nextFile # 0 /\ lastSequence' = lastSequence
  BY DEF IInv, LogOpen, UnderWay, Running, Numbered, ProcessTyped, DiskTyped, Version
<1>l. /\ DOMAIN logs' = DOMAIN logs \cup {nextFile}
      /\ logs'[nextFile] = <<>>
      /\ \A n \in DOMAIN logs : n \in Nat /\ n < nextFile /\ n # nextFile
                                /\ logs'[n] = logs[n]
      /\ logs' \in [DOMAIN logs' -> Seq(Writes)]
  <2>1. \A n \in DOMAIN logs : n \in Nat /\ n < nextFile /\ n # nextFile
    BY <1>p DEF IInv, Numbered, DiskTyped
  <2>2. <<>> \in Seq(Writes)
    OBVIOUS
  <2> QED BY <2>1, <2>2 DEF IInv, DiskTyped, With
<1>i. \A S : InTables(S)' = InTables(S)
  BY DEF InTables
<1>w. /\ work' = work \/ (work = "idle" /\ work' \in {"idle", "scheduled"})
      /\ work' \in {"idle", "scheduled", "merging"}
  BY DEF Rescheduled, IInv, ProcessTyped
<1> HIDE DEF SwitchLog
<1>0. Recoverable' = Recoverable
  <2>1. \A x : x \in Recoverable' <=> x \in Recoverable
    BY <1>l, <1>i, <1>p, ToSetFacts, RecoverableIs DEF Live
  <2> QED BY <2>1
<1>1. DiskTyped'
  BY <1>p, <1>l DEF IInv, DiskTyped, SwitchLog
<1>2. ProcessTyped'
  BY <1>p, <1>l, <1>w DEF IInv, ProcessTyped, SwitchLog
<1>3. Named' /\ Settled' /\ Quiet'
  BY <1>i, <1>p DEF IInv, Named, Settled, Quiet, Running, Live, SwitchLog
<1>4. Numbered'
  <2> DEFINE K == Live(manifest) \cup Live(current) \cup edit \cup {built, output}
  <2>1. /\ \A k \in K : k < nextFile
        /\ manifest.logNumber < nextFile
        /\ \A x \in InTables(Live(manifest)) : x <= lastSequence
    BY <1>p DEF IInv, Numbered
  <2>2. K \subseteq Nat /\ manifest.logNumber \in Nat
    BY <1>p, TablesTyped DEF IInv, DiskTyped, Version, ProcessTyped, UnderWay, Running
  <2>3. \A k \in Nat : k <= nextFile => k < nextFile'
    BY <1>p
  <2>4. /\ \A k \in K : k < nextFile'
        /\ manifest.logNumber < nextFile'
        /\ \A n \in DOMAIN logs' : n < nextFile'
    <3> HIDE DEF K
    <3> QED BY <2>1, <2>2, <2>3, <1>l, <1>p
  <2> QED BY <2>1, <2>4, <1>i, <1>p DEF Numbered, Live
<1>5. Recovering' /\ LogOpen'
  <2>1. manifest.logNumber <= nextFile
    BY <1>p DEF IInv, Numbered, DiskTyped, Version
  <2>2. \A n \in DOMAIN logs' : n <= nextFile
    BY <1>p, <1>l
  <2>3. replay' = {}
    BY <1>p DEF SwitchLog
  <2> QED BY <2>1, <2>2, <2>3, <1>p, <1>l DEF Recovering, LogOpen
<1>6. Logged'
  <2>1. /\ ToSet(logs[logNumber]) = mem /\ logNumber \in DOMAIN logs
        /\ \A x \in mem : x <= lastSequence
        /\ current.logNumber <= manifest.logNumber
        /\ manifest.logNumber <= logNumber
        /\ \A n \in DOMAIN logs : n <= logNumber
        /\ \A n \in DOMAIN logs : current.logNumber <= n /\ n < logNumber =>
               ToSet(logs[n]) \subseteq {}
    BY <1>p DEF IInv, Logged, LogOpen, Running
  <2>2. mem \subseteq Recoverable'
    BY <2>1, <1>0, RecoverableIs
  <2>3. \A n \in DOMAIN logs' : current.logNumber <= n /\ n < nextFile =>
            ToSet(logs'[n]) \subseteq mem
    <3> SUFFICES ASSUME NEW n \in DOMAIN logs, current.logNumber <= n
                 PROVE  ToSet(logs'[n]) \subseteq mem
      BY <1>l, <1>p
    <3>1. n = logNumber \/ n < logNumber
      BY <2>1, <1>l
    <3> QED BY <3>1, <2>1, <1>l
  <2>4. ToSet(logs'[logNumber']) = mem' \cup ({writing'} \ {0})
    BY <1>l, <1>p, ToSetFacts
  <2> QED BY <1>p, <2>1, <2>2, <2>3, <2>4 DEF Logged
<1>7. Twins'
  BY <1>i, <1>p DEF IInv, Twins, Running, Live
<1>8. UnderWay'
  BY <1>i, <1>p, <1>w DEF IInv, UnderWay, Running, Live
<1>9. Saving'
  <2>1. saving # <<>> => saving[1].nextFile \in Nat
    BY SavingIs DEF VersionEdit
  <2>2. saving # <<>> => saving[1].nextFile <= nextFile'
    BY <2>1, <1>p DEF IInv, Saving
  <2>3. saving # <<>> => work' = work
    BY <1>p, <1>w DEF IInv, Saving
  <2> QED BY <2>2, <2>3, <1>i, <1>p DEF IInv, Saving, New, Live
<1>10. Bounded'
  BY <1>p, <1>w, FS_EmptySet, LevelDbAssumption DEF IInv, Bounded
<1> QED BY <1>0, <1>1, <1>2, <1>3, <1>4, <1>5, <1>6, <1>7, <1>8, <1>9, <1>10 DEF IInv

LEMMA BuildTableKeeps ==
    ASSUME IInv, BuildTable
    PROVE  IInv' /\ Recoverable' = Recoverable
<1> USE DEF BuildTable, Working, opening, counts
<1>p. /\ phase = "open" /\ phase' = "open" /\ imm' = imm /\ imm # {} /\ built' = nextFile
      /\ manifest' = manifest /\ current' = current /\ edit' = edit /\ output' = output
      /\ nextFile \in Nat /\ nextFile # 0 /\ nextFile' = nextFile + 1
      /\ saving' = <<>> /\ lastSequence' = lastSequence /\ work' = work
      /\ logs' = logs
      /\ replay = {}
  BY DEF IInv, LogOpen, Numbered, ProcessTyped, DiskTyped, Version
<1>n. /\ \A k \in Live(manifest) \cup Live(current) \cup edit \cup {output} : k < nextFile
      /\ Live(manifest) \cup Live(current) \cup edit \cup {output} \subseteq Nat
      /\ edit \subseteq Live(current)
      /\ Live(current) \subseteq DOMAIN tables
  BY <1>p, TablesTyped DEF IInv, Numbered, UnderWay, Running, ProcessTyped, DiskTyped
<1>t. /\ DOMAIN tables' = DOMAIN tables \cup {nextFile}
      /\ tables'[nextFile] = imm
      /\ \A n \in DOMAIN tables : n # nextFile => tables'[n] = tables[n]
      /\ \A S : S \subseteq DOMAIN tables /\ nextFile \notin S =>
             InTables(S)' = InTables(S)
  BY TableAdded
<1>i. /\ InTables(Live(manifest))' = InTables(Live(manifest))
      /\ InTables(Live(current))' = InTables(Live(current))
      /\ InTables(edit)' = InTables(edit)
  BY <1>p, <1>n, <1>t, TablesTyped DEF Live
<1> HIDE DEF BuildTable
<1>0. Recoverable' = Recoverable
  <2>1. \A x : x \in Recoverable' <=> x \in Recoverable
    BY <1>p, <1>i, RecoverableIs DEF Live
  <2> QED BY <2>1
<1>1. DiskTyped'
  <2>1. nextFile \in Nat /\ imm \subseteq Writes /\ tables' = With(tables, nextFile, imm)
    BY <1>p DEF IInv, ProcessTyped, BuildTable
  <2>2. tables' \in [DOMAIN tables' -> SUBSET Writes]
    BY <2>1 DEF IInv, DiskTyped, With
  <2> QED BY <1>t, <2>1, <2>2 DEF IInv, DiskTyped, BuildTable
<1>2. ProcessTyped'
  BY <1>p DEF IInv, ProcessTyped, BuildTable
<1>3. Named' /\ Settled' /\ Quiet'
  BY <1>i, <1>p, <1>t DEF IInv, Named, Settled, Quiet, Running, Live, BuildTable
<1>4. Numbered'
  <2> DEFINE K == Live(manifest) \cup Live(current) \cup edit \cup {output}
  <2>1. /\ manifest.logNumber < nextFile /\ manifest.logNumber \in Nat
        /\ \A x \in InTables(Live(manifest)) : x <= lastSequence
        /\ \A n \in DOMAIN logs : n < nextFile /\ n \in Nat
    BY <1>p DEF IInv, Numbered, DiskTyped, Version
  <2>2. \A k \in Nat : k <= nextFile => k < nextFile'
    BY <1>p
  <2>3. /\ \A k \in K : k < nextFile'
        /\ manifest.logNumber < nextFile'
        /\ \A n \in DOMAIN logs : n < nextFile'
        /\ nextFile < nextFile'
    <3>1. \A k \in K : k < nextFile /\ k \in Nat
      BY <1>n
    <3> HIDE DEF K
    <3> QED BY <3>1, <2>1, <2>2, <1>p
  <2> QED BY <2>1, <2>3, <1>i, <1>p DEF Numbered, Live
<1>5. Recovering' /\ LogOpen'
  BY <1>p DEF IInv, Recovering, LogOpen, BuildTable
<1>6. Logged' /\ Twins'
  BY <1>0, <1>i, <1>p DEF IInv, Logged, Twins, Running, Live, BuildTable
<1>7. UnderWay'
  <2>1. work = "merging" => /\ output # 0 /\ output \in DOMAIN tables
                            /\ tables[output] = InTables(edit)
    BY <1>p DEF IInv, UnderWay, Running
  <2>2. work # "merging" => output = 0 /\ edit = {}
    BY <1>p DEF IInv, UnderWay, Running
  <2>3. work = "merging" => output # nextFile
    BY <1>n, <1>p
  <2> QED BY <2>1, <2>2, <2>3, <1>i, <1>n, <1>p, <1>t DEF UnderWay, Live
<1>8. Saving' /\ Bounded'
  BY <1>p DEF IInv, Saving, Bounded, BuildTable
<1> QED BY <1>0, <1>1, <1>2, <1>3, <1>4, <1>5, <1>6, <1>7, <1>8 DEF IInv

LEMMA MergeKeeps ==
    ASSUME IInv, Merge
    PROVE  IInv' /\ Recoverable' = Recoverable
<1>1. PICK inputs \in SUBSET Live(current) :
          edit' = inputs /\ tables' = With(tables, nextFile, InTables(inputs))
  BY DEF Merge, Live
<1> USE DEF Merge, Working, opening, counts
<1>p. /\ phase = "open" /\ phase' = "open" /\ imm' = imm /\ imm = {} /\ built' = built
      /\ manifest' = manifest /\ current' = current /\ output' = nextFile
      /\ nextFile \in Nat /\ nextFile # 0 /\ nextFile' = nextFile + 1
      /\ saving' = <<>> /\ lastSequence' = lastSequence /\ work' = "merging"
      /\ logs' = logs /\ built = 0
      /\ replay = {}
  BY DEF IInv, LogOpen, Numbered, ProcessTyped, DiskTyped, Version, UnderWay, Running
<1>n. /\ \A k \in Live(manifest) \cup Live(current) : k < nextFile
      /\ Live(manifest) \cup Live(current) \subseteq Nat
      /\ Live(current) \subseteq DOMAIN tables
  BY <1>p, TablesTyped DEF IInv, Numbered, DiskTyped
<1>t. /\ DOMAIN tables' = DOMAIN tables \cup {nextFile}
      /\ tables'[nextFile] = InTables(inputs)
      /\ \A n \in DOMAIN tables : n # nextFile => tables'[n] = tables[n]
      /\ \A S : S \subseteq DOMAIN tables /\ nextFile \notin S =>
             InTables(S)' = InTables(S)
  <2> HIDE DEF Merge
  <2>1. \E X : tables' = With(tables, nextFile, X) /\ X = InTables(inputs)
    BY <1>1
  <2> QED BY <2>1, TableAdded
<1>i. /\ InTables(Live(manifest))' = InTables(Live(manifest))
      /\ InTables(Live(current))' = InTables(Live(current))
      /\ InTables(edit)' = InTables(inputs)
  <2> HIDE DEF Merge
  <2> QED BY <1>1, <1>p, <1>n, <1>t, TablesTyped DEF Live
<1>s. UNCHANGED <<mem, writing, bgError, logNumber, settled, replay>>
  OBVIOUS
<1> HIDE DEF Merge
<1>0. Recoverable' = Recoverable
  <2>1. \A x : x \in Recoverable' <=> x \in Recoverable
    BY <1>p, <1>i, RecoverableIs DEF Live
  <2> QED BY <2>1
<1>2. DiskTyped'
  <2>1. InTables(inputs) \subseteq Writes
    BY <1>n, TablesTyped
  <2>2. tables' \in [DOMAIN tables' -> SUBSET Writes] /\ DOMAIN tables' \subseteq Nat
    BY <1>1, <1>p, <2>1 DEF IInv, DiskTyped, With
  <2> QED BY <2>2, <1>p, <1>s DEF IInv, DiskTyped
<1>3. ProcessTyped'
  BY <1>p, <1>s DEF IInv, ProcessTyped
<1>4. Named' /\ Settled' /\ Quiet'
  BY <1>i, <1>p, <1>t, <1>s DEF IInv, Named, Settled, Quiet, Running, Live
<1>5. Numbered'
  <2> DEFINE K == Live(manifest) \cup Live(current)
  <2>1. /\ manifest.logNumber < nextFile /\ manifest.logNumber \in Nat
        /\ \A x \in InTables(Live(manifest)) : x <= lastSequence
        /\ \A n \in DOMAIN logs : n < nextFile /\ n \in Nat
    BY <1>p DEF IInv, Numbered, DiskTyped, Version
  <2>2. \A k \in Nat : k <= nextFile => k < nextFile'
    BY <1>p
  <2>3. /\ \A k \in K : k < nextFile'
        /\ manifest.logNumber < nextFile'
        /\ \A n \in DOMAIN logs : n < nextFile'
        /\ nextFile < nextFile' /\ 0 < nextFile'
    <3>1. \A k \in K : k < nextFile /\ k \in Nat
      BY <1>n
    <3> HIDE DEF K
    <3> QED BY <3>1, <2>1, <2>2, <1>p
  <2>4. \A k \in edit' : k \in K
    BY <1>1
  <2> QED BY <2>1, <2>3, <2>4, <1>i, <1>p DEF Numbered, Live
<1>6. Recovering' /\ LogOpen'
  BY <1>p, <1>s DEF IInv, Recovering, LogOpen
<1>7. Logged' /\ Twins'
  BY <1>0, <1>i, <1>p, <1>s DEF IInv, Logged, Twins, Running, Live
<1>8. UnderWay'
  BY <1>1, <1>i, <1>p, <1>t DEF UnderWay, Live
<1>9. Saving' /\ Bounded'
  BY <1>p, <1>s DEF IInv, Saving, Bounded
<1> QED BY <1>0, <1>2, <1>3, <1>4, <1>5, <1>6, <1>7, <1>8, <1>9 DEF IInv

\* An edit that has been handed to LogAndApply changes nothing else.
LEMMA OnlySaving ==
    ASSUME IInv, saving' \in {<<e>> : e \in VersionEdit}, Saving',
           UNCHANGED <<disk, phase, nextFile, lastSequence, current, opening, mem,
                       imm, writing, background, counts>>
    PROVE  IInv' /\ Recoverable' = Recoverable
<1> USE DEF disk, opening, background, counts
<1>0. (\A S : InTables(S)' = InTables(S)) /\ Recoverable' = Recoverable
  BY DiskSame
<1>1. DiskTyped' /\ ProcessTyped'
  BY DEF IInv, DiskTyped, ProcessTyped
<1>2. Named' /\ Settled' /\ Quiet' /\ Numbered'
  BY <1>0 DEF IInv, Named, Settled, Quiet, Running, Live, Numbered
<1>3. Recovering' /\ LogOpen' /\ Logged'
  BY <1>0 DEF IInv, Recovering, LogOpen, Logged, Running
<1>4. Twins' /\ UnderWay' /\ Bounded'
  BY <1>0 DEF IInv, Twins, UnderWay, Bounded, Running, Live
<1> QED BY <1>0, <1>1, <1>2, <1>3, <1>4 DEF IInv

LEMMA InstallTableKeeps ==
    ASSUME IInv, InstallTable
    PROVE  IInv' /\ Recoverable' = Recoverable
<1> USE DEF Working, disk, opening, background, counts
<1>p. /\ phase = "open" /\ built # 0 /\ built \in Nat /\ built < nextFile
      /\ nextFile \in Nat /\ logNumber \in Nat /\ lastSequence \in 0..MaxWrites
      /\ tables[built] = imm
  BY DEF InstallTable, IInv, ProcessTyped, Numbered, UnderWay, Running
<1>u. UNCHANGED <<disk, phase, nextFile, lastSequence, current, opening, mem,
                  imm, writing, background, counts>>
  BY DEF InstallTable
<1>1. PICK new0, new1 \in SUBSET {built} :
          /\ new0 \cup new1 = {built}
          /\ saving' = <<[new0 |-> new0, new1 |-> new1, deleted |-> {},
                          logNumber |-> logNumber, nextFile |-> nextFile,
                          lastSequence |-> lastSequence]>>
  BY DEF InstallTable, LogAndApply
<1>2. saving' \in {<<e>> : e \in VersionEdit}
  BY <1>1, <1>p DEF VersionEdit
<1>3. /\ New' = {built} /\ saving'[1].deleted = {} /\ saving'[1].logNumber = logNumber
      /\ saving'[1].nextFile = nextFile /\ saving'[1].lastSequence = lastSequence
  BY <1>1 DEF New
<1>4. \A n \in Live(manifest) \cup {built} : n < nextFile
  BY <1>p DEF IInv, Numbered
<1>5. \A w \in InTables(Live(manifest) \cup {built}) : w <= lastSequence
  <2>1. InTables(Live(manifest) \cup {built}) = InTables(Live(manifest)) \cup imm
    BY <1>p DEF InTables
  <2> QED BY <1>p, <2>1 DEF IInv, Numbered, Logged, Running
<1>6. \A S : InTables(S)' = InTables(S)
  BY <1>u, DiskSame
<1>7. Saving'
  <2>1. /\ manifest' = manifest /\ phase' = phase /\ built' = built
        /\ work' = work /\ edit' = edit /\ output' = output /\ current' = current
        /\ logNumber' = logNumber /\ nextFile' = nextFile
    BY <1>u
  <2>2. nextFile <= nextFile
    BY <1>p
  <2> QED BY <1>p, <1>3, <1>4, <1>5, <1>6, <2>1, <2>2 DEF Saving, Live
<1> QED BY <1>2, <1>7, <1>u, OnlySaving

LEMMA InstallMergeKeeps ==
    ASSUME IInv, InstallMerge
    PROVE  IInv' /\ Recoverable' = Recoverable
<1> USE DEF Working, disk, opening, background, counts
<1>p. /\ phase = "open" /\ built = 0 /\ work = "merging"
      /\ output \in Nat /\ output < nextFile
      /\ nextFile \in Nat /\ lastSequence \in 0..MaxWrites
      /\ current.logNumber \in Nat
      /\ tables[output] = InTables(edit) /\ edit \subseteq Live(current)
      /\ edit \subseteq Nat
  BY TablesTyped DEF InstallMerge, IInv, ProcessTyped, DiskTyped, Version, Numbered,
                     UnderWay, Running
<1>u. UNCHANGED <<disk, phase, nextFile, lastSequence, current, opening, mem,
                  imm, writing, background, counts>>
  BY DEF InstallMerge
<1>1. saving' = <<[new0 |-> {}, new1 |-> {output}, deleted |-> edit,
                   logNumber |-> current.logNumber, nextFile |-> nextFile,
                   lastSequence |-> lastSequence]>>
  BY DEF InstallMerge, LogAndApply
<1>2. saving' \in {<<e>> : e \in VersionEdit}
  BY <1>1, <1>p DEF VersionEdit
<1>3. /\ New' = {output} /\ saving'[1].deleted = edit
      /\ saving'[1].logNumber = current.logNumber
      /\ saving'[1].nextFile = nextFile /\ saving'[1].lastSequence = lastSequence
  BY <1>1 DEF New
<1>4. \A n \in Live(manifest) \cup {output} : n < nextFile
  BY <1>p DEF IInv, Numbered
<1>5. \A w \in InTables(Live(manifest) \cup {output}) : w <= lastSequence
  <2>1. InTables(edit) \subseteq InTables(Live(manifest))
    BY <1>p, InTablesJoin DEF IInv, Twins, Running
  <2>2. InTables(Live(manifest) \cup {output})
            = InTables(Live(manifest)) \cup InTables(edit)
    BY <1>p DEF InTables
  <2> QED BY <1>p, <2>1, <2>2 DEF IInv, Numbered
<1>6. \A S : InTables(S)' = InTables(S)
  BY <1>u, DiskSame
<1>7. Saving'
  <2>1. /\ manifest' = manifest /\ phase' = phase /\ built' = built
        /\ work' = work /\ edit' = edit /\ output' = output /\ current' = current
        /\ logNumber' = logNumber /\ nextFile' = nextFile
    BY <1>u
  <2>2. nextFile <= nextFile
    BY <1>p
  <2> QED BY <1>p, <1>3, <1>4, <1>5, <1>6, <2>1, <2>2 DEF Saving, Live
<1> QED BY <1>2, <1>7, <1>u, OnlySaving

LEMMA FailToBuildKeeps ==
    ASSUME IInv, FailToBuild
    PROVE  IInv' /\ Recoverable' = Recoverable
<1> USE DEF FailToBuild, Working, disk, known, background, RecordBackgroundError
<1>0. (\A S : InTables(S)' = InTables(S)) /\ Recoverable' = Recoverable
  BY DiskSame
<1>p. /\ phase = "open" /\ phase' = "open" /\ saving' = <<>> /\ built' = 0 /\ bgError'
      /\ bgError' = TRUE
      /\ replay = {}
      /\ \/ work' = work /\ work # "scheduled" /\ edit' = edit /\ output' = output
         \/ work = "merging" /\ work' = "idle" /\ edit' = {} /\ output' = 0
         \/ work = "scheduled" /\ work' = "idle" /\ edit' = edit /\ output' = output
  BY DEF IInv, LogOpen
<1>s. UNCHANGED <<logs, tables, manifest, nextFile, lastSequence, current, replay,
                  logNumber, mem, imm, writing, settled>>
  OBVIOUS
<1> HIDE DEF FailToBuild
<1>1. DiskTyped' /\ ProcessTyped'
  BY <1>p, <1>s DEF IInv, DiskTyped, ProcessTyped
<1>2. Named' /\ Settled' /\ Quiet'
  BY <1>0, <1>p, <1>s DEF IInv, Named, Settled, Quiet, Running, Live
<1>3. Numbered'
  <2>1. 0 < nextFile
    BY <1>p DEF IInv, Numbered, ProcessTyped, DiskTyped, Version
  <2> QED BY <2>1, <1>0, <1>p, <1>s DEF IInv, Numbered, Live
<1>4. Recovering' /\ LogOpen'
  BY <1>p, <1>s DEF IInv, Recovering, LogOpen
<1>5. Logged' /\ Twins'
  BY <1>0, <1>p, <1>s DEF IInv, Logged, Twins, Running, Live
<1>6. UnderWay'
  BY <1>0, <1>p, <1>s DEF IInv, UnderWay, Running, Live
<1>7. Saving' /\ Bounded'
  BY <1>p, <1>s DEF IInv, Saving, Bounded
<1> QED BY <1>0, <1>1, <1>2, <1>3, <1>4, <1>5, <1>6, <1>7 DEF IInv

--------------------------------------------------------------------------------
(* LogAndApply, whoever called it.                                            *)

\* What the edit that is on its way adds.
Installed == IF phase = "open" /\ built # 0 THEN imm ELSE InTables(edit)

LEMMA InstalledIs ==
    ASSUME IInv, saving # <<>>
    PROVE  /\ phase \in {"created", "open"}
           /\ New \subseteq DOMAIN tables /\ InTables(New) = Installed
           /\ Installed \subseteq Recoverable
           /\ \A w \in Installed : w <= lastSequence
           /\ phase = "open" /\ built = 0 =>
                  /\ work = "merging" /\ edit \subseteq Live(current)
                  /\ Installed \subseteq InTables(Live(current))
                  /\ Installed \subseteq InTables(Live(manifest))
<1>1. phase \in {"created", "open"}
  BY DEF IInv, Saving
<1>2. CASE phase = "created"
  BY <1>1, <1>2 DEF IInv, Saving, Recovering, Installed
<1>3. CASE phase = "open" /\ built # 0
  <2>1. New = {built} /\ built \in DOMAIN tables /\ tables[built] = imm
    BY <1>3 DEF IInv, Saving, UnderWay, Running
  <2>2. InTables(New) = imm /\ Installed = imm
    BY <1>3, <2>1, InTablesJoin DEF Installed
  <2> QED BY <1>3, <2>1, <2>2 DEF IInv, Logged, Running
<1>4. CASE phase = "open" /\ built = 0
  <2>1. /\ New = {output} /\ output \in DOMAIN tables /\ work = "merging"
        /\ tables[output] = InTables(edit) /\ edit \subseteq Live(current)
    BY <1>4 DEF IInv, Saving, UnderWay, Running
  <2>2. InTables(New) = InTables(edit) /\ Installed = InTables(edit)
    BY <1>4, <2>1, InTablesJoin DEF Installed
  <2>3. InTables(edit) \subseteq InTables(Live(current))
    BY <2>1, InTablesJoin
  <2>4. InTables(edit) \subseteq InTables(Live(manifest))
    BY <2>3, <1>4 DEF IInv, Twins, Running
  <2>5. InTables(edit) \subseteq Recoverable
    BY <2>4, RecoverableIs
  <2>6. \A w \in InTables(edit) : w <= lastSequence
    BY <2>4, <1>4 DEF IInv, Numbered
  <2> QED BY <1>4, <2>1, <2>2, <2>3, <2>4, <2>5, <2>6
<1> QED BY <1>1, <1>2, <1>3, <1>4

LEMMA EditedIs ==
    ASSUME IInv, saving # <<>>, NEW m \in {manifest, current}
    PROVE  /\ Edited(m) \in Version
           /\ Live(Edited(m)) = (Live(m) \ saving[1].deleted) \cup New
           /\ Live(Edited(m)) \subseteq DOMAIN tables
           /\ InTables(Live(Edited(m))) = InTables(Live(m)) \cup Installed
<1>1. m \in Version /\ saving[1] \in VersionEdit
  BY SavingIs DEF IInv, DiskTyped, ProcessTyped
<1>2. Edited(m) \in Version
  BY <1>1 DEF Edited, Version, VersionEdit
<1>3. Live(Edited(m)) = (Live(m) \ saving[1].deleted) \cup New
  BY <1>1 DEF Edited, Version, VersionEdit, Live, New
<1>4. Live(Edited(m)) \subseteq DOMAIN tables
  BY <1>3, TablesTyped, InstalledIs
<1>5. \/ saving[1].deleted = {}
      \/ saving[1].deleted = edit /\ Installed = InTables(edit)
  <2>1. phase = "created" => saving[1].deleted = {}
    BY DEF IInv, Saving
  <2>2. phase = "open" /\ built # 0 => saving[1].deleted = {}
    BY DEF IInv, Saving
  <2>3. phase = "open" /\ built = 0 =>
            saving[1].deleted = edit /\ Installed = InTables(edit)
    BY DEF IInv, Saving, Installed
  <2>4. phase \in {"created", "open"}
    BY InstalledIs
  <2> QED BY <2>1, <2>2, <2>3, <2>4
<1>6. InTables(Live(Edited(m))) = InTables(Live(m) \ saving[1].deleted) \cup Installed
  BY <1>3, InstalledIs, InTablesJoin
<1>7. CASE saving[1].deleted = {}
  <2>1. Live(m) \ saving[1].deleted = Live(m)
    BY <1>7
  <2> QED BY <1>2, <1>3, <1>4, <1>6, <2>1
<1>8. CASE saving[1].deleted = edit /\ Installed = InTables(edit)
  <2>1. InTables(Live(m)) \cup InTables(edit)
            = InTables(Live(m) \ edit) \cup InTables(edit)
    BY DEF InTables
  <2>2. Live(m) \ saving[1].deleted = Live(m) \ edit
    BY <1>8
  <2> QED BY <1>2, <1>3, <1>4, <1>6, <1>8, <2>1, <2>2
<1> QED BY <1>2, <1>3, <1>4, <1>5, <1>7, <1>8

\* The MANIFEST with the edit is as good as the one without.
LEMMA ManifestSaved ==
    ASSUME IInv, saving # <<>>, manifest' = Edited(manifest), UNCHANGED <<logs, tables>>
    PROVE  /\ Recoverable' = Recoverable
           /\ \A S : InTables(S)' = InTables(S)
           /\ InTables(Live(manifest))' = InTables(Live(manifest)) \cup Installed
           /\ \A n \in Live(manifest') : n < manifest'.nextFile /\ n < nextFile
           /\ \A w \in InTables(Live(manifest))' :
                  w <= manifest'.lastSequence /\ w <= lastSequence
           /\ manifest'.logNumber = saving[1].logNumber
           /\ manifest'.logNumber < nextFile
           /\ manifest'.logNumber <= logNumber
<1>0. /\ logs' = logs /\ tables' = tables
      /\ \A S : InTables(S)' = InTables(S)
  BY DEF InTables
<1>1. InTables(Live(manifest))' = InTables(Live(manifest)) \cup Installed
  BY <1>0, EditedIs DEF Live
<1>2. /\ manifest' = Edited(manifest) /\ Edited(manifest) \in Version
      /\ manifest'.logNumber = saving[1].logNumber
      /\ manifest'.nextFile = saving[1].nextFile
      /\ manifest'.lastSequence = saving[1].lastSequence
      /\ saving[1] \in VersionEdit
  BY EditedIs, SavingIs DEF Edited
<1>3. \A n \in Live(manifest') : n \in Nat /\ n < saving[1].nextFile
  <2>1. Live(manifest') \subseteq Live(manifest) \cup New
    BY EditedIs
  <2>2. Live(manifest') \subseteq Nat
    BY <1>2 DEF Version, Live
  <2> QED BY <2>1, <2>2 DEF IInv, Saving
<1>4. saving[1].nextFile \in Nat /\ nextFile \in Nat /\ saving[1].nextFile <= nextFile
  BY <1>2 DEF IInv, Saving, VersionEdit, ProcessTyped
<1>5. \A w \in InTables(Live(manifest))' :
          w <= saving[1].lastSequence /\ w <= lastSequence
  <2>1. InTables(Live(manifest) \cup New) = InTables(Live(manifest)) \cup Installed
    BY InstalledIs, InTablesJoin
  <2> QED BY <1>1, <2>1, InstalledIs DEF IInv, Saving, Numbered
<1>6. /\ logNumber \in DOMAIN logs /\ logNumber \in Nat /\ manifest.logNumber <= logNumber
      /\ logNumber < nextFile /\ replay = {}
      /\ manifest.logNumber \in Nat /\ current.logNumber \in Nat
      /\ DOMAIN logs \subseteq Nat
      /\ \A n \in DOMAIN logs : n <= logNumber
  BY InstalledIs DEF IInv, LogOpen, ProcessTyped, DiskTyped, Version, Numbered
<1>7. \/ saving[1].logNumber = logNumber /\ (phase = "created" \/ built # 0)
      \/ /\ saving[1].logNumber = current.logNumber
         /\ phase = "open" /\ built = 0
         /\ current.logNumber <= manifest.logNumber
  BY InstalledIs DEF IInv, Saving, Logged, Running
<1>8. manifest'.logNumber < nextFile /\ manifest'.logNumber <= logNumber
  BY <1>2, <1>4, <1>6, <1>7
<1>9. Recoverable' = Recoverable
  <2>1. ASSUME NEW n \in DOMAIN logs, n >= saving[1].logNumber, NEW w \in ToSet(logs[n])
        PROVE  w \in Recoverable
    <3>1. CASE n >= manifest.logNumber
      BY <3>1, <2>1, RecoverableIs
    <3>2. CASE ~(n >= manifest.logNumber)
      <4>1. phase = "open" /\ current.logNumber <= n /\ n < logNumber
        BY <1>6, <1>7, <2>1, <3>2
      <4>2. ToSet(logs[n]) \subseteq imm /\ imm \subseteq Recoverable
        BY <4>1 DEF IInv, Logged, Running
      <4> QED BY <4>2, <2>1
    <3> QED BY <3>1, <3>2
  <2>2. ASSUME NEW n \in DOMAIN logs, n >= manifest.logNumber,
               ~(n >= saving[1].logNumber), NEW w \in ToSet(logs[n])
        PROVE  w \in Installed
    <3>1. saving[1].logNumber = logNumber /\ n < logNumber
      BY <1>6, <1>7, <2>2
    <3>2. CASE phase = "created"
      BY <1>6, <2>2, <3>2 DEF IInv, Recovering, Installed
    <3>3. CASE phase = "open" /\ built # 0
      <4>1. current.logNumber <= n
        BY <1>6, <2>2, <3>3 DEF IInv, Logged, Running
      <4> QED BY <4>1, <2>2, <3>1, <3>3 DEF IInv, Logged, Running, Installed
    <3> QED BY <1>7, <3>1, <3>2, <3>3, InstalledIs, <1>6, <2>2
  <2>3. \A w : w \in Recoverable' <=> w \in Recoverable
    BY <1>0, <1>1, <1>2, <2>1, <2>2, InstalledIs, RecoverableIs
  <2> QED BY <2>3
<1> QED BY <1>0, <1>1, <1>2, <1>3, <1>4, <1>5, <1>8, <1>9

LEMMA SavedKeeps ==
    ASSUME IInv, Saved
    PROVE  IInv' /\ Recoverable' = Recoverable
<1>p. /\ saving # <<>> /\ saving' = <<>> /\ phase' = "installed"
      /\ manifest' = Edited(manifest) /\ current' = Edited(current)
      /\ settled' = settled \cup InTables(Live(manifest'))
      /\ logs' = logs /\ tables' = tables /\ nextFile' = nextFile
      /\ lastSequence' = lastSequence /\ replay' = replay
      /\ logNumber' = logNumber /\ mem' = mem /\ writing' = writing
      /\ bgError' = bgError
      /\ imm' = IF built # 0 THEN {} ELSE imm
  BY DEF Saved
<1>c. \/ built # 0 /\ built' = 0 /\ edit' = edit /\ output' = output
      \/ built = 0 /\ built' = 0 /\ edit' = {} /\ output' = 0
  BY DEF Saved, Concluded
<1>w. /\ work' \in {"idle", "scheduled", "merging"}
      /\ bgError => work' # "scheduled"
      /\ work' = "merging" => work = "merging" /\ built # 0
      /\ work = "merging" /\ built # 0 => work' = "merging"
  BY DEF Saved, InMerge, Rescheduled
<1>m. /\ Recoverable' = Recoverable
      /\ \A S : InTables(S)' = InTables(S)
      /\ InTables(Live(manifest))' = InTables(Live(manifest)) \cup Installed
      /\ \A n \in Live(manifest') : n < manifest'.nextFile /\ n < nextFile
      /\ \A w \in InTables(Live(manifest))' :
             w <= manifest'.lastSequence /\ w <= lastSequence
      /\ manifest'.logNumber = saving[1].logNumber
      /\ manifest'.logNumber < nextFile
      /\ manifest'.logNumber <= logNumber
  BY <1>p, ManifestSaved
<1>e. /\ manifest' \in Version /\ current' \in Version
      /\ Live(manifest') \cup Live(current') \subseteq DOMAIN tables
      /\ InTables(Live(current))' = InTables(Live(current)) \cup Installed
      /\ Live(current') = (Live(current) \ saving[1].deleted) \cup New
      /\ current'.logNumber = saving[1].logNumber
  BY <1>p, <1>m, EditedIs DEF Live, Edited
<1>i. /\ phase \in {"created", "open"} /\ replay = {}
      /\ Installed \subseteq Recoverable
      /\ \A w \in Installed : w <= lastSequence
      /\ phase = "created" => built = 0 /\ imm = {} /\ mem = {} /\ writing = 0
                              /\ work # "merging" /\ ~bgError
  BY <1>p, InstalledIs DEF IInv, LogOpen, Quiet, Running
<1>1. DiskTyped'
  <2>1. settled' \subseteq Writes
    BY <1>p, <1>e, TablesTyped DEF IInv, DiskTyped
  <2> QED BY <1>p, <1>e, <2>1 DEF IInv, DiskTyped
<1>2. ProcessTyped'
  BY <1>p, <1>c, <1>e, <1>i, <1>w DEF IInv, ProcessTyped
<1>3. Named' /\ Settled' /\ Quiet'
  BY <1>p, <1>m, <1>e DEF IInv, Named, Settled, Quiet, Running, Live
<1>4. Numbered'
  <2>1. /\ \A n \in Live(current) \cup edit \cup {built, output} : n < nextFile
        /\ \A n \in DOMAIN logs : n < nextFile
        /\ 0 < nextFile
    BY <1>i DEF IInv, Numbered, DiskTyped, Version, ProcessTyped
  <2>2. \A n \in New : n < nextFile
    BY <1>p, <1>m, EditedIs
  <2>3. \A n \in Live(current') : n < nextFile
    BY <1>e, <2>1, <2>2
  <2> QED BY <1>p, <1>c, <1>m, <1>i, <2>1, <2>3 DEF Numbered, Live
<1>5. Recovering' /\ LogOpen'
  BY <1>p, <1>m, <1>i DEF IInv, LogOpen, Recovering
<1>6. Logged'
  <2>1. ToSet(logs[logNumber]) = mem \cup ({writing} \ {0})
    BY <1>i, ToSetFacts DEF IInv, Logged, LogOpen, Running
  <2>2. /\ writing # 0 => writing = lastSequence + 1
        /\ \A w \in mem \cup imm' : w <= lastSequence
    BY <1>p, <1>i DEF IInv, Logged, Running
  <2>3. current'.logNumber <= manifest'.logNumber
    BY <1>m, <1>e DEF Version
  <2>4. \A n \in DOMAIN logs : saving[1].logNumber <= n /\ n < logNumber =>
            ToSet(logs[n]) \subseteq imm'
    <3>1. CASE phase = "created" \/ built # 0
      <4>1. saving[1].logNumber = logNumber /\ logNumber \in Nat /\ DOMAIN logs \subseteq Nat
        BY <1>p, <1>i, <3>1 DEF IInv, Saving, ProcessTyped, DiskTyped
      <4> QED BY <4>1
    <3>2. CASE phase = "open" /\ built = 0
      BY <1>p, <3>2 DEF IInv, Saving, Logged, Running
    <3> QED BY <3>1, <3>2, <1>i
  <2>5. imm' \subseteq Recoverable'
    BY <1>p, <1>i, <1>m DEF IInv, Logged, Running
  <2> QED BY <1>p, <1>e, <2>1, <2>2, <2>3, <2>4, <2>5 DEF Logged
<1>7. Twins'
  <2>1. ~bgError => current' = manifest'
    BY <1>p DEF IInv, Twins
  <2>2. CASE phase = "created"
    BY <1>p, <1>i, <2>1, <2>2 DEF Twins
  <2>3. CASE phase = "open"
    <3>1. /\ InTables(Live(current)) \subseteq InTables(Live(manifest))
          /\ InTables(Live(manifest)) \subseteq InTables(Live(current)) \cup imm
      BY <2>3 DEF IInv, Twins, Running
    <3>2. built # 0 => Installed = imm
      BY <2>3 DEF Installed
    <3> QED BY <1>p, <1>m, <1>e, <2>1, <3>1, <3>2 DEF Twins
  <2> QED BY <2>2, <2>3, <1>i
<1>8. UnderWay'
  <2>1. CASE built # 0 /\ phase = "open"
    <3>1. saving[1].deleted = {}
      BY <1>p, <2>1 DEF IInv, Saving
    <3>2. Live(current) \subseteq Live(current')
      BY <1>e, <3>1
    <3> QED BY <1>p, <1>c, <1>m, <1>w, <2>1, <3>2 DEF IInv, UnderWay, Running, Live
  <2>2. CASE built = 0
    BY <1>c, <1>w, <2>2 DEF UnderWay
  <2> QED BY <1>i, <2>1, <2>2
<1>9. Saving' /\ Bounded'
  BY <1>p, <1>w DEF IInv, Saving, Bounded
<1> QED BY <1>m, <1>1, <1>2, <1>3, <1>4, <1>5, <1>6, <1>7, <1>8, <1>9 DEF IInv

LEMMA FailToSaveKeeps ==
    ASSUME IInv, FailToSave
    PROVE  IInv' /\ Recoverable' = Recoverable
<1>p. /\ saving # <<>> /\ saving' = <<>> /\ phase = "open" /\ phase' = "installed"
      /\ manifest' \in {manifest, Edited(manifest)} /\ current' = current
      /\ settled' = settled \cup InTables(Live(manifest'))
      /\ logs' = logs /\ tables' = tables /\ nextFile' = nextFile
      /\ lastSequence' = lastSequence /\ replay' = replay
      /\ logNumber' = logNumber /\ mem' = mem /\ writing' = writing
      /\ imm' = imm /\ bgError' = TRUE
  BY DEF FailToSave, RecordBackgroundError
<1>c. \/ built # 0 /\ built' = 0 /\ edit' = edit /\ output' = output
      \/ built = 0 /\ built' = 0 /\ edit' = {} /\ output' = 0
  BY DEF FailToSave, Concluded
<1>w. /\ work' \in {"idle", "merging"}
      /\ work' = "merging" <=> work = "merging" /\ built # 0
  BY DEF FailToSave, InMerge
<1>i. /\ replay = {} /\ logNumber \in DOMAIN logs
      /\ \A S : InTables(S)' = InTables(S)
      /\ Installed \subseteq InTables(Live(current)) \cup imm
  BY <1>p, InstalledIs DEF IInv, LogOpen, Installed, InTables
<1>m. /\ Recoverable' = Recoverable
      /\ manifest' \in Version
      /\ Live(manifest') \subseteq DOMAIN tables
      /\ InTables(Live(manifest)) \subseteq InTables(Live(manifest))'
      /\ InTables(Live(manifest))' \subseteq InTables(Live(manifest)) \cup Installed
      /\ \A n \in Live(manifest') : n < manifest'.nextFile /\ n < nextFile
      /\ \A w \in InTables(Live(manifest))' :
             w <= manifest'.lastSequence /\ w <= lastSequence
      /\ manifest'.logNumber < nextFile
      /\ manifest'.logNumber <= logNumber
      /\ current.logNumber <= manifest'.logNumber
  <2>1. CASE manifest' = Edited(manifest)
    <3>1. current.logNumber <= saving[1].logNumber
      <4>1. /\ current.logNumber \in Nat
            /\ current.logNumber <= manifest.logNumber
            /\ manifest.logNumber <= logNumber
            /\ manifest.logNumber \in Nat /\ logNumber \in Nat
            /\ saving[1].logNumber \in {current.logNumber, logNumber}
        BY <1>p, <1>i DEF IInv, Logged, LogOpen, Saving, Running, DiskTyped,
                          ProcessTyped, Version
      <4> QED BY <4>1
    <3> QED BY <1>p, <2>1, <3>1, ManifestSaved, EditedIs
  <2>2. CASE manifest' = manifest
    <3>1. Recoverable' = Recoverable
      BY <1>p, <2>2 DEF Recoverable, InTables
    <3>2. InTables(Live(manifest))' = InTables(Live(manifest))
      BY <1>i, <2>2 DEF Live
    <3> QED BY <1>p, <2>2, <3>1, <3>2, TablesTyped
            DEF IInv, DiskTyped, Named, Numbered, LogOpen, Logged, Running
  <2> QED BY <1>p, <2>1, <2>2
<1>e. InTables(Live(current))' = InTables(Live(current))
  BY <1>p, <1>i DEF Live
<1>1. DiskTyped'
  <2>1. settled' \subseteq Writes
    BY <1>p, <1>m, TablesTyped DEF IInv, DiskTyped
  <2> QED BY <1>p, <1>m, <2>1 DEF IInv, DiskTyped
<1>2. ProcessTyped'
  BY <1>p, <1>c, <1>w DEF IInv, ProcessTyped
<1>3. Named' /\ Quiet'
  BY <1>p, <1>m DEF IInv, Named, Quiet, Running, Live
<1>4. Settled'
  BY <1>p, <1>i, <1>m DEF IInv, Settled, Live
<1>5. Numbered'
  <2>1. /\ \A n \in Live(current) \cup edit \cup {built, output} : n < nextFile
        /\ \A n \in DOMAIN logs : n < nextFile
        /\ 0 < nextFile
    BY <1>p, <1>i DEF IInv, Numbered, DiskTyped, Version, ProcessTyped
  <2> QED BY <1>p, <1>c, <1>m, <1>i, <2>1 DEF Numbered, Live
<1>6. Recovering' /\ LogOpen'
  BY <1>p, <1>m, <1>i DEF IInv, LogOpen, Recovering
<1>7. Logged'
  BY <1>p, <1>m DEF IInv, Logged, Running
<1>8. Twins'
  BY <1>p, <1>e, <1>i, <1>m DEF IInv, Twins, Running
<1>9. UnderWay'
  BY <1>p, <1>c, <1>i, <1>w DEF IInv, UnderWay, Running, Live
<1>10. Saving' /\ Bounded'
  BY <1>p, <1>w DEF IInv, Saving, Bounded
<1> QED BY <1>m, <1>1, <1>2, <1>3, <1>4, <1>5, <1>6, <1>7, <1>8, <1>9, <1>10 DEF IInv

LEMMA DeleteObsoleteFilesKeeps ==
    ASSUME IInv, DeleteObsoleteFiles
    PROVE  IInv' /\ Recoverable' = Recoverable
<1> USE DEF DeleteObsoleteFiles, known, opening, background, counts
<1>p. /\ phase = "installed" /\ phase' = "open" /\ replay = {} /\ saving = <<>>
      /\ manifest' = manifest /\ current' = current /\ saving' = saving
      /\ logNumber' = logNumber /\ logNumber \in DOMAIN logs
      /\ manifest.logNumber <= logNumber /\ logNumber \in Nat
      /\ current.logNumber <= manifest.logNumber
      /\ current.logNumber \in Nat /\ manifest.logNumber \in Nat
      /\ DOMAIN logs \subseteq Nat
  BY DEF IInv, LogOpen, Saving, Logged, Running, ProcessTyped, DiskTyped, Version
<1>l. /\ DOMAIN logs' \subseteq DOMAIN logs /\ logNumber \in DOMAIN logs'
      /\ \A n \in DOMAIN logs : n >= manifest.logNumber => n \in DOMAIN logs'
      /\ \A n \in DOMAIN logs' : logs'[n] = logs[n]
      /\ logs' \in [DOMAIN logs' -> Seq(Writes)]
  <2>1. CASE bgError
    BY <1>p, <2>1 DEF IInv, DiskTyped
  <2>2. CASE ~bgError
    <3>1. /\ current = manifest
          /\ logs' = Without(logs, {n \in DOMAIN logs : n < current.logNumber})
      BY <2>2 DEF IInv, Twins
    <3>2. /\ DOMAIN logs' = {n \in DOMAIN logs : ~(n < manifest.logNumber)}
          /\ \A n \in DOMAIN logs' : logs'[n] = logs[n]
      BY <3>1 DEF Without
    <3> HIDE DEF DeleteObsoleteFiles
    <3>3. logs' \in [DOMAIN logs' -> Seq(Writes)]
      BY <3>1, <3>2 DEF IInv, DiskTyped, Without
    <3> QED BY <1>p, <3>2, <3>3
  <2> QED BY <2>1, <2>2
<1>t. /\ DOMAIN tables' \subseteq DOMAIN tables
      /\ \A n \in DOMAIN tables' : tables'[n] = tables[n]
      /\ Live(manifest) \cup Live(current) \subseteq DOMAIN tables'
      /\ \A n \in {built, output} : n \in DOMAIN tables => n \in DOMAIN tables'
      /\ \A S : S \subseteq Live(manifest) \cup Live(current) =>
             InTables(S)' = InTables(S)
      /\ tables' \in [DOMAIN tables' -> SUBSET Writes]
  <2>1. CASE bgError
    BY <1>p, <2>1, TablesTyped DEF IInv, DiskTyped, InTables
  <2>2. CASE ~bgError
    <3> DEFINE K == Live(current) \cup {built, output}
    <3>1. /\ current = manifest
          /\ tables' = Without(tables, DOMAIN tables \ K)
      BY <2>2 DEF IInv, Twins
    <3> HIDE DEF DeleteObsoleteFiles
    <3>2. /\ DOMAIN tables' = DOMAIN tables \cap K
          /\ \A n \in DOMAIN tables \cap K : tables'[n] = tables[n]
          /\ \A T : T \subseteq DOMAIN tables \cap K => InTables(T)' = InTables(T)
      <4> HIDE DEF K
      <4> QED BY <3>1, TablesRemoved
    <3>3. tables' \in [DOMAIN tables' -> SUBSET Writes]
      <4> HIDE DEF K
      <4> QED BY <3>1, <3>2 DEF IInv, DiskTyped, Without
    <3> QED BY <3>1, <3>2, <3>3, TablesTyped
  <2> QED BY <2>1, <2>2
<1>i. /\ InTables(Live(manifest))' = InTables(Live(manifest))
      /\ InTables(Live(current))' = InTables(Live(current))
      /\ edit \subseteq Live(current) /\ InTables(edit)' = InTables(edit)
  <2>1. edit \subseteq Live(current) /\ edit' = edit
    BY <1>p DEF IInv, UnderWay, Running
  <2> QED BY <1>p, <1>t, <2>1 DEF Live
<1> HIDE DEF DeleteObsoleteFiles
<1>0. Recoverable' = Recoverable
  <2>1. \A x : x \in Recoverable' <=> x \in Recoverable
    BY <1>p, <1>l, <1>i, RecoverableIs DEF Live
  <2> QED BY <2>1
<1>s. UNCHANGED <<nextFile, lastSequence, edit, replay, mem, imm, writing, work, built,
                  output, bgError, settled>>
  BY DEF DeleteObsoleteFiles
<1>1. DiskTyped'
  BY <1>p, <1>l, <1>t, <1>s DEF IInv, DiskTyped
<1>2. ProcessTyped'
  BY <1>p, <1>s DEF IInv, ProcessTyped
<1>3. Named' /\ Settled' /\ Quiet'
  BY <1>p, <1>i, <1>t, <1>s DEF IInv, Named, Settled, Quiet, Running, Live
<1>4. Numbered'
  BY <1>p, <1>i, <1>l, <1>s DEF IInv, Numbered, Live
<1>5. Recovering' /\ LogOpen'
  BY <1>p, <1>l, <1>s DEF IInv, Recovering, LogOpen
<1>6. Logged'
  BY <1>0, <1>p, <1>l, <1>s DEF IInv, Logged, Running
<1>7. Twins'
  BY <1>i, <1>p, <1>s DEF IInv, Twins, Running
<1>8. UnderWay'
  BY <1>i, <1>p, <1>t, <1>s DEF IInv, UnderWay, Running, Live
<1>9. Saving' /\ Bounded'
  BY <1>p, <1>s DEF IInv, Saving, Bounded
<1> QED BY <1>0, <1>1, <1>2, <1>3, <1>4, <1>5, <1>6, <1>7, <1>8, <1>9 DEF IInv

--------------------------------------------------------------------------------
(* The end of a process.                                                      *)

\* What is in the memory is gone; the logs are as they were, or shorter.
LEMMA StopKeeps ==
    ASSUME IInv, Stop, DOMAIN logs' = DOMAIN logs,
           logs' \in [DOMAIN logs -> Seq(Writes)]
    PROVE  IInv'
<1> USE DEF Stop
<1>0. \A S : InTables(S)' = InTables(S)
  BY DEF InTables
<1>1. DiskTyped'
  BY DEF IInv, DiskTyped
<1>2. ProcessTyped'
  <2>1. 0 \in 0..MaxWrites /\ 0 \in Nat
    BY LevelDbAssumption
  <2>2. current' \in Version
    BY DEF IInv, DiskTyped
  <2>3. saving' = <<>>
    OBVIOUS
  <2>4. /\ phase' = "down" /\ work' = "idle" /\ bgError' \in BOOLEAN
        /\ replay' \subseteq DOMAIN logs' /\ mem' \subseteq Writes
        /\ imm' \subseteq Writes
    OBVIOUS
  <2>5. /\ nextFile' = 0 /\ lastSequence' = 0 /\ logNumber' = 0
        /\ writing' = 0 /\ built' = 0 /\ output' = 0
    OBVIOUS
  <2> QED BY <2>1, <2>2, <2>3, <2>4, <2>5 DEF ProcessTyped
<1>3. Named' /\ Settled' /\ Quiet' /\ Numbered'
  BY <1>0 DEF IInv, Named, Settled, Quiet, Running, Live, Numbered
<1>4. Recovering' /\ LogOpen' /\ Logged' /\ UnderWay' /\ Saving' /\ Twins'
  BY DEF Recovering, LogOpen, Logged, UnderWay, Saving, Twins, Running
<1>5. Bounded'
  BY FS_EmptySet, LevelDbAssumption DEF Bounded
<1> QED BY <1>1, <1>2, <1>3, <1>4, <1>5 DEF IInv

LEMMA ProcessDiesKeeps ==
    ASSUME IInv, ProcessDies
    PROVE  IInv' /\ Recoverable' = Recoverable
<1>1. IInv'
  BY StopKeeps DEF ProcessDies, IInv, DiskTyped
<1>2. UNCHANGED disk
  BY DEF ProcessDies, Stop, disk
<1> QED BY <1>1, <1>2, DiskSame

LEMMA MachineDiesKeeps ==
    ASSUME IInv, MachineDies
    PROVE  IInv' /\ Recoverable' \subseteq Recoverable
<1>1. PICK left \in [DOMAIN logs -> 0..BufferSize] :
          /\ \A n \in DOMAIN logs : left[n] <= Len(logs[n])
          /\ logs' = [n \in DOMAIN logs |-> SubSeq(logs[n], 1, left[n])]
  BY DEF MachineDies
<1>2. ASSUME NEW n \in DOMAIN logs
      PROVE  logs'[n] \in Seq(Writes) /\ ToSet(logs'[n]) \subseteq ToSet(logs[n])
  <2> DEFINE s == logs[n]
             k == left[n]
  <2>1. s \in Seq(Writes) /\ k \in Nat /\ k <= Len(s)
    BY <1>1, LevelDbAssumption DEF IInv, DiskTyped
  <2>2. logs'[n] = SubSeq(s, 1, k)
    BY <1>1
  <2> HIDE DEF s, k
  <2>3. /\ SubSeq(s, 1, k) \in Seq(Writes)
        /\ DOMAIN SubSeq(s, 1, k) = 1..k
        /\ DOMAIN s = 1..Len(s) /\ Len(s) \in Nat
        /\ \A i \in 1..k : SubSeq(s, 1, k)[i] = s[i]
    BY <2>1
  <2>4. ToSet(SubSeq(s, 1, k)) \subseteq ToSet(s)
    BY <2>1, <2>3 DEF ToSet
  <2> QED BY <2>2, <2>3, <2>4 DEF s
<1>3. DOMAIN logs' = DOMAIN logs /\ logs' \in [DOMAIN logs -> Seq(Writes)]
  BY <1>1, <1>2
<1>4. IInv'
  BY <1>3, StopKeeps DEF MachineDies
<1>5. tables' = tables /\ manifest' = manifest
  BY DEF MachineDies, Stop
<1>6. InTables(Live(manifest))' = InTables(Live(manifest))
  BY <1>5 DEF InTables, Live
<1>7. \A w : w \in Recoverable' => w \in Recoverable
  BY <1>2, <1>3, <1>5, <1>6, RecoverableIs
<1> QED BY <1>4, <1>7

LEMMA InitHolds == Init => IInv
<1> SUFFICES ASSUME Init PROVE IInv
  OBVIOUS
<1> USE DEF Init
<1>1. DOMAIN logs = {} /\ DOMAIN tables = {}
  OBVIOUS
<1>2. Live(manifest) = {} /\ Live(current) = {} /\ InTables({}) = {}
  BY InTablesJoin DEF Live
<1>3. DiskTyped
  BY <1>1, LevelDbAssumption DEF DiskTyped, Version
<1>4. ProcessTyped
  <2>1. 0 \in 0..MaxWrites /\ 0 \in Nat
    BY LevelDbAssumption
  <2>2. current \in Version
    BY <1>3 DEF DiskTyped
  <2> QED BY <2>1, <2>2 DEF ProcessTyped
<1>5. Named /\ Settled /\ Quiet /\ Numbered
  BY <1>2 DEF Named, Settled, Quiet, Numbered, Running
<1>6. Recovering /\ LogOpen /\ Logged /\ UnderWay /\ Saving /\ Twins
  BY DEF Recovering, LogOpen, Logged, UnderWay, Saving, Twins, Running
<1>7. Bounded
  BY FS_EmptySet, LevelDbAssumption DEF Bounded
<1> QED BY <1>3, <1>4, <1>5, <1>6, <1>7 DEF IInv

--------------------------------------------------------------------------------
(* What follows from the invariant.                                           *)

LEMMA StepKeeps ==
    ASSUME IInv, [Next]_vars
    PROVE  /\ IInv'
           /\ \/ Recoverable' = Recoverable
              \/ WriteLog
              \/ MachineDies
<1>1. CASE UNCHANGED vars
  <2>1. UNCHANGED disk
    BY <1>1 DEF vars
  <2>2. UNCHANGED <<logs, tables, manifest, phase, nextFile, lastSequence, current,
                    saving, replay, edit, logNumber, mem, imm, writing, work, built,
                    output, bgError, settled>>
    BY <1>1 DEF vars, disk, known, opening, background, counts
  <2>3. (\A S : InTables(S)' = InTables(S)) /\ Recoverable' = Recoverable
    BY <2>1, DiskSame
  <2>4. DiskTyped' /\ ProcessTyped' /\ LogOpen' /\ Bounded'
    BY <2>2 DEF IInv, DiskTyped, ProcessTyped, LogOpen, Bounded
  <2>5. Named' /\ Settled' /\ Quiet' /\ Numbered' /\ Recovering'
    BY <2>2, <2>3 DEF IInv, Named, Settled, Quiet, Numbered, Recovering, Running, Live
  <2>6. Logged' /\ Twins' /\ UnderWay'
    BY <2>2, <2>3 DEF IInv, Logged, Twins, UnderWay, Running, Live
  <2>7. Saving'
    BY <2>2, <2>3 DEF IInv, Saving, New, Live
  <2> QED BY <2>3, <2>4, <2>5, <2>6, <2>7 DEF IInv
<1>2. CASE Open
  BY <1>2, RecoverKeeps, RecoverLogFileKeeps, CreateLogKeeps, FinishOpenKeeps DEF Open
<1>3. CASE Writer
  BY <1>3, WriteLogKeeps, InsertIntoKeeps, SwitchLogKeeps DEF Writer
<1>4. CASE Background
  BY <1>4, BuildTableKeeps, InstallTableKeeps, MergeKeeps, InstallMergeKeeps
     DEF Background
<1>5. CASE Installing
  BY <1>5, SavedKeeps, DeleteObsoleteFilesKeeps DEF Installing
<1>6. CASE FailToBuild \/ FailToSave
  BY <1>6, FailToBuildKeeps, FailToSaveKeeps
<1>7. CASE ProcessDies \/ MachineDies
  BY <1>7, ProcessDiesKeeps, MachineDiesKeeps
<1> QED BY <1>1, <1>2, <1>3, <1>4, <1>5, <1>6, <1>7 DEF Next

LEMMA Invariance == Spec => []IInv
<1>1. IInv /\ [Next]_vars => IInv'
  BY StepKeeps
<1> QED BY <1>1, InitHolds, PTL DEF Spec

\* The files that count exist, no number is used twice, and no sequence number
\* is assigned twice, at every point at which the process or the machine may stop.
THEOREM TypeCorrect == Spec => []TypeOK
<1>1. ASSUME IInv PROVE TypeOK
  <2>1. Live(manifest) \cup Live(current) \subseteq DOMAIN tables
    BY <1>1 DEF IInv, Named
  <2>2. ~bgError => current = manifest
    BY <1>1 DEF IInv, Twins
  <2>3. phase = "open" => logNumber \in DOMAIN logs /\ logNumber >= manifest.logNumber
    BY <1>1 DEF IInv, LogOpen, ProcessTyped, DiskTyped, Version
  <2>4. phase \in {"created", "installed", "open"} =>
            \A n \in DOMAIN logs \cup Live(current) \cup {built, output} : n < nextFile
    BY <1>1 DEF IInv, LogOpen, Numbered
  <2>5. phase = "open" => \A n \in Recoverable \ {writing} : n <= lastSequence
    BY <1>1, RecoverableBelow DEF Running
  <2>6. {built, output} \ {0} \subseteq DOMAIN tables
    BY <1>1 DEF IInv, UnderWay, Quiet
  <2> QED BY <1>1, <2>1, <2>2, <2>3, <2>4, <2>5, <2>6 DEF TypeOK, IInv, Bounded
<1> QED BY <1>1, Invariance, PTL

\* A write that a table of the MANIFEST has ever held is found by every recovery.
THEOREM TablesAreForGood == Spec => []SettledSurvive
<1>1. ASSUME IInv PROVE SettledSurvive
  BY <1>1, RecoverableIs DEF IInv, Settled, SettledSurvive
<1> QED BY <1>1, Invariance, PTL

--------------------------------------------------------------------------------
(* LevelDb implements DurableWrites.                                          *)

MappedVisible == IF phase = "open" /\ writing = 0 THEN <<Visible>> ELSE <<>>

\* Readers find what a recovery would.
ReadersFind == MappedVisible \in {<<>>, <<Recoverable>>}

LEMMA ReadersFindAll == IInv => ReadersFind
<1> SUFFICES ASSUME IInv, phase = "open", writing = 0 PROVE Visible = Recoverable
  BY DEF ReadersFind, MappedVisible
<1>1. /\ ToSet(logs[logNumber]) = mem /\ imm \subseteq Recoverable
      /\ logNumber \in DOMAIN logs /\ logNumber >= manifest.logNumber
      /\ InTables(Live(current)) \subseteq InTables(Live(manifest))
      /\ InTables(Live(manifest)) \subseteq InTables(Live(current)) \cup imm
  BY DEF IInv, Logged, LogOpen, Twins, Running, ProcessTyped, DiskTyped, Version
<1>2. \A n \in DOMAIN logs : n >= manifest.logNumber =>
          ToSet(logs[n]) \subseteq mem \cup imm
  <2> SUFFICES ASSUME NEW n \in DOMAIN logs, n >= manifest.logNumber
               PROVE  ToSet(logs[n]) \subseteq mem \cup imm
    OBVIOUS
  <2>1. /\ n \in Nat /\ n <= logNumber /\ logNumber \in Nat
        /\ current.logNumber <= manifest.logNumber
        /\ current.logNumber \in Nat /\ manifest.logNumber \in Nat
    BY DEF IInv, LogOpen, Logged, Running, DiskTyped, ProcessTyped, Version
  <2>2. n = logNumber \/ (current.logNumber <= n /\ n < logNumber)
    BY <2>1
  <2> QED BY <1>1, <2>2 DEF IInv, Logged, Running
<1>3. \A w : w \in Visible <=> w \in Recoverable
  BY <1>1, <1>2, RecoverableIs DEF Visible
<1> QED BY <1>3

\* In every step, whoever's it is, no accepted write leaves but by a stop of the
\* machine, and readers find all there is: the promise of options.h.
THEOREM Refinement == Spec => KeepsPromise
<1>1. Init => Promised!Init
  <2> SUFFICES ASSUME Init PROVE Promised!Init
    OBVIOUS
  <2>1. \A w : w \notin Recoverable
    <3>1. DOMAIN logs = {} /\ Live(manifest) = {}
      BY DEF Init, Live
    <3> QED BY <3>1, InTablesJoin, RecoverableIs
  <2>2. Recoverable = {}
    BY <2>1
  <2> QED BY <2>2 DEF Init, Promised!Init
<1>2. IInv /\ ReadersFind' /\ [Next]_vars =>
          [Promised!Next]_<<Recoverable,
                            IF phase = "open" /\ writing = 0
                            THEN <<Visible>> ELSE <<>>, reboots>>
  <2> SUFFICES ASSUME IInv, ReadersFind', [Next]_vars PROVE Promised!Next
    OBVIOUS
  <2>1. Promised!Consistent
    BY DEF ReadersFind, MappedVisible, Promised!Consistent
  <2>2. CASE WriteLog
    <3>1. reboots' = reboots
      BY <2>2 DEF WriteLog, counts
    <3>2. Promised!Accept
      BY <2>2, <3>1, WriteLogKeeps DEF Promised!Accept, Writes
    <3> QED BY <2>1, <3>2 DEF Promised!Next
  <2>3. CASE MachineDies
    <3>1. reboots' = reboots + 1
      BY <2>3 DEF MachineDies
    <3> QED BY <2>1, <2>3, <3>1, MachineDiesKeeps DEF Promised!Next, Promised!Reboot
  <2>4. CASE ~WriteLog /\ ~MachineDies
    <3>1. Recoverable' = Recoverable
      BY <2>4, StepKeeps
    <3>2. reboots' = reboots
      BY <2>4 DEF Next, Open, Writer, Background, Installing, Recover,
                  RecoverLogFile, CreateLog, FinishOpen, InsertInto, SwitchLog,
                  BuildTable, InstallTable, Merge, InstallMerge, Saved,
                  DeleteObsoleteFiles, FailToBuild, FailToSave, ProcessDies,
                  counts, vars
    <3> QED BY <2>1, <3>1, <3>2 DEF Promised!Next, Promised!OnlyReaders
  <2> QED BY <2>2, <2>3, <2>4
<1> QED BY <1>1, <1>2, Invariance, ReadersFindAll, PTL
        DEF Spec, KeepsPromise, Promised!Spec

================================================================================
