--------------------------------- MODULE LevelDb -------------------------------
(******************************************************************************)
(* The database under the client's local store (leveldb-library, db_impl.cc   *)
(* and version_set.cc): writes go to a log file and a memtable, a full        *)
(* memtable is set aside with its log and becomes a table in the background,  *)
(* tables are merged, the MANIFEST names what counts, and opening the         *)
(* database puts all of it together after a crash at any point.               *)
(*                                                                            *)
(* A write is its sequence number, and every write its own key: what hides    *)
(* older values of a key is not modelled.  A log keeps or loses a record as a *)
(* whole (Journal).  Steps that hold mutex_ throughout are one action; those  *)
(* that release it for a file's sake, LogAndApply among them, are two.        *)
(******************************************************************************)
EXTENDS Integers, Sequences, FiniteSets, SequencesExt, FiniteSetsExt

CONSTANTS
    BufferSize,         \* write_buffer_size, in writes
    CompactionTrigger,  \* kL0_CompactionTrigger
    StopWritesTrigger,  \* kL0_StopWritesTrigger
    MaxWrites, MaxCrashes, MaxReboots,  \* bounds
    MaxFailures         \* bound: failures to write a table or the MANIFEST

ASSUME LevelDbAssumption ==
    /\ BufferSize \in Nat \ {0}
    /\ CompactionTrigger \in Nat \ {0}
    /\ StopWritesTrigger \in Nat /\ CompactionTrigger <= StopWritesTrigger
    /\ MaxWrites \in Nat /\ MaxCrashes \in Nat /\ MaxReboots \in Nat
    /\ MaxFailures \in Nat

VARIABLES
    (* On disk. *)
    logs,       \* the log files, by number
    tables,     \* the table files, by number
    manifest,   \* what the MANIFEST says: log number, next file, last
                \* sequence, and the tables of the two lowest levels
    (* In the process. *)
    phase,      \* "down", "recovering", "created", "open", or "installed":
                \* the MANIFEST is written and mutex_ held to delete files
    nextFile, lastSequence,
    current,    \* the MANIFEST as the process knows it, with its version
    saving,     \* the edit LogAndApply is writing to the MANIFEST: <<>> or one
    replay,     \* the logs still to be recovered
    edit,       \* the tables the recovery has written, or a merge takes
    logNumber,  \* logfile_number_
    mem, imm,   \* the memtables; imm is {} when there is none
    writing,    \* the write that is in the log and not yet in mem, or 0
    work,       \* the background: "idle", "scheduled" or "merging"
    built,      \* the table of imm that is not yet in the MANIFEST, or 0
    output,     \* the table that merges others and is not yet in the MANIFEST
    bgError,
    (* Bounds and history. *)
    crashes, reboots, failures,
    settled     \* writes that have been in a table of the MANIFEST

disk == <<logs, tables, manifest>>
opening == <<replay, edit, logNumber>>
background == <<work, built, output, bgError>>
counts == <<crashes, reboots, failures, settled>>
known == <<nextFile, lastSequence, current, saving>>
vars == <<disk, phase, known, opening, mem, imm, writing, background, counts>>

--------------------------------------------------------------------------------
Without(f, S) == [x \in DOMAIN f \ S |-> f[x]]
With(f, x, y) == [z \in DOMAIN f \cup {x} |-> IF z = x THEN y ELSE f[z]]

Live(m) == m.level0 \cup m.level1
InTables(S) == UNION {tables[n] : n \in S}

\* What opening the database now would find: the logs that the MANIFEST names,
\* and newer ones that the last incarnation had no occasion to register.
Recoverable ==
    InTables(Live(manifest)) \cup
    UNION {ToSet(logs[n]) : n \in {m \in DOMAIN logs : m >= manifest.logNumber}}

\* What readers find.
Visible == mem \cup imm \cup InTables(Live(current))

NeedsCompaction == Cardinality(current'.level0) >= CompactionTrigger

\* MaybeScheduleCompaction, when nothing is scheduled.
Rescheduled == IF ~bgError /\ (imm' # {} \/ NeedsCompaction)
               THEN "scheduled" ELSE "idle"

MarkUsed(next, n) == IF next <= n THEN n + 1 ELSE next

\* LogAndApply up to where it releases mutex_, with an edit that adds tables to
\* the levels and takes others out.
LogAndApply(new0, new1, deleted, number) ==
    saving' = <<[new0 |-> new0, new1 |-> new1, deleted |-> deleted,
                 logNumber |-> number, nextFile |-> nextFile,
                 lastSequence |-> lastSequence]>>

\* A version with the edit applied to it.
Edited(m) ==
    LET e == saving[1]
    IN [level0 |-> (m.level0 \ e.deleted) \cup e.new0,
        level1 |-> (m.level1 \ e.deleted) \cup e.new1,
        logNumber |-> e.logNumber, nextFile |-> e.nextFile,
        lastSequence |-> e.lastSequence]

\* Mutant: the log of the current memtable is removed too.
DeleteObsoleteFilesAndLog ==
    /\ phase = "installed"
    /\ phase' = "open"
    /\ logs' = Without(logs, {n \in DOMAIN logs : n < logNumber})
    /\ tables' = Without(tables, DOMAIN tables \ (Live(current) \cup {built, output}))
    /\ UNCHANGED <<manifest, known, opening, mem, imm, writing, background, counts>>

\* What the version does not name goes, except tables that are being written;
\* but nothing goes when it is not known what the MANIFEST says.
DeleteObsoleteFiles ==
    /\ phase = "installed"
    /\ phase' = "open"
    /\ IF bgError
       THEN UNCHANGED <<logs, tables>>
       ELSE /\ logs' = Without(logs, {n \in DOMAIN logs : n < current.logNumber})
            /\ tables' = Without(tables, DOMAIN tables \
                                             (Live(current) \cup {built, output}))
    /\ UNCHANGED <<manifest, known, opening, mem, imm, writing, background, counts>>

--------------------------------------------------------------------------------
(* Opening: Recover, RecoverLogFile and the rest of DB::Open.                 *)

Recover ==
    /\ phase = "down"
    /\ phase' = "recovering"
    /\ nextFile' = MarkUsed(manifest.nextFile, manifest.logNumber) + 1
    /\ lastSequence' = manifest.lastSequence
    /\ current' = manifest
    /\ replay' = {n \in DOMAIN logs : n >= manifest.logNumber}
    /\ edit' = {}
    /\ UNCHANGED <<disk, saving, logNumber, mem, imm, writing, background, counts>>

\* Mutant: the numbers of the logs found are not marked as used.
RecoverLogFileUnmarked ==
    /\ phase = "recovering"
    /\ replay # {}
    /\ LET n == Min(replay)
           found == ToSet(logs[n])
       IN /\ replay' = replay \ {n}
          /\ lastSequence' = Max(found \cup {lastSequence})
          /\ IF found = {}
             THEN UNCHANGED <<tables, edit, nextFile>>
             ELSE /\ tables' = With(tables, nextFile, found)
                  /\ edit' = edit \cup {nextFile}
                  /\ nextFile' = nextFile + 1
    /\ UNCHANGED <<logs, manifest, phase, current, saving, logNumber, mem, imm,
                   writing, background, counts>>

\* The oldest log becomes a table, unless it is empty.
RecoverLogFile ==
    /\ phase = "recovering"
    /\ replay # {}
    /\ LET n == Min(replay)
           found == ToSet(logs[n])
       IN /\ replay' = replay \ {n}
          /\ lastSequence' = Max(found \cup {lastSequence})
          /\ IF found = {}
             THEN /\ nextFile' = MarkUsed(nextFile, n)
                  /\ UNCHANGED <<tables, edit>>
             ELSE /\ tables' = With(tables, nextFile, found)
                  /\ edit' = edit \cup {nextFile}
                  /\ nextFile' = MarkUsed(nextFile + 1, n)
    /\ UNCHANGED <<logs, manifest, phase, current, saving, logNumber, mem, imm,
                   writing, background, counts>>

\* A new log and an empty memtable.
CreateLog ==
    /\ phase = "recovering"
    /\ replay = {}
    /\ phase' = "created"
    /\ logs' = With(logs, nextFile, <<>>)
    /\ logNumber' = nextFile
    /\ nextFile' = nextFile + 1
    /\ UNCHANGED <<tables, manifest, lastSequence, current, saving, replay, edit,
                   mem, imm, writing, background, counts>>

\* The recovered tables are made known, and older logs are done with.
FinishOpen ==
    /\ phase = "created" /\ saving = <<>>
    /\ LogAndApply(edit, {}, {}, logNumber)
    /\ UNCHANGED <<disk, phase, nextFile, lastSequence, current, opening, mem, imm,
                   writing, background, counts>>

--------------------------------------------------------------------------------
(* Writing: DBImpl::Write and MakeRoomForWrite, for a client of one thread.   *)

MayWrite == phase = "open" /\ writing = 0 /\ ~bgError
            /\ lastSequence < MaxWrites
HasRoom == Cardinality(mem) < BufferSize

\* The record is in the log; readers do not see it yet.
WriteLog ==
    /\ MayWrite
    /\ HasRoom
    /\ writing' = lastSequence + 1
    /\ logs' = [logs EXCEPT ![logNumber] = Append(@, lastSequence + 1)]
    /\ UNCHANGED <<tables, manifest, phase, known, opening, mem, imm, background,
                   counts>>

InsertInto ==
    /\ phase = "open" /\ writing # 0
    /\ mem' = mem \cup {writing}
    /\ lastSequence' = writing
    /\ writing' = 0
    /\ UNCHANGED <<disk, phase, nextFile, current, saving, opening, imm, background,
                   counts>>

\* Mutant: the background is not told of the memtable.
SwitchLogSilently ==
    /\ MayWrite
    /\ ~HasRoom /\ imm = {}
    /\ Cardinality(current.level0) < StopWritesTrigger
    /\ logs' = With(logs, nextFile, <<>>)
    /\ logNumber' = nextFile
    /\ nextFile' = nextFile + 1
    /\ imm' = mem /\ mem' = {}
    /\ UNCHANGED <<tables, manifest, phase, lastSequence, current, saving, replay,
                   edit, writing, background, counts>>

\* A full memtable is set aside, unless one is still waiting or there are too
\* many tables at level 0: then the writer waits for the background.
SwitchLog ==
    /\ MayWrite
    /\ ~HasRoom /\ imm = {}
    /\ Cardinality(current.level0) < StopWritesTrigger
    /\ logs' = With(logs, nextFile, <<>>)
    /\ logNumber' = nextFile
    /\ nextFile' = nextFile + 1
    /\ imm' = mem /\ mem' = {}
    /\ UNCHANGED current
    /\ work' = IF work = "idle" THEN Rescheduled ELSE work
    /\ UNCHANGED <<tables, manifest, phase, lastSequence, saving, replay, edit,
                   writing, built, output, bgError, counts>>

--------------------------------------------------------------------------------
(* The background thread.                                                     *)

\* A merge under way goes on after an error, and so do its attempts at imm.
Working == /\ phase = "open" /\ saving = <<>>
           /\ work = "merging" \/ (work = "scheduled" /\ ~bgError)

\* CompactMemTable, from BackgroundCompaction or in the middle of a merge.
BuildTable ==
    /\ Working
    /\ imm # {} /\ built = 0
    /\ tables' = With(tables, nextFile, imm)
    /\ built' = nextFile
    /\ nextFile' = nextFile + 1
    /\ UNCHANGED <<logs, manifest, phase, lastSequence, current, saving, opening,
                   mem, imm, writing, work, output, bgError, counts>>

\* The table replaces the memtable, and the MANIFEST the logs up to that of the
\* current memtable.
InstallTable ==
    /\ Working
    /\ built # 0
    /\ \/ LogAndApply({built}, {}, {}, logNumber)
       \/ LogAndApply({}, {built}, {}, logNumber)
    /\ UNCHANGED <<disk, phase, nextFile, lastSequence, current, opening, mem, imm,
                   writing, background, counts>>

\* DoCompactionWork: a table of level 0, or those it overlaps, or these and
\* those below them, become one.
Merge ==
    /\ Working
    /\ work = "scheduled"
    /\ imm = {}
    /\ Cardinality(current.level0) >= CompactionTrigger
    /\ work' = "merging"
    /\ \E t \in current.level0 :
           \E inputs \in {{t}, current.level0, Live(current)} :
               /\ edit' = inputs
               /\ tables' = With(tables, nextFile, InTables(inputs))
    /\ output' = nextFile
    /\ nextFile' = nextFile + 1
    /\ UNCHANGED <<logs, manifest, phase, lastSequence, current, saving, replay,
                   logNumber, mem, imm, writing, built, bgError, counts>>

\* Mutant: a table that came in during the merge goes with its inputs.
InstallMergeOfAll ==
    /\ Working
    /\ work = "merging" /\ built = 0
    /\ LogAndApply({}, {output}, Live(current), current.logNumber)
    /\ UNCHANGED <<disk, phase, nextFile, lastSequence, current, opening, mem, imm,
                   writing, background, counts>>

\* InstallCompactionResults: the inputs leave, and nothing else.
InstallMerge ==
    /\ Working
    /\ work = "merging" /\ built = 0
    /\ LogAndApply({}, {output}, edit, current.logNumber)
    /\ UNCHANGED <<disk, phase, nextFile, lastSequence, current, opening, mem, imm,
                   writing, background, counts>>

\* What the caller of LogAndApply was at is over: a memtable, perhaps in the
\* middle of a merge, or a merge, or the opening.
Concluded ==
    IF built # 0
    THEN built' = 0 /\ UNCHANGED <<edit, output>>
    ELSE edit' = {} /\ output' = 0 /\ UNCHANGED built

InMerge == work = "merging" /\ built # 0

\* The MANIFEST is written, and LogAndApply has mutex_ again.
Saved ==
    /\ saving # <<>>
    /\ manifest' = Edited(manifest) /\ current' = Edited(current)
    /\ saving' = <<>>
    /\ settled' = settled \cup InTables(Live(manifest'))
    /\ phase' = "installed"
    /\ imm' = IF built # 0 THEN {} ELSE imm
    /\ Concluded
    /\ work' = IF InMerge THEN work ELSE Rescheduled
    /\ UNCHANGED <<logs, tables, nextFile, lastSequence, replay, logNumber, mem,
                   writing, bgError, crashes, reboots, failures>>

\* RecordBackgroundError: no write will be accepted any more; the client's next
\* commit asserts.
RecordBackgroundError ==
    /\ failures < MaxFailures
    /\ failures' = failures + 1
    /\ bgError' = TRUE

\* A table could not be written: that of imm, or that of a merge.
FailToBuild ==
    /\ Working
    /\ built = 0
    /\ RecordBackgroundError
    /\ \/ imm # {} /\ work' = (IF work = "merging" THEN work ELSE "idle")
          /\ UNCHANGED <<edit, output>>
       \/ work = "merging" /\ work' = "idle" /\ edit' = {} /\ output' = 0
    /\ UNCHANGED <<disk, phase, known, replay, logNumber, mem, imm, writing,
                   built, crashes, reboots, settled>>

\* The MANIFEST could not be written, or not be synced: the disk may hold either.
FailToSave ==
    /\ phase = "open" /\ saving # <<>>
    /\ RecordBackgroundError
    /\ manifest' \in {manifest, Edited(manifest)}
    /\ settled' = settled \cup InTables(Live(manifest'))
    /\ saving' = <<>>
    /\ phase' = "installed"
    /\ Concluded
    /\ work' = IF InMerge THEN work ELSE "idle"
    /\ UNCHANGED <<logs, tables, nextFile, lastSequence, current, replay, logNumber,
                   mem, imm, writing, crashes, reboots>>

--------------------------------------------------------------------------------
Stop == /\ phase' = "down"
        /\ nextFile' = 0 /\ lastSequence' = 0
        /\ current' = manifest /\ saving' = <<>>
        /\ replay' = {} /\ edit' = {} /\ logNumber' = 0
        /\ mem' = {} /\ imm' = {} /\ writing' = 0
        /\ work' = "idle" /\ built' = 0 /\ output' = 0 /\ bgError' = FALSE
        /\ UNCHANGED <<tables, manifest, settled>>

ProcessDies ==
    /\ phase # "down"
    /\ crashes < MaxCrashes
    /\ crashes' = crashes + 1
    /\ Stop
    /\ UNCHANGED <<logs, reboots, failures>>

\* The machine stops: logs, which nobody syncs, may each lose a tail of what they
\* hold, which is a memtable's writes at most.
MachineDies ==
    /\ phase # "down"
    /\ crashes < MaxCrashes /\ reboots < MaxReboots
    /\ crashes' = crashes + 1
    /\ reboots' = reboots + 1
    /\ Stop
    /\ \E left \in [DOMAIN logs -> 0..BufferSize] :
           /\ \A n \in DOMAIN logs : left[n] <= Len(logs[n])
           /\ logs' = [n \in DOMAIN logs |-> SubSeq(logs[n], 1, left[n])]
    /\ UNCHANGED failures

Init ==
    /\ logs = <<>> /\ tables = <<>>
    /\ manifest = [logNumber |-> 0, nextFile |-> 2, lastSequence |-> 0,
                   level0 |-> {}, level1 |-> {}]
    /\ phase = "down" /\ nextFile = 0 /\ lastSequence = 0
    /\ current = manifest /\ saving = <<>>
    /\ replay = {} /\ edit = {} /\ logNumber = 0
    /\ mem = {} /\ imm = {} /\ writing = 0
    /\ work = "idle" /\ built = 0 /\ output = 0 /\ bgError = FALSE
    /\ crashes = 0 /\ reboots = 0 /\ failures = 0 /\ settled = {}

Open == Recover \/ RecoverLogFile \/ CreateLog \/ FinishOpen
Writer == WriteLog \/ InsertInto \/ SwitchLog
Background == BuildTable \/ InstallTable \/ Merge \/ InstallMerge
Installing == Saved \/ DeleteObsoleteFiles

Next == \/ Open
        \/ Writer
        \/ Background
        \/ Installing
        \/ FailToBuild
        \/ FailToSave
        \/ ProcessDies
        \/ MachineDies

\* The client opens its database and has writes; the background thread runs.
Spec == /\ Init /\ [][Next]_vars
        /\ WF_vars(Open) /\ WF_vars(Writer) /\ WF_vars(Background)
        /\ WF_vars(Installing)

--------------------------------------------------------------------------------
\* The files that count exist, numbers are used once, and a sequence number is
\* assigned once: readers and the recovery never meet two writes of one number.
TypeOK ==
    /\ Live(manifest) \cup Live(current) \subseteq DOMAIN tables
    /\ ~bgError => current = manifest
    /\ phase = "open" => logNumber \in DOMAIN logs /\ logNumber >= manifest.logNumber
    /\ phase \in {"created", "installed", "open"} =>
           \A n \in DOMAIN logs \cup Live(current) \cup {built, output} : n < nextFile
    /\ phase = "open" => \A n \in Recoverable \ {writing} : n <= lastSequence
    /\ {built, output} \ {0} \subseteq DOMAIN tables
    /\ Cardinality(mem) <= BufferSize
    /\ bgError => work # "scheduled"

\* A write that has been in a table is never lost, whatever crashes: the
\* MANIFEST and the tables are synced, and a log leaves after its table came.
SettledSurvive == settled \subseteq Recoverable

\* At every moment, in whichever step a process dies, a recovery finds exactly
\* the writes that were accepted; and readers find them too while it is open.
Promised == INSTANCE DurableWrites WITH
    Writes <- 1..MaxWrites,
    kept <- Recoverable,
    visible <- IF phase = "open" /\ writing = 0 THEN <<Visible>> ELSE <<>>

KeepsPromise == Promised!Spec

\* A writer does not wait for ever: the memtable set aside is compacted, level
\* 0 is merged, and the database takes writes until there are no more.
WritesGoOn == <>(bgError \/ MaxWrites \in Recoverable)

================================================================================
