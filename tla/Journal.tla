-------------------------------- MODULE Journal --------------------------------
(******************************************************************************)
(* LevelDB's log file, cell by cell: log::Writer cuts every record into       *)
(* fragments that fit the blocks of the file (db/log_writer.cc), a crash      *)
(* leaves the file cut somewhere, and log::Reader puts the records together   *)
(* again (db/log_reader.cc).  The client writes each transaction of its local *)
(* store as one record, without sync.                                         *)
(*                                                                            *)
(* A cell stands for a byte.  The first cells of a header are the checksum of *)
(* the type and the payload, the last one is the length with the type.        *)
(******************************************************************************)
EXTENDS Integers, Sequences

CONSTANTS
    kBlockSize, kHeaderSize,
    Sizes,          \* the lengths of records
    MaxRecords,     \* bound: records added to the file
    MaxZeros        \* bound: zeros a file system leaves behind what it kept

ASSUME BlockAssumption == /\ kHeaderSize \in Nat /\ kHeaderSize >= 2
                          /\ kBlockSize \in Nat /\ kBlockSize > kHeaderSize
ASSUME SizesAssumption == Sizes \subseteq Nat
ASSUME CrashAssumption == MaxZeros \in Nat /\ MaxRecords \in Nat

VARIABLES
    file,      \* the cells of the file
    offset,    \* block_offset_
    adding,    \* the part of a record AddRecord has still to emit
    stage,     \* "idle", or where AddRecord's loop is: "begin" or "rest"
    added,     \* history: the records added, whole or not
    ends,      \* history: where the record i ends in the file
    good,      \* history: how many cells of the file are as they were written
    failure,   \* what ended the writing: "none", "process" or "machine"
    done,      \* whether the reader came to the end
    position,  \* how many cells of the file the reader has read
    buffer, eof, scratch, inFragment,   \* the reader's buffer_, eof_ and so on
    records    \* what ReadRecord has returned

writerVars == <<file, offset, adding, stage, added, ends, good>>
readerVars == <<position, buffer, eof, scratch, inFragment, records>>
vars == <<writerVars, failure, done, readerVars>>

--------------------------------------------------------------------------------
(* The writer. *)

\* Record i of a size, each of its cells different from all others.
Record(i, size) == [j \in 1..size |-> [record |-> i, cell |-> j]]

Zero == [zero |-> TRUE]
Zeros(n) == [i \in 1..n |-> Zero]

Checksum(type, payload) == [sum |-> <<type, payload>>]
Length(type, payload) == [type |-> type, length |-> Len(payload)]

Physical(type, payload) ==
    [i \in 1..kHeaderSize |-> IF i < kHeaderSize THEN Checksum(type, payload)
                              ELSE Length(type, payload)] \o payload

\* Mutant: a header is split at the end of a block.
SwitchesBlockLate == kBlockSize - offset < kHeaderSize - 1

SwitchesBlock == kBlockSize - offset < kHeaderSize

Trailer == IF SwitchesBlock THEN Zeros(kBlockSize - offset) ELSE <<>>
Start == IF SwitchesBlock THEN 0 ELSE offset
Available == kBlockSize - Start - kHeaderSize
FragmentLength == IF Len(adding) < Available THEN Len(adding) ELSE Available

FragmentType ==
    LET begin == stage = "begin"
        end == Len(adding) = FragmentLength
    IN CASE begin /\ end -> "full"
         [] begin /\ ~end -> "first"
         [] ~begin /\ end -> "last"
         [] OTHER -> "middle"

Fragment == Physical(FragmentType, SubSeq(adding, 1, FragmentLength))

AddRecord(size) ==
    /\ failure = "none"
    /\ stage = "idle"
    /\ Len(added) < MaxRecords
    /\ LET record == Record(Len(added) + 1, size)
       IN adding' = record /\ added' = Append(added, record)
    /\ stage' = "begin"
    /\ UNCHANGED <<file, offset, ends, good, failure, done, readerVars>>

\* One round of AddRecord's loop: a trailer if need be, and a fragment.
EmitPhysicalRecord ==
    /\ failure = "none"
    /\ stage # "idle"
    /\ file' = file \o Trailer \o Fragment
    /\ offset' = Start + kHeaderSize + FragmentLength
    /\ good' = Len(file')
    /\ adding' = SubSeq(adding, FragmentLength + 1, Len(adding))
    /\ IF Len(adding) = FragmentLength
       THEN stage' = "idle" /\ ends' = Append(ends, Len(file'))
       ELSE stage' = "rest" /\ UNCHANGED ends
    /\ UNCHANGED <<added, failure, done, readerVars>>

--------------------------------------------------------------------------------
\* What there is to write when the process or the machine dies.
Written == IF stage = "idle" THEN file ELSE file \o Trailer \o Fragment

Crash(kind, kept, zeros) ==
    /\ failure = "none"
    /\ failure' = kind
    /\ file' = SubSeq(Written, 1, kept) \o Zeros(zeros)
    /\ good' = kept
    /\ ends' = IF /\ stage # "idle" /\ kept = Len(Written)
                  /\ Len(adding) = FragmentLength
               THEN Append(ends, kept) ELSE ends
    /\ UNCHANGED <<offset, adding, stage, added, done, readerVars>>

\* The process dies with any part of the next fragment written.
ProcessDies ==
    \E kept \in Len(file)..Len(Written) : Crash("process", kept, 0)

\* When the machine stops, any tail of the file may be missing or be zeros.
MachineDies ==
    \E kept \in 0..Len(Written), zeros \in 0..MaxZeros :
        Crash("machine", kept, zeros)

--------------------------------------------------------------------------------
(* The reader, from the start of the file and with checksums.                 *)

Reading == failure # "none" /\ ~done

\* ReadPhysicalRecord finds fewer cells than a header and reads on; what is
\* left in the buffer is a trailer.
ReadBlock ==
    /\ Reading
    /\ Len(buffer) < kHeaderSize /\ ~eof
    /\ LET rest == Len(file) - position
           size == IF rest < kBlockSize THEN rest ELSE kBlockSize
       IN /\ buffer' = SubSeq(file, position + 1, position + size)
          /\ position' = position + size
          /\ eof' = (size < kBlockSize)
    /\ UNCHANGED <<writerVars, failure, done, scratch, inFragment, records>>

HasHeader == Len(buffer) >= kHeaderSize
LengthCell == buffer[kHeaderSize]

\* The header promises a longer payload than there is.
CutOff == LengthCell # Zero /\ kHeaderSize + LengthCell.length > Len(buffer)

Type == LengthCell.type
Payload == SubSeq(buffer, kHeaderSize + 1, kHeaderSize + LengthCell.length)

IsIntact == /\ LengthCell # Zero
            /\ ~CutOff
            /\ \A i \in 1..(kHeaderSize - 1) :
                   buffer[i] = Checksum(Type, Payload)

\* Mutant: a header that is cut off is waited for.
EndOfFileClean ==
    /\ Reading
    /\ eof
    /\ buffer # <<>> => HasHeader /\ CutOff
    /\ done' = TRUE
    /\ UNCHANGED <<writerVars, failure, readerVars>>

\* kEof: a header or a payload is cut off, or nothing is left.
EndOfFile ==
    /\ Reading
    /\ eof
    /\ HasHeader => CutOff
    /\ done' = TRUE
    /\ UNCHANGED <<writerVars, failure, readerVars>>

\* kBadRecord: zeros in place of a length, a length beyond the block, or a
\* checksum that does not hold.  The rest of the block is dropped, and the
\* record under way.
BadRecord ==
    /\ Reading
    /\ HasHeader
    /\ ~IsIntact /\ ~(eof /\ CutOff)
    /\ buffer' = <<>>
    /\ inFragment' = FALSE
    /\ scratch' = <<>>
    /\ UNCHANGED <<writerVars, failure, done, position, eof, records>>

Consumed == SubSeq(buffer, kHeaderSize + Len(Payload) + 1, Len(buffer))

\* Mutant: the scratch of a record that was cut off is taken along.
CollectStale ==
    IF Type \in {"full", "first"} THEN
        /\ scratch' = Payload
        /\ inFragment' = (Type = "first")
        /\ records' = IF Type = "full" THEN Append(records, Payload) ELSE records
    ELSE
        /\ scratch' = scratch \o Payload
        /\ inFragment' = (Type = "middle")
        /\ records' = IF Type = "last" THEN Append(records, Payload)
                      ELSE records

\* ReadRecord's switch: a record is returned with its last fragment, and a
\* middle or last one without its first is dropped.
Collect ==
    \/ /\ Type = "full"
       /\ records' = Append(records, Payload)
       /\ scratch' = <<>> /\ inFragment' = FALSE
    \/ /\ Type = "first"
       /\ scratch' = Payload /\ inFragment' = TRUE
       /\ UNCHANGED records
    \/ /\ Type = "middle"
       /\ scratch' = IF inFragment THEN scratch \o Payload ELSE scratch
       /\ UNCHANGED <<inFragment, records>>
    \/ /\ Type = "last"
       /\ records' = IF inFragment THEN Append(records, scratch \o Payload)
                     ELSE records
       /\ scratch' = <<>> /\ inFragment' = FALSE

ReadFragment ==
    /\ Reading
    /\ HasHeader /\ IsIntact
    /\ Collect
    /\ buffer' = Consumed
    /\ UNCHANGED <<writerVars, failure, done, position, eof>>

Init ==
    /\ file = <<>> /\ offset = 0 /\ good = 0
    /\ adding = <<>> /\ stage = "idle"
    /\ added = <<>> /\ ends = <<>>
    /\ failure = "none" /\ done = FALSE
    /\ position = 0 /\ buffer = <<>> /\ eof = FALSE
    /\ scratch = <<>> /\ inFragment = FALSE /\ records = <<>>

Reader == ReadBlock \/ EndOfFile \/ BadRecord \/ ReadFragment

Next ==
    \/ \E size \in Sizes : AddRecord(size)
    \/ EmitPhysicalRecord
    \/ ProcessDies
    \/ MachineDies
    \/ Reader

Spec == Init /\ [][Next]_vars /\ WF_vars(Reader)

--------------------------------------------------------------------------------
\* The asserts of AddRecord and EmitPhysicalRecord: a block never overflows and
\* a header never crosses its end; the reader keeps at most a block.
TypeOK ==
    /\ offset \in 0..kBlockSize
    /\ stage \in {"idle", "begin", "rest"}
    /\ failure = "none" => offset = 0 \/ Len(file) % kBlockSize = offset % kBlockSize
    /\ Available >= 0
    /\ stage # "idle" => kHeaderSize + FragmentLength <= kBlockSize - Start
    /\ good <= Len(file) /\ position <= Len(file)
    /\ Len(buffer) <= kBlockSize

\* The records whose every cell the file still holds.
Held(n) == \A i \in DOMAIN ends : ends[i] <= good <=> i <= n

Whole == SubSeq(added, 1, CHOOSE n \in 0..Len(ends) : Held(n))

\* Whatever the crash left, the records read back are the first ones added, in
\* order and whole: exactly those the file holds to their last byte.  Nothing a
\* returned AddRecord wrote is lost when only the process dies.
Promised == INSTANCE RecordLog WITH
    Records <- {Record(i, size) : i \in 1..MaxRecords, size \in Sizes},
    log <- Whole,
    visible <- IF done THEN <<records>> ELSE <<>>,
    reboots <- IF failure = "machine" THEN 1 ELSE 0

KeepsPromise == Promised!Spec

\* Reading ends, however the file was cut.
ReadingEnds == Reading ~> done

================================================================================
