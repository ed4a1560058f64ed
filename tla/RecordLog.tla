------------------------------- MODULE RecordLog -------------------------------
(******************************************************************************)
(* What LevelDB promises of the records of a log (include/leveldb/options.h,  *)
(* 173-176): "if it is just the process that crashes (i.e., the machine does  *)
(* not reboot), no writes will be lost even if sync==false"; if the machine   *)
(* crashes, "some recent writes may be lost".                                 *)
(******************************************************************************)
EXTENDS Naturals, Sequences

CONSTANT Records   \* what may be written

VARIABLES
    log,       \* the records a recovery would find
    visible,   \* <<what readers find>>, or <<>> while there are no readers
    reboots    \* how often the machine has stopped

\* Readers find all of it, or there are none.
Consistent == visible' \in {<<>>, <<log'>>}

Init == log = <<>> /\ visible = <<>> /\ reboots = 0

\* A record enters the log.  A process that dies, before or after, is the end
\* of the readers and of nothing else.
Add == /\ \E r \in Records : log' = Append(log, r)
       /\ UNCHANGED reboots

OnlyReaders == UNCHANGED <<log, reboots>>

\* The machine stops; the record being added may be in the log.
Reboot ==
    /\ reboots' = reboots + 1
    /\ \/ \E n \in 0..Len(log) : log' = SubSeq(log, 1, n)
       \/ \E r \in Records : log' = Append(log, r)

Next == (Add \/ OnlyReaders \/ Reboot) /\ Consistent

Spec == Init /\ [][Next]_<<log, visible, reboots>>

================================================================================
