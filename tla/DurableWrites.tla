------------------------------ MODULE DurableWrites ----------------------------
(******************************************************************************)
(* What LevelDB promises of the writes it accepts (include/leveldb/options.h, *)
(* 173-176): "if it is just the process that crashes (i.e., the machine does  *)
(* not reboot), no writes will be lost even if sync==false"; if the machine   *)
(* crashes, "some recent writes may be lost".  A write is its sequence        *)
(* number.                                                                    *)
(******************************************************************************)
EXTENDS Naturals

CONSTANT Writes     \* what may be written

VARIABLES
    kept,      \* the writes a recovery would find
    visible,   \* <<what readers find>>, or <<>> while there are no readers
    reboots    \* how often the machine has stopped

\* Readers find all of it, or there are none.
Consistent == visible' \in {<<>>, <<kept'>>}

\* A write comes after all others.
Accept == /\ \E n \in Writes : /\ \A m \in kept : m < n
                               /\ kept' = kept \cup {n}
          /\ UNCHANGED reboots

\* What the database does with its files cannot be seen; a process that dies is
\* the end of the readers and of nothing else.
OnlyReaders == UNCHANGED <<kept, reboots>>

Reboot == kept' \subseteq kept /\ reboots' = reboots + 1

Init == kept = {} /\ visible = <<>> /\ reboots = 0

Next == (Accept \/ OnlyReaders \/ Reboot) /\ Consistent

Spec == Init /\ [][Next]_<<kept, visible, reboots>>

================================================================================
