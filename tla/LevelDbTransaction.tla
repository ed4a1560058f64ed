--------------------------- MODULE LevelDbTransaction --------------------------
(******************************************************************************)
(* The transactions through which the client's local store reads and writes   *)
(* LevelDB (local/leveldb_transaction.cc).  A transaction keeps its changes   *)
(* in two collections over the database, reads see them at once, an iterator  *)
(* merges them with the rows of the database while the transaction goes on    *)
(* changing, and Commit turns them into one batch.                            *)
(*                                                                            *)
(* Keys are numbers in place of strings in their order.  Each row belongs to  *)
(* a table whose code writes it through one of the two overloads of Put.      *)
(******************************************************************************)
EXTENDS Integers

CONSTANTS
    Rows,         \* the number of keys
    Messages,     \* the keys of them written by Put(key, GPBMessage*)
    Values,       \* what a row may hold
    Absent,       \* the value of a row that does not exist
    ValueOf(_),   \* ValueOf(k): the values the code puts at k, of Values
    Reinsert,     \* whether a message row may be put after its deletion
    MaxCalls      \* bound: calls of Put and Delete in a transaction

Keys == 1..Rows

\* Where an exhausted iterator stands: behind every key.
End == Rows + 1

ASSUME KeysAssumption == Rows \in Nat /\ Messages \subseteq Keys
ASSUME ValuesAssumption == /\ Absent \notin Values
                           /\ \A k \in Keys : ValueOf(k) \subseteq Values
ASSUME CallsAssumption == MaxCalls \in Nat /\ Reinsert \in BOOLEAN

VARIABLES
    db,          \* the rows of the database
    mutations,   \* mutations_: the pending value of a row, or Absent if none
    deletions,   \* deletions_
    version,     \* version_: changes so far
    it,          \* an iterator of the transaction
    scheduled    \* history: what the calls asked each row to become

vars == <<db, mutations, deletions, version, it, scheduled>>

--------------------------------------------------------------------------------
\* lower_bound and Seek: the first key of S from k on.
FirstFrom(S, k) == LET after == {j \in S : j >= k}
                   IN IF after = {} THEN End
                      ELSE CHOOSE j \in after : \A i \in after : j <= i

Pending == {k \in Keys : mutations[k] # Absent}
Committed == {k \in Keys : db[k] # Absent}

\* The positions db_iter_ stops at: the committed rows not deleted here.
Undeleted == Committed \ deletions

Iterator == [dbAt: Keys \cup {End}, mutAt: Keys \cup {End}, lastVersion: Nat,
             key: Keys \cup {End}, value: Values \cup {Absent},
             isMutation: BOOLEAN, valid: BOOLEAN]

NewIterator == [dbAt |-> End, mutAt |-> End, lastVersion |-> 0, key |-> End,
                value |-> Absent, isMutation |-> FALSE, valid |-> FALSE]

\* Mutant: of two equal keys, the row of the database is current.
UpdateCurrentStored(i, dbAt, mutAt) ==
    LET valid == dbAt # End \/ mutAt # End
        isMutation == mutAt # End /\ dbAt > mutAt
    IN [dbAt |-> dbAt, mutAt |-> mutAt, lastVersion |-> i.lastVersion,
        valid |-> valid,
        isMutation |-> IF valid THEN isMutation ELSE i.isMutation,
        key |-> IF ~valid THEN i.key ELSE IF isMutation THEN mutAt ELSE dbAt,
        value |-> IF ~valid THEN i.value
                  ELSE IF isMutation THEN mutations[mutAt] ELSE db[dbAt]]

\* The iterator with its two parts at dbAt and mutAt.  An exhausted one keeps
\* the entry it had.
UpdateCurrent(i, dbAt, mutAt) ==
    LET valid == dbAt # End \/ mutAt # End
        isMutation == mutAt # End /\ dbAt >= mutAt
    IN [dbAt |-> dbAt, mutAt |-> mutAt, lastVersion |-> i.lastVersion,
        valid |-> valid,
        isMutation |-> IF valid THEN isMutation ELSE i.isMutation,
        key |-> IF ~valid THEN i.key ELSE IF isMutation THEN mutAt ELSE dbAt,
        value |-> IF ~valid THEN i.value
                  ELSE IF isMutation THEN mutations[mutAt] ELSE db[dbAt]]

SeekTo(i, k) ==
    [UpdateCurrent(i, FirstFrom(Undeleted, k), FirstFrom(Pending, k))
        EXCEPT !.lastVersion = version]

\* One step of the two parts: a mutation that shadows a row takes it along.
Advanced(i) ==
    LET behind == FirstFrom(Undeleted, i.dbAt + 1)
    IN IF i.isMutation
       THEN UpdateCurrent(i, IF i.dbAt = i.mutAt THEN behind ELSE i.dbAt,
                          FirstFrom(Pending, i.mutAt + 1))
       ELSE UpdateCurrent(i, behind, i.mutAt)

\* If the transaction changed since, the iterator first looks for its key
\* again, and does not advance when that took it further.
NextOf(i) ==
    LET synced == IF i.lastVersion < version THEN SeekTo(i, i.key) ELSE i
        moved == synced.valid /\ synced.key > i.key
    IN IF synced.valid /\ ~moved THEN Advanced(synced) ELSE synced

\* Mutant: a deletion hides only what is committed.
GetCommitted(k) == IF mutations[k] # Absent THEN mutations[k] ELSE db[k]

Get(k) == IF k \in deletions THEN Absent
          ELSE IF mutations[k] # Absent THEN mutations[k]
          ELSE db[k]

--------------------------------------------------------------------------------
Fresh(rows) ==
    /\ db = rows
    /\ mutations = [k \in Keys |-> Absent]
    /\ deletions = {}
    /\ version = 0
    /\ scheduled = rows
    /\ it = NewIterator

Init == \E rows \in [Keys -> Values \cup {Absent}] : Fresh(rows)

\* Put(string, string): emplace leaves a value that is already there.
PutString(k, v) ==
    /\ version < MaxCalls
    /\ k \notin Messages
    /\ deletions' = deletions \ {k}
    /\ mutations' = [mutations EXCEPT ![k] = IF @ = Absent THEN v ELSE @]
    /\ version' = version + 1
    /\ scheduled' = [scheduled EXCEPT ![k] = v]
    /\ UNCHANGED <<db, it>>

\* Put(key, GPBMessage*): it does not touch deletions_.
PutMessage(k, v) ==
    /\ version < MaxCalls
    /\ k \in Messages
    /\ Reinsert \/ k \notin deletions
    /\ mutations' = [mutations EXCEPT ![k] = v]
    /\ version' = version + 1
    /\ scheduled' = [scheduled EXCEPT ![k] = v]
    /\ UNCHANGED <<db, deletions, it>>

Delete(k) ==
    /\ version < MaxCalls
    /\ deletions' = deletions \cup {k}
    /\ mutations' = [mutations EXCEPT ![k] = Absent]
    /\ version' = version + 1
    /\ scheduled' = [scheduled EXCEPT ![k] = Absent]
    /\ UNCHANGED <<db, it>>

Seek(k) ==
    /\ it' = SeekTo(it, k)
    /\ UNCHANGED <<db, mutations, deletions, version, scheduled>>

MoveNext ==
    /\ it.valid
    /\ it' = NextOf(it)
    /\ UNCHANGED <<db, mutations, deletions, version, scheduled>>

\* Mutant: the batch puts first and deletes then, and deletes what it put.
CommittedRowsPutsFirst ==
    [k \in Keys |-> IF k \in deletions \/ mutations[k] = Absent THEN Absent
                    ELSE mutations[k]]

\* The batch deletes first and puts then.
CommittedRows ==
    [k \in Keys |-> IF mutations[k] # Absent THEN mutations[k]
                    ELSE IF k \in deletions THEN Absent ELSE db[k]]

\* Mutant: an iterator is used on after the transaction it belongs to.
CommitKeepsIterator ==
    /\ version > 0
    /\ db' = CommittedRows
    /\ mutations' = [k \in Keys |-> Absent]
    /\ deletions' = {}
    /\ version' = 0
    /\ scheduled' = CommittedRows
    /\ UNCHANGED it

\* The batch is written at once, and the next transaction begins.
Commit ==
    /\ version > 0
    /\ db' = CommittedRows
    /\ mutations' = [k \in Keys |-> Absent]
    /\ deletions' = {}
    /\ version' = 0
    /\ scheduled' = CommittedRows
    /\ it' = NewIterator

Next ==
    \/ \E k \in Keys, v \in Values : v \in ValueOf(k) /\ PutString(k, v)
    \/ \E k \in Keys, v \in Values : v \in ValueOf(k) /\ PutMessage(k, v)
    \/ \E k \in Keys : Delete(k)
    \/ \E k \in Keys : Seek(k)
    \/ MoveNext
    \/ Commit

Spec == Init /\ [][Next]_vars

--------------------------------------------------------------------------------
\* A transaction never holds more changes than calls, an iterator never waits
\* at a position it has not passed, and a valid one stands on a key.
TypeOK ==
    /\ db \in [Keys -> Values \cup {Absent}]
    /\ mutations \in [Keys -> Values \cup {Absent}]
    /\ deletions \subseteq Keys
    /\ version \in 0..MaxCalls
    /\ it \in Iterator
    /\ it.valid => it.key \in Keys /\ it.lastVersion <= version
    /\ scheduled \in [Keys -> Values \cup {Absent}]

\* "Sets the contents of value to the latest known value for the given key,
\* including any pending mutations" (leveldb_transaction.h:179-180): a read in
\* the transaction sees what the last call for that row asked for.
ReadsSeeTheLastCall == \A k \in Keys : Get(k) = scheduled[k]

\* What a transaction reads is what the database holds once it is committed.
CommitKeepsWhatWasRead == [][Commit => \A k \in Keys : db'[k] = scheduled[k]]_vars

\* A loop over an iterator that deletes and puts rows on its way (the clean-up
\* of targets and the garbage collector do) meets every row that is there when
\* the loop gets to it, once and in order, with the value it has then.
LandsOnNextRow ==
    LET ahead == {k \in Keys : k > it.key /\ CommittedRows[k] # Absent}
    IN IF ahead = {} THEN ~it'.valid
       ELSE /\ it'.valid
            /\ it'.key = FirstFrom(ahead, it.key)
            /\ it'.value = CommittedRows[it'.key]

IterationMeetsEveryRow == [][MoveNext => LandsOnNextRow]_vars

================================================================================
