----------------------- MODULE LevelDbTransaction_proofs -----------------------
(******************************************************************************)
(* A transaction over any number of rows, with any number of calls: its types *)
(* hold, its iterator meets every row although the transaction changes under  *)
(* it, and, for code that puts one value in a row (as the client does), reads *)
(* see the last call and Commit keeps what was read.                          *)
(******************************************************************************)
EXTENDS LevelDbTransaction, TLAPS, WellFoundedInduction

Positions == Keys \cup {End}

--------------------------------------------------------------------------------
(* The first key of a set from a key on.                                      *)

LEMMA KeysAreNumbers ==
    /\ Keys \subseteq Nat
    /\ End \in Nat /\ End \notin Keys
    /\ \A k \in Keys : k < End
BY KeysAssumption DEF Keys, End

\* A set of natural numbers that is not empty has a least element.
LEMMA LeastElement ==
    ASSUME NEW S \in SUBSET Nat, S # {}
    PROVE  \E x \in S : \A y \in S : x <= y
<1> DEFINE R == OpToRel(<, Nat)
<1>1. IsWellFoundedOn(R, Nat)
  BY NatLessThanWellFounded
<1>2. \E x \in S : \A y \in S : <<y, x>> \notin R
  <2> HIDE DEF R
  <2> QED BY <1>1, WFMin
<1>3. \A x, y \in Nat : y < x => <<y, x>> \in R
  BY Zenon DEF OpToRel
<1> HIDE DEF R
<1>4. PICK x \in S : \A y \in S : <<y, x>> \notin R
  BY <1>2
<1>5. \A y \in S : ~(y < x)
  BY <1>3, <1>4
<1>6. \A y \in S : x <= y
  BY <1>5
<1> QED BY <1>6

\* FirstFrom is what lower_bound and Seek return.
LEMMA FirstFromIsFirst ==
    ASSUME NEW S \in SUBSET Keys, NEW k \in Nat
    PROVE  /\ FirstFrom(S, k) \in Positions
           /\ FirstFrom(S, k) # End => FirstFrom(S, k) \in S /\ FirstFrom(S, k) >= k
           /\ \A j \in S : j >= k => FirstFrom(S, k) <= j /\ FirstFrom(S, k) # End
<1> DEFINE after == {j \in S : j >= k}
<1>1. CASE after = {}
  <2>1. FirstFrom(S, k) = End
    BY <1>1 DEF FirstFrom
  <2>2. End \in Positions /\ \A j \in S : ~(j >= k)
    BY <1>1 DEF Positions
  <2> QED BY <2>1, <2>2
<1>2. CASE after # {}
  <2>1. after \in SUBSET Nat
    BY KeysAreNumbers
  <2>2. PICK x \in after : \A y \in after : x <= y
    BY <2>1, <1>2, LeastElement
  <2>3. FirstFrom(S, k) = CHOOSE j \in after : \A i \in after : j <= i
    BY <1>2 DEF FirstFrom
  <2>4. /\ FirstFrom(S, k) \in after
        /\ \A i \in after : FirstFrom(S, k) <= i
    BY <2>2, <2>3
  <2>5. FirstFrom(S, k) \in Keys /\ FirstFrom(S, k) # End
    BY <2>4, KeysAreNumbers
  <2> QED BY <2>4, <2>5 DEF Positions
<1> QED BY <1>1, <1>2

\* Nothing lies between two places that FirstFrom maps to the same.
LEMMA FirstFromSkips ==
    ASSUME NEW S \in SUBSET Keys, NEW k \in Nat, NEW m \in Nat, k <= m,
           \A j \in S : j >= k => j >= m
    PROVE  FirstFrom(S, m) = FirstFrom(S, k)
<1> DEFINE First(T) == IF T = {} THEN End
                       ELSE CHOOSE j \in T : \A i \in T : j <= i
           fromK == {j \in S : j >= k}
           fromM == {j \in S : j >= m}
<1>1. \A j \in S : j >= k <=> j >= m
  BY KeysAreNumbers
<1>2. fromK = fromM
  BY <1>1
<1>3. FirstFrom(S, k) = First(fromK) /\ FirstFrom(S, m) = First(fromM)
  BY DEF FirstFrom
<1> HIDE DEF First, fromK, fromM
<1> QED BY <1>2, <1>3

--------------------------------------------------------------------------------
(* Types.                                                                     *)

Collections ==
    /\ db \in [Keys -> Values \cup {Absent}]
    /\ mutations \in [Keys -> Values \cup {Absent}]
    /\ deletions \subseteq Keys
    /\ version \in Nat

\* What the iterator's two parts and its entry are after UpdateCurrent.
LEMMA UpdateCurrentFields ==
    ASSUME Collections, NEW i \in Iterator,
           NEW m \in Positions, NEW n \in Positions
    PROVE  LET u == UpdateCurrent(i, n, m)
           IN /\ u \in Iterator
              /\ u.dbAt = n /\ u.mutAt = m /\ u.lastVersion = i.lastVersion
              /\ u.valid <=> (n # End \/ m # End)
              /\ u.valid => u.key \in Keys
              /\ u.valid => (u.isMutation <=> m # End /\ n >= m)
              /\ u.valid /\ u.isMutation => u.key = m /\ u.value = mutations[m]
              /\ u.valid /\ ~u.isMutation => u.key = n /\ u.value = db[n]
<1> DEFINE valid == n # End \/ m # End
           isMutation == m # End /\ n >= m
           key == IF ~valid THEN i.key ELSE IF isMutation THEN m ELSE n
           value == IF ~valid THEN i.value
                    ELSE IF isMutation THEN mutations[m] ELSE db[n]
           mutates == IF valid THEN isMutation ELSE i.isMutation
<1>1. m \in Nat /\ n \in Nat
  BY KeysAreNumbers DEF Positions
<1>2. valid /\ isMutation => m \in Keys
  BY DEF Positions
<1>3. valid /\ ~isMutation => n \in Keys
  BY <1>1, KeysAreNumbers DEF Positions
<1>4. /\ i.lastVersion \in Nat /\ i.key \in Positions
      /\ i.value \in Values \cup {Absent} /\ i.isMutation \in BOOLEAN
  BY DEF Iterator, Positions
<1>5. key \in Positions /\ (valid => key \in Keys)
  BY <1>2, <1>3, <1>4 DEF Positions
<1>6. value \in Values \cup {Absent}
  BY <1>2, <1>3, <1>4 DEF Collections
<1>7. mutates \in BOOLEAN /\ valid \in BOOLEAN
  BY <1>4
<1>8. UpdateCurrent(i, n, m) =
          [dbAt |-> n, mutAt |-> m, lastVersion |-> i.lastVersion,
           valid |-> valid, isMutation |-> mutates, key |-> key,
           value |-> value]
  BY DEF UpdateCurrent
<1>9. valid => (mutates <=> isMutation)
  OBVIOUS
<1>10. /\ valid /\ mutates => key = m /\ value = mutations[m]
       /\ valid /\ ~mutates => key = n /\ value = db[n]
  OBVIOUS
<1> HIDE DEF valid, key, value, mutates
<1>11. UpdateCurrent(i, n, m) \in Iterator
  BY <1>4, <1>5, <1>6, <1>7, <1>8 DEF Iterator, Positions
<1> DEFINE u == UpdateCurrent(i, n, m)
<1>12. /\ u.dbAt = n /\ u.mutAt = m /\ u.lastVersion = i.lastVersion
       /\ u.valid = valid /\ u.isMutation = mutates
       /\ u.key = key /\ u.value = value
  BY <1>8
<1>13. valid <=> (n # End \/ m # End)
  BY DEF valid
<1> HIDE DEF isMutation
<1>14. /\ u.valid <=> (n # End \/ m # End)
       /\ u.valid => u.key \in Keys
  BY <1>5, <1>12, <1>13
<1>15. u.valid => (u.isMutation <=> isMutation)
  BY <1>9, <1>12
<1>16. /\ u.valid /\ u.isMutation => u.key = m /\ u.value = mutations[m]
       /\ u.valid /\ ~u.isMutation => u.key = n /\ u.value = db[n]
  BY <1>10, <1>12
<1> HIDE DEF u
<1>17. /\ u \in Iterator
       /\ u.dbAt = n /\ u.mutAt = m /\ u.lastVersion = i.lastVersion
       /\ u.valid <=> (n # End \/ m # End)
       /\ u.valid => u.key \in Keys
       /\ u.valid => (u.isMutation <=> m # End /\ n >= m)
       /\ u.valid /\ u.isMutation => u.key = m /\ u.value = mutations[m]
       /\ u.valid /\ ~u.isMutation => u.key = n /\ u.value = db[n]
  BY <1>11, <1>12, <1>14, <1>15, <1>16 DEF isMutation, u
<1> QED BY <1>17 DEF u

--------------------------------------------------------------------------------
(* Where an iterator stands.                                                  *)

\* i is on the first row from k on that the transaction would leave behind,
\* with the value it would have, and its two parts are where they belong.
Stands(i, k) ==
    /\ i \in Iterator
    /\ i.dbAt = FirstFrom(Undeleted, k) /\ i.mutAt = FirstFrom(Pending, k)
    /\ i.valid <=> (i.dbAt # End \/ i.mutAt # End)
    /\ i.valid => i.key \in Keys
    /\ i.valid => (i.isMutation <=> i.mutAt # End /\ i.dbAt >= i.mutAt)
    /\ i.valid /\ i.isMutation => i.key = i.mutAt /\ i.value = mutations[i.mutAt]
    /\ i.valid /\ ~i.isMutation => i.key = i.dbAt /\ i.value = db[i.dbAt]

LEMMA PartsAreKeys ==
    ASSUME Collections
    PROVE  Undeleted \in SUBSET Keys /\ Pending \in SUBSET Keys
BY DEF Collections, Undeleted, Committed, Pending

\* UpdateCurrent leaves an iterator standing, if its parts are at their places.
LEMMA UpdateStands ==
    ASSUME Collections, NEW i \in Iterator, NEW k \in Nat,
           NEW n, NEW m, n = FirstFrom(Undeleted, k), m = FirstFrom(Pending, k)
    PROVE  /\ Stands(UpdateCurrent(i, n, m), k)
           /\ UpdateCurrent(i, n, m).lastVersion = i.lastVersion
<1>1. n \in Positions /\ m \in Positions
  BY PartsAreKeys, FirstFromIsFirst
<1> QED BY <1>1, UpdateCurrentFields DEF Stands

\* The places of the two parts, which of them is current, and what is ahead.
LEMMA StandsFacts ==
    ASSUME Collections, NEW k \in Nat, NEW i, Stands(i, k)
    PROVE  /\ i.dbAt \in Nat /\ i.mutAt \in Nat
           /\ \A j \in Undeleted : j \in Nat /\ (j >= k => i.dbAt <= j /\ i.dbAt # End)
           /\ \A j \in Pending : j \in Nat /\ (j >= k => i.mutAt <= j /\ i.mutAt # End)
           /\ i.dbAt # End => i.dbAt \in Undeleted /\ i.dbAt >= k
           /\ i.mutAt # End => i.mutAt \in Pending /\ i.mutAt >= k
           /\ i.valid <=> (i.dbAt # End \/ i.mutAt # End)
           /\ i.valid => i.key \in Nat /\ i.key \in Keys
           /\ i.valid /\ i.isMutation => i.key = i.mutAt /\ i.mutAt # End
                                        /\ i.dbAt >= i.mutAt
           /\ i.valid /\ ~i.isMutation => i.key = i.dbAt /\ i.dbAt # End
                                         /\ (i.mutAt = End \/ i.dbAt < i.mutAt)
<1>1. /\ Undeleted \in SUBSET Keys /\ Pending \in SUBSET Keys
      /\ Undeleted \subseteq Nat /\ Pending \subseteq Nat
  BY PartsAreKeys, KeysAreNumbers
<1>2. Positions \subseteq Nat
  BY KeysAreNumbers DEF Positions
<1>3. i.dbAt = FirstFrom(Undeleted, k) /\ i.mutAt = FirstFrom(Pending, k)
  BY DEF Stands
<1>4. /\ FirstFrom(Undeleted, k) \in Nat
      /\ \A j \in Undeleted : j >= k =>
             FirstFrom(Undeleted, k) <= j /\ FirstFrom(Undeleted, k) # End
      /\ FirstFrom(Undeleted, k) # End =>
             FirstFrom(Undeleted, k) \in Undeleted /\ FirstFrom(Undeleted, k) >= k
  BY <1>1, <1>2, FirstFromIsFirst
<1>5. /\ FirstFrom(Pending, k) \in Nat
      /\ \A j \in Pending : j >= k =>
             FirstFrom(Pending, k) <= j /\ FirstFrom(Pending, k) # End
      /\ FirstFrom(Pending, k) # End =>
             FirstFrom(Pending, k) \in Pending /\ FirstFrom(Pending, k) >= k
  BY <1>1, <1>2, FirstFromIsFirst
<1>6. /\ i.valid <=> (i.dbAt # End \/ i.mutAt # End)
      /\ i.valid => i.key \in Keys
      /\ i.valid => (i.isMutation <=> i.mutAt # End /\ i.dbAt >= i.mutAt)
      /\ i.valid /\ i.isMutation => i.key = i.mutAt
      /\ i.valid /\ ~i.isMutation => i.key = i.dbAt
  BY DEF Stands
<1>7. i.dbAt \in Nat /\ i.mutAt \in Nat
  BY <1>3, <1>4, <1>5
<1>8. /\ i.valid /\ i.isMutation => i.key = i.mutAt /\ i.mutAt # End
                                    /\ i.dbAt >= i.mutAt
      /\ i.valid /\ ~i.isMutation => i.key = i.dbAt /\ i.dbAt # End
                                     /\ (i.mutAt = End \/ i.dbAt < i.mutAt)
  <2>1. i.valid /\ ~i.isMutation => i.mutAt = End \/ i.dbAt < i.mutAt
    BY <1>6, <1>7
  <2>2. i.mutAt = End \/ i.mutAt < End
    BY <1>1, <1>3, <1>5, KeysAreNumbers
  <2>3. i.valid /\ ~i.isMutation => i.dbAt # End
    BY <1>6, <1>7, <2>1, <2>2, KeysAreNumbers
  <2> QED BY <1>6, <2>1, <2>3
<1>9. i.valid => i.key \in Nat /\ i.key \in Keys
  BY <1>6, KeysAreNumbers
<1>10. /\ \A j \in Undeleted : j \in Nat /\ (j >= k => i.dbAt <= j /\ i.dbAt # End)
       /\ i.dbAt # End => i.dbAt \in Undeleted /\ i.dbAt >= k
  BY <1>1, <1>3, <1>4
<1>11. /\ \A j \in Pending : j \in Nat /\ (j >= k => i.mutAt <= j /\ i.mutAt # End)
       /\ i.mutAt # End => i.mutAt \in Pending /\ i.mutAt >= k
  BY <1>1, <1>3, <1>5
<1> QED BY <1>6, <1>7, <1>8, <1>9, <1>10, <1>11

\* Nothing is between k and the key of an iterator that stands from k on.
LEMMA StandsFurther ==
    ASSUME Collections, NEW k \in Nat, NEW i, Stands(i, k),
           NEW l \in Nat, k <= l, i.valid => l <= i.key
    PROVE  Stands(i, l)
<1>1. \A j \in Undeleted : j >= k => j >= l
  BY StandsFacts
<1>2. \A j \in Pending : j >= k => j >= l
  BY StandsFacts
<1>3. /\ FirstFrom(Undeleted, l) = FirstFrom(Undeleted, k)
      /\ FirstFrom(Pending, l) = FirstFrom(Pending, k)
  BY <1>1, <1>2, PartsAreKeys, FirstFromSkips
<1> QED BY <1>3 DEF Stands

\* One step takes a standing iterator behind its key.
LEMMA AdvancedStands ==
    ASSUME Collections, NEW i, NEW k \in Nat, Stands(i, k), i.valid
    PROVE  /\ Stands(Advanced(i), i.key + 1)
           /\ Advanced(i).lastVersion = i.lastVersion
<1>1. i.key \in Nat /\ i.key + 1 \in Nat /\ i \in Iterator
  BY StandsFacts DEF Stands
<1>2. Stands(i, i.key)
  <2>1. k <= i.key
    BY StandsFacts
  <2> QED BY <1>1, <2>1, StandsFurther
<1>3. i.dbAt = FirstFrom(Undeleted, i.key) /\ i.mutAt = FirstFrom(Pending, i.key)
  BY <1>2 DEF Stands
<1> DEFINE behind == FirstFrom(Undeleted, i.dbAt + 1)
<1>4. CASE i.isMutation
  <2> DEFINE n == IF i.dbAt = i.mutAt THEN behind ELSE i.dbAt
             m == FirstFrom(Pending, i.mutAt + 1)
  <2>1. Advanced(i) = UpdateCurrent(i, n, m)
    BY <1>4 DEF Advanced
  <2>2. i.key = i.mutAt /\ i.dbAt >= i.mutAt
    BY <1>1, <1>2, <1>4, StandsFacts
  <2>3. m = FirstFrom(Pending, i.key + 1)
    BY <2>2
  <2>4. n = FirstFrom(Undeleted, i.key + 1)
    <3>1. CASE i.dbAt = i.mutAt
      BY <2>2, <3>1
    <3>2. CASE i.dbAt # i.mutAt
      <4>1. i.dbAt \in Nat /\ i.dbAt >= i.key /\ i.dbAt # i.key
        BY <1>1, <1>2, <2>2, <3>2, StandsFacts
      <4>2. \A j \in Undeleted : j >= i.key => j >= i.key + 1
        <5> SUFFICES ASSUME NEW j \in Undeleted, j >= i.key
                     PROVE  j >= i.key + 1
          OBVIOUS
        <5>1. j \in Nat /\ i.dbAt <= j
          BY <1>1, <1>2, StandsFacts
        <5> QED BY <1>1, <4>1, <5>1
      <4>3. FirstFrom(Undeleted, i.key + 1) = FirstFrom(Undeleted, i.key)
        BY <1>1, <4>2, PartsAreKeys, FirstFromSkips
      <4> QED BY <1>3, <3>2, <4>3
    <3> QED BY <3>1, <3>2
  <2> HIDE DEF n, m
  <2> QED BY <1>1, <2>1, <2>3, <2>4, UpdateStands
<1>5. CASE ~i.isMutation
  <2>1. Advanced(i) = UpdateCurrent(i, behind, i.mutAt)
    BY <1>5 DEF Advanced
  <2>2. i.key = i.dbAt /\ (i.mutAt = End \/ i.dbAt < i.mutAt)
    BY <1>1, <1>2, <1>5, StandsFacts
  <2>3. behind = FirstFrom(Undeleted, i.key + 1)
    BY <2>2
  <2>4. i.mutAt = FirstFrom(Pending, i.key + 1)
    <3>1. \A j \in Pending : j >= i.key => j >= i.key + 1
      <4> SUFFICES ASSUME NEW j \in Pending, j >= i.key
                   PROVE  j >= i.key + 1
        OBVIOUS
      <4>1. j \in Nat /\ i.mutAt \in Nat /\ i.mutAt <= j /\ i.mutAt # End
        BY <1>1, <1>2, StandsFacts
      <4> QED BY <1>1, <2>2, <4>1
    <3>2. FirstFrom(Pending, i.key + 1) = FirstFrom(Pending, i.key)
      BY <1>1, <3>1, PartsAreKeys, FirstFromSkips
    <3> QED BY <1>3, <3>2
  <2> HIDE DEF behind
  <2> QED BY <1>1, <2>1, <2>3, <2>4, UpdateStands
<1> QED BY <1>4, <1>5

\* A seek finds the first row from k on.
LEMMA SeekStands ==
    ASSUME Collections, NEW i \in Iterator, NEW k \in Nat
    PROVE  /\ Stands(SeekTo(i, k), k)
           /\ SeekTo(i, k).lastVersion = version
<1> DEFINE u == UpdateCurrent(i, FirstFrom(Undeleted, k), FirstFrom(Pending, k))
<1>1. Stands(u, k)
  BY UpdateStands
<1>2. SeekTo(i, k) = [u EXCEPT !.lastVersion = version]
  BY DEF SeekTo
<1> HIDE DEF u
<1>3. u \in Iterator /\ version \in Nat
  BY <1>1 DEF Stands, Collections
<1> DEFINE v == [u EXCEPT !.lastVersion = version]
<1>4. /\ v \in Iterator /\ v.lastVersion = version
      /\ v.dbAt = u.dbAt /\ v.mutAt = u.mutAt /\ v.key = u.key
      /\ v.value = u.value /\ v.valid = u.valid /\ v.isMutation = u.isMutation
  BY <1>3 DEF Iterator
<1> HIDE DEF v
<1>5. Stands(v, k)
  BY <1>1, <1>4 DEF Stands
<1> QED BY <1>2, <1>4, <1>5 DEF v

\* The rows a commit leaves are those the two parts of an iterator run over.
LEMMA RowsOfTheParts ==
    ASSUME Collections, NEW r \in Keys
    PROVE  /\ CommittedRows[r] # Absent <=> r \in Pending \cup Undeleted
           /\ r \in Pending => CommittedRows[r] = mutations[r]
           /\ r \in Undeleted \ Pending => CommittedRows[r] = db[r]
BY DEF CommittedRows, Pending, Undeleted, Committed

\* A standing iterator is on the first of these rows, or there is none.
LEMMA StandsOnRow ==
    ASSUME Collections, NEW k \in Nat, NEW i, Stands(i, k), NEW l \in Nat, l <= k,
           NEW ahead, ahead = {r \in Keys : r >= k /\ CommittedRows[r] # Absent}
    PROVE  /\ ahead = {} => ~i.valid
           /\ ahead # {} => /\ i.valid
                            /\ i.key = FirstFrom(ahead, l)
                            /\ i.value = CommittedRows[i.key]
<1>1. ahead \in SUBSET Keys /\ \A r \in ahead : r \in Nat /\ r >= l
  BY KeysAreNumbers
<1>2. ASSUME i.valid
      PROVE  i.key \in ahead /\ i.value = CommittedRows[i.key]
  <2>1. i.key \in Keys /\ i.key \in Nat
    BY <1>2, StandsFacts
  <2>2. CASE i.isMutation
    <3>1. i.key \in Pending /\ i.key >= k /\ i.value = mutations[i.key]
      BY <1>2, <2>2, StandsFacts DEF Stands
    <3> QED BY <2>1, <3>1, RowsOfTheParts
  <2>3. CASE ~i.isMutation
    <3>1. i.key \in Undeleted /\ i.key >= k /\ i.value = db[i.key]
      BY <1>2, <2>3, StandsFacts DEF Stands
    <3>2. i.key \notin Pending
      BY <1>2, <2>1, <2>3, <3>1, StandsFacts
    <3> QED BY <2>1, <3>1, <3>2, RowsOfTheParts
  <2> QED BY <2>2, <2>3
<1>3. ASSUME NEW r \in ahead
      PROVE  i.valid /\ i.key <= r
  <2>1. r \in Keys /\ r >= k /\ r \in Pending \cup Undeleted
    BY RowsOfTheParts
  <2>2. CASE r \in Pending
    <3>1. i.mutAt <= r /\ i.mutAt # End
      BY <2>1, <2>2, StandsFacts
    <3> QED BY <3>1, <1>1, StandsFacts
  <2>3. CASE r \in Undeleted
    <3>1. i.dbAt <= r /\ i.dbAt # End
      BY <2>1, <2>3, StandsFacts
    <3> QED BY <3>1, <1>1, StandsFacts
  <2> QED BY <2>1, <2>2, <2>3
<1>4. CASE ahead = {}
  BY <1>2, <1>4
<1>5. CASE ahead # {}
  <2>1. i.valid /\ i.key \in ahead /\ i.value = CommittedRows[i.key]
    BY <1>2, <1>3, <1>5
  <2>2. FirstFrom(ahead, l) \in ahead /\ FirstFrom(ahead, l) <= i.key
    BY <1>1, <2>1, FirstFromIsFirst
  <2>3. i.key <= FirstFrom(ahead, l)
    BY <1>3, <2>2
  <2>4. i.key = FirstFrom(ahead, l)
    BY <1>1, <2>1, <2>2, <2>3
  <2> QED BY <2>1, <2>4
<1> QED BY <1>4, <1>5

\* Next takes a valid iterator behind its key, although the transaction may
\* have changed since the iterator was last moved.
LEMMA NextStands ==
    ASSUME Collections, it \in Iterator, it.valid, it.key \in Keys,
           it.lastVersion <= version,
           it.lastVersion = version => Stands(it, it.key)
    PROVE  /\ Stands(NextOf(it), it.key + 1)
           /\ NextOf(it).lastVersion = version
<1>1. it.key \in Nat /\ it.key + 1 \in Nat /\ it.key <= it.key + 1
  <2>1. it.key \in Nat
    BY KeysAreNumbers
  <2> QED BY <2>1
<1>2. it.lastVersion \in Nat /\ version \in Nat
  BY DEF Iterator, Collections
<1>3. CASE it.lastVersion = version
  <2>1. NextOf(it) = Advanced(it)
    <3>1. ~(it.lastVersion < version) /\ ~(it.key > it.key)
      BY <1>1, <1>2, <1>3
    <3> QED BY <3>1 DEF NextOf
  <2> QED BY <1>1, <1>3, <2>1, AdvancedStands
<1>4. CASE it.lastVersion < version
  <2> DEFINE u == SeekTo(it, it.key)
  <2>1. NextOf(it) = IF u.valid /\ ~(u.key > it.key) THEN Advanced(u) ELSE u
    BY <1>4 DEF NextOf
  <2>2. Stands(u, it.key) /\ u.lastVersion = version
    BY <1>1, SeekStands
  <2> HIDE DEF u
  <2>3. u.valid => u.key \in Nat /\ u.key >= it.key
    BY <1>1, <2>2, StandsFacts
  <2>4. CASE u.valid /\ ~(u.key > it.key)
    <3>1. u.key = it.key
      BY <1>1, <2>3, <2>4
    <3> QED BY <1>1, <2>1, <2>2, <2>4, <3>1, AdvancedStands
  <2>5. CASE ~(u.valid /\ ~(u.key > it.key))
    <3>1. u.valid => it.key + 1 <= u.key
      BY <1>1, <2>3, <2>5
    <3>2. Stands(u, it.key + 1)
      BY <1>1, <2>2, <3>1, StandsFurther
    <3> QED BY <2>1, <2>2, <2>5, <3>2
  <2> QED BY <2>4, <2>5
<1> QED BY <1>2, <1>3, <1>4

--------------------------------------------------------------------------------
(* The iterator of a transaction that changes.                                *)

\* An iterator no older than the last change stands where its key is; one that
\* is older finds its place again before it moves.
IteratorInv ==
    /\ TypeOK
    /\ it.valid /\ it.lastVersion = version => Stands(it, it.key)

LEMMA TypesHaveCollections ==
    ASSUME TypeOK
    PROVE  /\ Collections /\ it \in Iterator
           /\ it.valid => it.key \in Keys /\ it.lastVersion <= version
BY CallsAssumption DEF TypeOK, Collections

LEMMA NewIteratorType == NewIterator \in Iterator /\ ~NewIterator.valid
BY DEF NewIterator, Iterator, Positions

LEMMA IteratorInit == Init => IteratorInv
<1> SUFFICES ASSUME Init PROVE IteratorInv
  OBVIOUS
<1>1. PICK rows \in [Keys -> Values \cup {Absent}] : Fresh(rows)
  BY DEF Init
<1>2. TypeOK
  BY <1>1, NewIteratorType, CallsAssumption DEF Fresh, TypeOK
<1> QED BY <1>1, <1>2, NewIteratorType DEF Fresh, IteratorInv

\* A change of the collections makes the iterator an older one.
LEMMA ChangeKeepsIterator ==
    ASSUME IteratorInv, UNCHANGED it, version' = version + 1
    PROVE  ~(it.valid /\ it.lastVersion = version)'
<1>1. /\ it.lastVersion \in Nat /\ version \in Nat
      /\ it.valid => it.lastVersion <= version
  BY TypesHaveCollections DEF IteratorInv, Collections, Iterator
<1>2. it.valid => it.lastVersion # version + 1
  BY <1>1
<1> QED BY <1>2

\* So do the types of everything else, as a lemma for the three changes.
LEMMA ChangeKeepsTypes ==
    ASSUME TypeOK, UNCHANGED <<db, it>>,
           version < MaxCalls, version' = version + 1,
           mutations' \in [Keys -> Values \cup {Absent}],
           scheduled' \in [Keys -> Values \cup {Absent}],
           deletions' \subseteq Keys
    PROVE  TypeOK'
<1>1. version \in Nat /\ MaxCalls \in Nat /\ version \in 0..MaxCalls
  BY CallsAssumption DEF TypeOK
<1>2. version' \in 0..MaxCalls
  BY <1>1
<1>3. it.lastVersion \in Nat /\ (it.valid => it.lastVersion <= version)
  BY DEF TypeOK, Iterator
<1>4. it.valid => it.lastVersion <= version'
  BY <1>1, <1>3
<1> QED BY <1>2, <1>4 DEF TypeOK

LEMMA IteratorNext == IteratorInv /\ [Next]_vars => IteratorInv'
<1> SUFFICES ASSUME IteratorInv, [Next]_vars PROVE IteratorInv'
  OBVIOUS
<1>1. /\ TypeOK /\ Collections /\ it \in Iterator
      /\ it.valid => it.key \in Keys /\ it.lastVersion <= version
  BY TypesHaveCollections DEF IteratorInv
<1>2. version \in Nat /\ MaxCalls \in Nat
  BY <1>1, CallsAssumption DEF Collections
<1>3. ASSUME NEW k \in Keys, NEW v \in Values, PutString(k, v)
      PROVE  IteratorInv'
  <2>1. /\ mutations' \in [Keys -> Values \cup {Absent}]
        /\ scheduled' \in [Keys -> Values \cup {Absent}]
        /\ deletions' \subseteq Keys
    BY <1>1, <1>3 DEF PutString, TypeOK
  <2>2. TypeOK'
    BY <1>1, <1>3, <2>1, ChangeKeepsTypes DEF PutString
  <2> QED BY <1>3, <2>2, ChangeKeepsIterator DEF PutString, IteratorInv
<1>4. ASSUME NEW k \in Keys, NEW v \in Values, PutMessage(k, v)
      PROVE  IteratorInv'
  <2>1. /\ mutations' \in [Keys -> Values \cup {Absent}]
        /\ scheduled' \in [Keys -> Values \cup {Absent}]
        /\ deletions' \subseteq Keys
    BY <1>1, <1>4 DEF PutMessage, TypeOK
  <2>2. TypeOK'
    BY <1>1, <1>4, <2>1, ChangeKeepsTypes DEF PutMessage
  <2> QED BY <1>4, <2>2, ChangeKeepsIterator DEF PutMessage, IteratorInv
<1>5. ASSUME NEW k \in Keys, Delete(k)
      PROVE  IteratorInv'
  <2>1. /\ mutations' \in [Keys -> Values \cup {Absent}]
        /\ scheduled' \in [Keys -> Values \cup {Absent}]
        /\ deletions' \subseteq Keys
    BY <1>1, <1>5 DEF Delete, TypeOK
  <2>2. TypeOK'
    BY <1>1, <1>5, <2>1, ChangeKeepsTypes DEF Delete
  <2> QED BY <1>5, <2>2, ChangeKeepsIterator DEF Delete, IteratorInv
<1>6. ASSUME NEW k \in Nat, Stands(it', k), it'.lastVersion = version,
             UNCHANGED <<db, mutations, deletions, version, scheduled>>
      PROVE  IteratorInv'
  <2>1. it' \in Iterator /\ (it'.valid => it'.key \in Keys)
    BY <1>6 DEF Stands
  <2>2. TypeOK'
    BY <1>1, <1>2, <1>6, <2>1 DEF TypeOK
  <2>3. it'.valid => Stands(it', it'.key)
    <3>1. it'.valid => it'.key \in Nat /\ k <= it'.key
      BY <1>1, <1>6, StandsFacts
    <3> QED BY <1>1, <1>6, <3>1, StandsFurther
  <2>4. it'.valid => Stands(it, it.key)'
    BY <1>6, <2>3 DEF Stands, Undeleted, Committed, Pending
  <2> QED BY <2>2, <2>4 DEF IteratorInv
<1>7. ASSUME NEW k \in Keys, Seek(k)
      PROVE  IteratorInv'
  BY <1>1, <1>6, <1>7, SeekStands, KeysAreNumbers DEF Seek
<1>8. CASE MoveNext
  <2>1. it.key \in Nat
    BY <1>1, <1>8, KeysAreNumbers DEF MoveNext
  <2>2. it.key + 1 \in Nat
    BY <2>1
  <2> QED BY <1>1, <1>6, <1>8, <2>2, NextStands DEF MoveNext, IteratorInv
<1>9. CASE Commit
  <2>1. CommittedRows \in [Keys -> Values \cup {Absent}]
    BY <1>1 DEF CommittedRows, Collections
  <2>2. TypeOK'
    BY <1>1, <1>2, <1>9, <2>1, NewIteratorType DEF Commit, TypeOK
  <2> QED BY <1>9, <2>2, NewIteratorType DEF Commit, IteratorInv
<1>10. CASE UNCHANGED vars
  BY <1>1, <1>10 DEF vars, IteratorInv, TypeOK, Stands, Undeleted, Committed,
                     Pending
<1> QED BY <1>3, <1>4, <1>5, <1>7, <1>8, <1>9, <1>10 DEF Next

\* Every variable keeps its type, however many rows and calls there are, and an
\* iterator stands on a key and is never ahead of its transaction.
THEOREM TypeCorrect == Spec => []TypeOK
<1>1. IteratorInv => TypeOK
  BY DEF IteratorInv
<1> QED BY <1>1, IteratorInit, IteratorNext, PTL DEF Spec

LEMMA MoveNextLands == IteratorInv /\ MoveNext => LandsOnNextRow
<1> SUFFICES ASSUME IteratorInv, MoveNext PROVE LandsOnNextRow
  OBVIOUS
<1> DEFINE ahead == {k \in Keys : k > it.key /\ CommittedRows[k] # Absent}
<1>1. /\ Collections /\ it \in Iterator /\ it.valid
      /\ it.key \in Keys /\ it.lastVersion <= version
  BY TypesHaveCollections DEF IteratorInv, MoveNext
<1>2. it.key \in Nat
  BY <1>1, KeysAreNumbers
<1>3. it.key + 1 \in Nat /\ it.key <= it.key + 1
  BY <1>2
<1>4. ahead = {r \in Keys : r >= it.key + 1 /\ CommittedRows[r] # Absent}
  <2>1. \A r \in Keys : r > it.key <=> r >= it.key + 1
    BY <1>2, KeysAreNumbers
  <2> QED BY <2>1
<1>5. Stands(it', it.key + 1)
  BY <1>1, NextStands DEF IteratorInv, MoveNext
<1> HIDE DEF ahead
<1>6. /\ ahead = {} => ~it'.valid
      /\ ahead # {} => /\ it'.valid
                       /\ it'.key = FirstFrom(ahead, it.key)
                       /\ it'.value = CommittedRows[it'.key]
  BY <1>1, <1>2, <1>3, <1>4, <1>5, StandsOnRow
<1> QED BY <1>6 DEF LandsOnNextRow, ahead

\* For any number of rows and changes on the way, a loop over an iterator meets
\* every row that is there when the loop gets to it (LevelDbTransaction::
\* Iterator::Next with SyncToTransaction).
THEOREM IterationComplete == Spec => IterationMeetsEveryRow
<1>1. IteratorInv /\ [Next]_vars => [MoveNext => LandsOnNextRow]_vars
  BY MoveNextLands
<1> QED BY <1>1, IteratorInit, IteratorNext, PTL DEF Spec, IterationMeetsEveryRow

--------------------------------------------------------------------------------
(* Reads and the batch, for code that keeps to one value in a row.            *)

\* What the client's code does (leveldb_mutation_queue.mm, leveldb_query_cache.mm):
\* a string row has one value only, and no message row is put after a Delete.
Disciplined ==
    /\ ~Reinsert
    /\ \A k \in Keys \ Messages : \A v, w \in ValueOf(k) : v = w

\* What the two collections say of the row at k.
RowTold(k) ==
    /\ mutations[k] # Absent =>
           /\ k \notin deletions
           /\ mutations[k] = scheduled[k]
           /\ k \notin Messages => mutations[k] \in ValueOf(k)
    /\ k \in deletions => scheduled[k] = Absent
    /\ mutations[k] = Absent /\ k \notin deletions => scheduled[k] = db[k]

ReadsInv == TypeOK /\ \A k \in Keys : RowTold(k)

LEMMA ReadsNext ==
    ASSUME Disciplined
    PROVE  ReadsInv /\ TypeOK' /\ [Next]_vars => ReadsInv'
<1> SUFFICES ASSUME ReadsInv, TypeOK', [Next]_vars, NEW r \in Keys
             PROVE  RowTold(r)'
  BY DEF ReadsInv
<1>1. /\ RowTold(r) /\ deletions \subseteq Keys
      /\ mutations \in [Keys -> Values \cup {Absent}]
      /\ scheduled \in [Keys -> Values \cup {Absent}]
      /\ db \in [Keys -> Values \cup {Absent}]
  BY DEF ReadsInv, TypeOK
<1>2. ASSUME NEW k \in Keys, NEW v \in Values, v \in ValueOf(k), PutString(k, v)
      PROVE  RowTold(r)'
  <2>1. v # Absent
    BY ValuesAssumption
  <2>2. CASE r # k
    BY <1>1, <1>2, <2>2 DEF PutString, RowTold
  <2>3. CASE r = k
    <3>1. mutations'[r] = v
      BY <1>1, <1>2, <2>3 DEF PutString, RowTold, Disciplined
    <3>2. scheduled'[r] = v /\ r \notin deletions'
      BY <1>1, <1>2, <2>3 DEF PutString
    <3> QED BY <1>2, <2>1, <2>3, <3>1, <3>2 DEF RowTold
  <2> QED BY <2>2, <2>3
<1>3. ASSUME NEW k \in Keys, NEW v \in Values, PutMessage(k, v)
      PROVE  RowTold(r)'
  <2>1. v # Absent
    BY ValuesAssumption
  <2> QED BY <1>1, <1>3, <2>1 DEF PutMessage, RowTold, Disciplined
<1>4. ASSUME NEW k \in Keys, Delete(k)
      PROVE  RowTold(r)'
  BY <1>1, <1>4 DEF Delete, RowTold
<1>5. CASE (\E k \in Keys : Seek(k)) \/ MoveNext \/ UNCHANGED vars
  BY <1>1, <1>5 DEF Seek, MoveNext, vars, RowTold
<1>6. CASE Commit
  BY <1>1, <1>6 DEF Commit, RowTold, CommittedRows
<1> QED BY <1>2, <1>3, <1>4, <1>5, <1>6 DEF Next

LEMMA ReadsInit == Init => ReadsInv
<1> SUFFICES ASSUME Init PROVE ReadsInv
  OBVIOUS
<1>1. TypeOK
  BY IteratorInit DEF IteratorInv
<1> QED BY <1>1 DEF Init, Fresh, ReadsInv, RowTold

\* A read in a transaction sees the last call for its row.
THEOREM ReadsAreLatest == Disciplined => (Spec => []ReadsSeeTheLastCall)
<1> SUFFICES ASSUME Disciplined PROVE Spec => []ReadsSeeTheLastCall
  OBVIOUS
<1>1. ReadsInv /\ TypeOK' /\ [Next]_vars => ReadsInv'
  BY ReadsNext
<1>2. ReadsInv => ReadsSeeTheLastCall
  BY DEF ReadsInv, RowTold, ReadsSeeTheLastCall, Get
<1> QED BY <1>1, <1>2, ReadsInit, TypeCorrect, PTL DEF Spec

\* What was read is what Commit leaves in the database.
THEOREM CommitFaithful == Disciplined => (Spec => CommitKeepsWhatWasRead)
<1> SUFFICES ASSUME Disciplined PROVE Spec => CommitKeepsWhatWasRead
  OBVIOUS
<1>1. ReadsInv /\ TypeOK' /\ [Next]_vars => ReadsInv'
  BY ReadsNext
<1>2. ReadsInv /\ [Next]_vars => [Commit => \A k \in Keys : db'[k] = scheduled[k]]_vars
  BY DEF ReadsInv, RowTold, Commit, CommittedRows
<1> QED BY <1>1, <1>2, ReadsInit, TypeCorrect, PTL DEF Spec, CommitKeepsWhatWasRead

================================================================================
