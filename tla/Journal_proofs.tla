----------------------------- MODULE Journal_proofs ----------------------------
(******************************************************************************)
(* The log file, for every block and header size, records of any length and a *)
(* file cut anywhere: what a reader finds is what the file holds whole.       *)
(*                                                                            *)
(* The invariant speaks of the pieces of the file: the fragments the writer   *)
(* has emitted, each with its place, its block and what it carries of which   *)
(* record.  A crash leaves a prefix of the cells and zeros, and the reader    *)
(* goes from piece to piece until it meets one that is not all there.         *)
(******************************************************************************)
EXTENDS Journal, TLAPS, WellFoundedInduction

--------------------------------------------------------------------------------
(* Pieces.                                                                    *)

Types == {"full", "first", "middle", "last"}

\* A record's cells, and those of a file.
Cell == [record: Nat, cell: Nat]
Cells == Cell \cup {Zero} \cup [sum: Types \X Seq(Cell)]
         \cup [type: Types, length: Nat]

\* A fragment: its block begins behind the cell base, the fragment behind the
\* cell at, and it ends with the cell end; it carries payload, which is what
\* record rec has up to its cell upto.
Piece == [base: Int, at: Int, end: Int, type: Types, payload: Seq(Cell),
          rec: Nat, upto: Nat]

\* Before the first one: as if a block had just ended.
Nothing == [base |-> -kBlockSize, at |-> 0, end |-> 0, type |-> "full",
            payload |-> <<>>, rec |-> 0, upto |-> 0]

\* The record goes on behind the piece.
Open(p) == p.type \in {"first", "middle"}

\* How many records are complete with the piece.
Count(p) == IF Open(p) THEN p.rec - 1 ELSE p.rec

Aligned(x) == \E q \in Int : x = q * kBlockSize

\* A piece is within a block of the file.
Fits(p) == /\ p.base >= 0 /\ p.base <= p.at
           /\ p.end = p.at + kHeaderSize + Len(p.payload)
           /\ p.end <= p.base + kBlockSize

\* What the cells of a file hold of it.
InCells(cells, p) ==
    /\ \A i \in 1..(kHeaderSize - 1) :
           cells[p.at + i] = Checksum(p.type, p.payload)
    /\ cells[p.at + kHeaderSize] = Length(p.type, p.payload)
    /\ \A i \in 1..Len(p.payload) : cells[p.at + kHeaderSize + i] = p.payload[i]

\* Piece r is in the same block as p, right behind it, or begins the next one
\* because there is no room for a header.
Behind(p, r) ==
    \/ r.base = p.base /\ r.at = p.end
    \/ /\ r.base = p.base + kBlockSize /\ r.at = r.base
       /\ r.base - p.end < kHeaderSize

\* Piece r goes on with the record of p, or begins the next one, and tells by
\* its type whether it ends it.
Carries(recs, p, r) ==
    /\ r.rec = (IF Open(p) THEN p.rec ELSE p.rec + 1) /\ r.rec \in 1..Len(recs)
    /\ r.upto = (IF Open(p) THEN p.upto ELSE 0) + Len(r.payload)
    /\ r.upto <= Len(recs[r.rec])
    /\ r.payload = SubSeq(recs[r.rec], r.upto - Len(r.payload) + 1, r.upto)
    /\ ~Open(r) => r.upto = Len(recs[r.rec])
    /\ Open(p) <=> r.type \in {"middle", "last"}

\* The cells are those of pieces 1 to n.
Layout(recs, cells, pieces, n) ==
    /\ n \in Nat /\ cells \in Seq(Cells) /\ pieces \in [0..n -> Piece]
    /\ pieces[0] = Nothing /\ pieces[n].end = Len(cells)
    /\ \A m \in 1..n :
           /\ Fits(pieces[m]) /\ InCells(cells, pieces[m])
           /\ Aligned(pieces[m].base)
           /\ Behind(pieces[m - 1], pieces[m])
           /\ Carries(recs, pieces[m - 1], pieces[m])
    /\ \A l, m \in 0..n : l < m => pieces[l].end < pieces[m].end

\* stops[r] is where record r ends, for the records that are complete.
Stops(stops, pieces, n) ==
    /\ stops \in Seq(Int) /\ Len(stops) = Count(pieces[n])
    /\ \A m \in 0..n :
           /\ Count(pieces[m]) \in 0..Len(stops)
           /\ \A r \in 1..Len(stops) :
                  stops[r] <= pieces[m].end <=> r <= Count(pieces[m])
    /\ \A r \in 1..Len(stops) : \E m \in 1..n : stops[r] = pieces[m].end

--------------------------------------------------------------------------------
(* The invariant.                                                             *)

\* The file is the first good cells of those written, and zeros.
Cut(cells) ==
    /\ good \in 0..Len(cells) /\ good <= Len(file)
    /\ \A i \in 1..good : file[i] = cells[i]
    /\ \A i \in (good + 1)..Len(file) : file[i] = Zero

\* Of the places where records end, the history has those of the file.
Ended(stops) ==
    /\ ends \in Seq(Int) /\ Len(ends) <= Len(stops)
    /\ \A r \in 1..Len(ends) : ends[r] = stops[r]
    /\ \A r \in (Len(ends) + 1)..Len(stops) : stops[r] > good

\* While the writer is alive the file is all there, and the writer is behind the
\* last piece.
Writing(cells, last, stops) ==
    /\ cells = file /\ good = Len(file) /\ stops = ends
    /\ offset = (IF last = Nothing THEN 0 ELSE last.end - last.base)
    /\ stage = "idle" => ~Open(last) /\ last.rec = Len(added)
    /\ stage = "begin" => /\ ~Open(last) /\ last.rec + 1 = Len(added)
                          /\ adding = added[Len(added)]
    /\ stage = "rest" => /\ Open(last) /\ last.rec = Len(added)
                         /\ adding = SubSeq(added[Len(added)], last.upto + 1,
                                            Len(added[Len(added)]))

\* The reader has read the pieces up to p, and its block begins behind base: the
\* block of the piece, or the next one.
Following(p, base) ==
    /\ p.end <= good
    /\ \/ base = p.base
       \/ base = p.base + kBlockSize /\ base - p.end < kHeaderSize
    /\ position = (IF Len(file) < base + kBlockSize THEN Len(file)
                   ELSE base + kBlockSize)
    /\ eof <=> Len(file) < base + kBlockSize
    /\ Len(buffer) = position - (IF base = p.base THEN p.end ELSE base)
    /\ records = SubSeq(added, 1, Count(p))
    /\ inFragment <=> Open(p)
    /\ Open(p) => scratch = SubSeq(added[p.rec], 1, p.upto)

\* The reader is behind everything that was kept, and has what there was.
Beyond == /\ position - Len(buffer) >= good
          /\ records = Whole

\* What is in the buffer is what the file has there.
Buffered ==
    /\ position \in 0..Len(file) /\ Len(buffer) \in 0..position
    /\ Len(buffer) <= kBlockSize
    /\ \A i \in 1..Len(buffer) : buffer[i] = file[position - Len(buffer) + i]

Typed ==
    /\ offset \in 0..kBlockSize /\ stage \in {"idle", "begin", "rest"}
    /\ file \in Seq(Cells) /\ buffer \in Seq(Cells)
    /\ adding \in Seq(Cell) /\ added \in Seq(Seq(Cell))
    /\ failure \in {"none", "process", "machine"} /\ done \in BOOLEAN
    /\ eof \in BOOLEAN /\ inFragment \in BOOLEAN
    /\ Len(added) <= MaxRecords
    /\ \A i \in 1..Len(added) : \E size \in Sizes : added[i] = Record(i, size)

\* The reader has not begun while the writer is alive.
Waiting == /\ position = 0 /\ buffer = <<>> /\ ~eof /\ ~inFragment
           /\ records = <<>> /\ ~done

\* The file is cut from these pieces.
Kept(cells, pieces, n, stops) ==
    /\ Layout(added, cells, pieces, n) /\ Stops(stops, pieces, n)
    /\ Cut(cells) /\ Ended(stops)

Laid(cells, pieces, n, stops) ==
    /\ Kept(cells, pieces, n, stops)
    /\ failure = "none" => Writing(cells, pieces[n], stops)
    /\ \/ Beyond
       \/ \E m \in 0..n : \E base \in Int : Following(pieces[m], base)

Inv == /\ Typed /\ Buffered
       /\ failure = "none" => Waiting
       /\ done => records = Whole
       /\ \E cells, pieces, n, stops : Laid(cells, pieces, n, stops)

--------------------------------------------------------------------------------
(* Cells and blocks.                                                          *)

\* A zero is no cell of a record and no header's.
LEMMA ZeroIsNothing ==
    /\ Zero \notin Cell
    /\ \A type, payload : Zero # Checksum(type, payload)
    /\ \A type, payload : Zero # Length(type, payload)
<1>1. Zero["zero"] = TRUE /\ DOMAIN Zero = {"zero"}
  BY DEF Zero
<1>2. Zero \notin Cell
  BY <1>1 DEF Cell
<1>3. \A type, payload : Zero # Checksum(type, payload)
  BY <1>1 DEF Checksum
<1>4. \A type, payload : Zero # Length(type, payload)
  BY <1>1 DEF Length
<1>5. QED
  BY <1>2, <1>3, <1>4

\* Equal checksums are those of equal payloads: the model's checksum is perfect.
LEMMA ChecksumTells ==
    ASSUME NEW type, NEW payload, NEW other, NEW more,
           Checksum(type, payload) = Checksum(other, more)
    PROVE  type = other /\ payload = more
BY DEF Checksum

\* The cells of fragments and trailers.
LEMMA CellsAre ==
    /\ Cell \subseteq Cells /\ Zero \in Cells
    /\ \A type \in Types, payload \in Seq(Cell) :
           Checksum(type, payload) \in Cells /\ Length(type, payload) \in Cells
BY DEF Cells, Checksum, Length

\* Blocks begin at multiples of their size.
LEMMA NextBlock ==
    ASSUME NEW x \in Int, Aligned(x)
    PROVE  Aligned(x + kBlockSize)
<1>1. PICK q \in Int : x = q * kBlockSize
  BY DEF Aligned
<1>2. (q + 1) * kBlockSize = q * kBlockSize + kBlockSize /\ q + 1 \in Int
  BY BlockAssumption
<1>3. QED
  BY <1>1, <1>2 DEF Aligned

\* The first one, and the one in front of it.
LEMMA FirstBlock == Aligned(-kBlockSize) /\ Aligned(0)
<1>1. (-1) * kBlockSize = -kBlockSize /\ 0 * kBlockSize = 0
  BY BlockAssumption
<1>2. QED
  BY <1>1 DEF Aligned

\* The offset in a block is the length's.
LEMMA OffsetInBlock ==
    ASSUME NEW base \in Nat, Aligned(base), NEW x \in Nat
    PROVE  (base + x) % kBlockSize = x % kBlockSize
<1>1. PICK q \in Int : base = q * kBlockSize
  BY DEF Aligned
<1>2. kBlockSize \in Nat \ {0}
  BY BlockAssumption
<1>3. ASSUME NEW b \in Nat, b > 0, NEW y \in Int
      PROVE  /\ y \div b \in Int /\ y % b \in 0..(b - 1)
             /\ y = (y \div b) * b + (y % b)
  BY <1>3, Z3
<1>4. ASSUME NEW b \in Nat, b > 0, NEW m \in Int, NEW k \in Int,
             NEW r \in 0..(b - 1), NEW t \in 0..(b - 1), m * b + r = k * b + t
      PROVE  r = t
  BY <1>4, Z3
<1>5. PICK b : b = kBlockSize
  OBVIOUS
<1>6. b \in Nat /\ b > 0
  BY <1>2, <1>5
<1>7. PICK k \in Int, m \in Int, r \in 0..(b - 1), t \in 0..(b - 1) :
          /\ x = k * b + r /\ r = x % b
          /\ base + x = m * b + t /\ t = (base + x) % b
  <2>1. /\ x \div b \in Int /\ x % b \in 0..(b - 1)
        /\ x = (x \div b) * b + (x % b)
    BY <1>3, <1>6
  <2>2. base + x \in Int
    OBVIOUS
  <2>3. /\ (base + x) \div b \in Int /\ (base + x) % b \in 0..(b - 1)
        /\ base + x = ((base + x) \div b) * b + ((base + x) % b)
    BY <1>3, <1>6, <2>2
  <2>4. QED
    BY <2>1, <2>3, Zenon
<1>8. (q + k) * b + r = m * b + t /\ q + k \in Int
  BY <1>1, <1>5, <1>6, <1>7
<1>9. r = t
  BY <1>4, <1>6, <1>8
<1>10. QED
  BY <1>5, <1>7, <1>9

--------------------------------------------------------------------------------
(* Sequences.                                                                 *)

\* A sequence behind another.
LEMMA JoinedIs ==
    ASSUME NEW S, NEW s \in Seq(S), NEW t \in Seq(S)
    PROVE  /\ s \o t \in Seq(S) /\ Len(s \o t) = Len(s) + Len(t)
           /\ \A i \in 1..Len(s) : (s \o t)[i] = s[i]
           /\ \A i \in 1..Len(t) : (s \o t)[Len(s) + i] = t[i]
<1>1. s \o t \in Seq(S) /\ Len(s \o t) = Len(s) + Len(t)
  OBVIOUS
<1>2. \A i \in 1..Len(s) : (s \o t)[i] = s[i]
  OBVIOUS
<1>3. \A i \in 1..Len(t) : (s \o t)[Len(s) + i] = t[i]
  OBVIOUS
<1>4. QED
  BY <1>1, <1>2, <1>3

\* A part of a sequence.
LEMMA PartIs ==
    ASSUME NEW S, NEW s \in Seq(S), NEW i \in 1..(Len(s) + 1),
           NEW j \in (i - 1)..Len(s)
    PROVE  /\ SubSeq(s, i, j) \in Seq(S) /\ Len(SubSeq(s, i, j)) = j - i + 1
           /\ \A k \in 1..(j - i + 1) : SubSeq(s, i, j)[k] = s[i + k - 1]
<1>1. SubSeq(s, i, j) \in Seq(S)
  OBVIOUS
<1>2. Len(SubSeq(s, i, j)) = j - i + 1
  OBVIOUS
<1>3. \A k \in 1..(j - i + 1) : SubSeq(s, i, j)[k] = s[i + k - 1]
  OBVIOUS
<1>4. QED
  BY <1>1, <1>2, <1>3

\* The part behind the first h elements.
LEMMA PartBehind ==
    ASSUME NEW S, NEW s \in Seq(S), NEW h \in Nat, NEW m \in Nat,
           h + m <= Len(s)
    PROVE  /\ SubSeq(s, h + 1, h + m) \in Seq(S)
           /\ Len(SubSeq(s, h + 1, h + m)) = m
           /\ \A k \in 1..m : SubSeq(s, h + 1, h + m)[k] = s[h + k]
<1>1. PICK i, j : i = h + 1 /\ j = h + m
  OBVIOUS
<1>2. i \in 1..(Len(s) + 1) /\ j \in (i - 1)..Len(s) /\ j - i + 1 = m
  BY <1>1
<1>3. /\ SubSeq(s, i, j) \in Seq(S) /\ Len(SubSeq(s, i, j)) = j - i + 1
      /\ \A k \in 1..(j - i + 1) : SubSeq(s, i, j)[k] = s[i + k - 1]
  BY <1>2, PartIs
<1>4. \A k \in 1..m : i + k - 1 = h + k
  BY <1>1
<1>5. QED
  BY <1>1, <1>2, <1>3, <1>4

\* Sequences with the same elements are the same.
LEMMA SameElements ==
    ASSUME NEW S, NEW s \in Seq(S), NEW t \in Seq(S), Len(s) = Len(t),
           \A i \in 1..Len(s) : s[i] = t[i]
    PROVE  s = t
OBVIOUS

\* Two parts, one behind the other.
LEMMA PartsJoin ==
    ASSUME NEW S, NEW s \in Seq(S), NEW i \in 0..Len(s), NEW j \in i..Len(s)
    PROVE  SubSeq(s, 1, i) \o SubSeq(s, i + 1, j) = SubSeq(s, 1, j)
<1>0. i \in Nat /\ j \in Nat /\ i <= j /\ j <= Len(s) /\ Len(s) \in Nat
  OBVIOUS
<1>1. PICK a, b, c : /\ a = SubSeq(s, 1, i) /\ b = SubSeq(s, i + 1, j)
                     /\ c = SubSeq(s, 1, j)
  OBVIOUS
<1>2. /\ a \in Seq(S) /\ Len(a) = i /\ \A k \in 1..i : a[k] = s[k]
      /\ c \in Seq(S) /\ Len(c) = j /\ \A k \in 1..j : c[k] = s[k]
  BY <1>1, PartIs
<1>3. /\ b \in Seq(S) /\ Len(b) = j - i
      /\ \A k \in 1..(j - i) : b[k] = s[i + k]
  <2>1. j - i \in Nat /\ i + (j - i) = j
    BY <1>0
  <2>2. QED
    BY <1>0, <1>1, <2>1, PartBehind
<1>4. /\ a \o b \in Seq(S) /\ Len(a \o b) = j
      /\ \A k \in 1..i : (a \o b)[k] = a[k]
      /\ \A k \in 1..(j - i) : (a \o b)[i + k] = b[k]
  <2>1. Len(a) + Len(b) = j
    BY <1>0, <1>2, <1>3
  <2>2. QED
    <3>1. /\ a \o b \in Seq(S) /\ Len(a \o b) = Len(a) + Len(b)
          /\ \A k \in 1..Len(a) : (a \o b)[k] = a[k]
          /\ \A k \in 1..Len(b) : (a \o b)[Len(a) + k] = b[k]
      <4>1. a \in Seq(S) /\ b \in Seq(S)
        BY <1>2, <1>3
      <4>2. QED
        BY <4>1, JoinedIs
    <3>2. QED
      BY <1>2, <1>3, <2>1, <3>1
<1>5. ASSUME NEW k \in 1..j
      PROVE  (a \o b)[k] = c[k]
  <2>1. CASE k <= i
    BY <1>0, <1>2, <1>4, <2>1
  <2>2. CASE k > i
    <3>1. k - i \in 1..(j - i) /\ i + (k - i) = k
      BY <1>0, <2>2
    <3>2. k \in 1..j /\ (a \o b)[k] = b[k - i] /\ b[k - i] = s[k]
      BY <1>3, <1>4, <3>1
    <3>3. QED
      BY <1>2, <3>2
  <2>3. k <= i \/ k > i
    BY <1>0
  <2>4. QED
    BY <2>1, <2>2, <2>3
<1>6. QED
  BY <1>1, <1>2, <1>4, <1>5, SameElements

\* A prefix with one more element.
LEMMA PrefixGrows ==
    ASSUME NEW S, NEW s \in Seq(S), NEW i \in 1..Len(s)
    PROVE  SubSeq(s, 1, i) = Append(SubSeq(s, 1, i - 1), s[i])
<1>1. PICK a, b : a = SubSeq(s, 1, i) /\ b = SubSeq(s, 1, i - 1)
  OBVIOUS
<1>2. i \in Nat /\ i - 1 \in Nat /\ i <= Len(s) /\ Len(s) \in Nat /\ s[i] \in S
  OBVIOUS
<1>3. /\ a \in Seq(S) /\ Len(a) = i /\ \A k \in 1..i : a[k] = s[k]
      /\ b \in Seq(S) /\ Len(b) = i - 1 /\ \A k \in 1..(i - 1) : b[k] = s[k]
  BY <1>1, <1>2
<1>4. /\ Append(b, s[i]) \in Seq(S) /\ Len(Append(b, s[i])) = i
      /\ Append(b, s[i])[i] = s[i]
      /\ \A k \in 1..(i - 1) : Append(b, s[i])[k] = b[k]
  BY <1>2, <1>3
<1>5. \A k \in 1..i : k = i \/ k \in 1..(i - 1)
  BY <1>2
<1>6. \A k \in 1..i : Append(b, s[i])[k] = a[k]
  BY <1>3, <1>4, <1>5
<1>7. QED
  BY <1>1, <1>3, <1>4, <1>6, SameElements

--------------------------------------------------------------------------------
(* The records a file holds.                                                  *)

\* Held holds of one number, whatever the ends.
LEMMA OneHeld ==
    ASSUME NEW e \in Seq(Int), NEW g, NEW n \in 0..Len(e),
           \A i \in DOMAIN e : e[i] <= g <=> i <= n
    PROVE  (CHOOSE k \in 0..Len(e) : \A i \in DOMAIN e : e[i] <= g <=> i <= k) = n
<1> DEFINE H(k) == \A i \in DOMAIN e : e[i] <= g <=> i <= k
<1>1. ASSUME NEW k \in 0..Len(e), H(k), NEW m \in 0..Len(e), H(m), k < m
      PROVE  FALSE
  <2>1. m \in DOMAIN e
    BY <1>1
  <2>2. QED
    BY <1>1, <2>1
<1> HIDE DEF H
<1>2. PICK c : c = CHOOSE k \in 0..Len(e) : H(k)
  OBVIOUS
<1>3. H(n)
  BY DEF H
<1>4. c \in 0..Len(e) /\ H(c)
  BY <1>2, <1>3
<1>5. c = n
  BY <1>1, <1>3, <1>4
<1>6. QED
  BY <1>2, <1>5 DEF H

\* The choice in Whole is the only one.
LEMMA WholeIs ==
    ASSUME ends \in Seq(Int), NEW n \in 0..Len(ends), Held(n)
    PROVE  Whole = SubSeq(added, 1, n)
BY OneHeld DEF Whole, Held

\* The same of the next state.
LEMMA WholeIsNext ==
    ASSUME ends' \in Seq(Int), NEW n \in 0..Len(ends'), Held(n)'
    PROVE  Whole' = SubSeq(added', 1, n)
BY OneHeld DEF Whole, Held

\* What holds of every piece.
LEMMA PieceFacts ==
    ASSUME NEW recs, NEW cells, NEW pieces, NEW n, Layout(recs, cells, pieces, n),
           NEW m \in 0..n
    PROVE  /\ pieces[m] \in Piece /\ pieces[m].end <= pieces[m].base + kBlockSize
           /\ pieces[m].end \in 0..Len(cells) /\ Len(cells) \in Nat
           /\ pieces[m].base <= pieces[m].end /\ Aligned(pieces[m].base)
<1>1. pieces[m] \in Piece /\ n \in Nat /\ Len(cells) \in Nat /\ m \in Nat
  BY DEF Layout
<1>2. pieces[m].end <= Len(cells)
  <2>1. m = n \/ m < n
    BY <1>1
  <2>2. pieces[n].end = Len(cells) /\ (m < n => pieces[m].end < pieces[n].end)
    BY <1>1 DEF Layout
  <2>3. pieces[m].end \in Int
    BY <1>1 DEF Piece
  <2>4. QED
    BY <1>1, <2>1, <2>2, <2>3
<1>3. CASE m = 0
  <2>1. pieces[m] = Nothing
    BY <1>3 DEF Layout
  <2>2. /\ pieces[m].end = 0 /\ pieces[m].base = -kBlockSize
    BY <2>1 DEF Nothing
  <2>3. QED
    BY <1>1, <1>2, <2>2, BlockAssumption, FirstBlock
<1>4. CASE m # 0
  <2>1. m \in 1..n
    BY <1>1, <1>4
  <2>2. Fits(pieces[m]) /\ Aligned(pieces[m].base)
    BY <2>1 DEF Layout
  <2>3. /\ pieces[m].base \in Int /\ pieces[m].at \in Int /\ pieces[m].end \in Int
        /\ Len(pieces[m].payload) \in Nat
    BY <1>1 DEF Piece
  <2>4. PICK base, at, end, length : /\ base = pieces[m].base /\ at = pieces[m].at
                                     /\ end = pieces[m].end
                                     /\ length = Len(pieces[m].payload)
    OBVIOUS
  <2>5. /\ base >= 0 /\ base <= at /\ end = at + kHeaderSize + length
        /\ end <= base + kBlockSize
    BY <2>2, <2>4 DEF Fits
  <2>6. base \in Int /\ at \in Int /\ length \in Nat /\ kHeaderSize \in Nat
    BY <2>3, <2>4, BlockAssumption
  <2>7. end >= 0 /\ base <= end
    BY <2>5, <2>6
  <2>8. end \in 0..Len(cells)
    BY <1>1, <1>2, <2>3, <2>4, <2>7
  <2>9. QED
    BY <1>1, <2>2, <2>4, <2>5, <2>7, <2>8
<1>5. QED
  BY <1>3, <1>4

\* When the pieces that are there to their last cell are those up to piece m, the
\* records that are there are those complete with it.
LEMMA PieceHeld ==
    ASSUME NEW cells, NEW pieces, NEW n, NEW stops, Kept(cells, pieces, n, stops),
           NEW m \in 0..n, pieces[m].end <= good,
           m = n \/ pieces[m + 1].end > good
    PROVE  Whole = SubSeq(added, 1, Count(pieces[m]))
<1>1. PICK k : k = Count(pieces[m])
  OBVIOUS
<1>2. /\ n \in Nat /\ good \in Int /\ ends \in Seq(Int) /\ stops \in Seq(Int)
      /\ Len(ends) <= Len(stops) /\ k \in 0..Len(stops)
      /\ \A r \in 1..Len(ends) : ends[r] = stops[r]
      /\ \A r \in (Len(ends) + 1)..Len(stops) : stops[r] > good
  BY <1>1 DEF Kept, Cut, Ended, Stops, Layout
<1>3. \A r \in 1..Len(stops) : stops[r] \in Int
  BY <1>2
<1>4. \A l \in 0..n : pieces[l].end \in Int
  BY PieceFacts DEF Kept
<1>5. \A r \in 1..Len(stops) : r <= k => stops[r] <= good
  <2>1. \A r \in 1..Len(stops) : stops[r] <= pieces[m].end <=> r <= k
    BY <1>1 DEF Kept, Stops
  <2>2. QED
    BY <1>2, <1>3, <1>4, <2>1
<1>6. ASSUME NEW r \in 1..Len(stops), r > k
      PROVE  stops[r] > good
  <2>1. PICK l \in 1..n : stops[r] = pieces[l].end
    BY DEF Kept, Stops
  <2>2. ~(pieces[l].end <= pieces[m].end)
    <3>1. stops[r] <= pieces[m].end <=> r <= k
      BY <1>1 DEF Kept, Stops
    <3>2. QED
      BY <1>2, <1>6, <2>1, <3>1
  <2>3. l > m
    <3>1. l < m => pieces[l].end < pieces[m].end
      BY <1>2, <2>1 DEF Kept, Layout
    <3>2. pieces[l].end \in Int /\ pieces[m].end \in Int
      BY <1>4
    <3>3. l # m /\ ~(l < m)
      BY <2>2, <3>1, <3>2
    <3>4. QED
      BY <1>2, <3>3
  <2>4. m + 1 \in 0..n /\ pieces[m + 1].end > good /\ (l = m + 1 \/ m + 1 < l)
    BY <1>2, <2>3
  <2>5. m + 1 < l => pieces[m + 1].end < pieces[l].end
    BY <1>2, <2>4 DEF Kept, Layout
  <2>6. pieces[l].end \in Int /\ pieces[m + 1].end \in Int
    BY <1>4, <2>4
  <2>7. QED
    BY <1>2, <2>1, <2>4, <2>5, <2>6
<1>7. k <= Len(ends)
  <2>1. CASE k > Len(ends)
    <3>1. k \in (Len(ends) + 1)..Len(stops) /\ k \in 1..Len(stops)
      BY <1>2, <2>1
    <3>2. stops[k] > good /\ stops[k] <= good /\ stops[k] \in Int
      BY <1>2, <1>3, <1>5, <3>1
    <3>3. QED
      BY <1>2, <3>2
  <2>2. QED
    BY <1>2, <2>1
<1>8. Held(k)
  <2>1. ASSUME NEW r \in 1..Len(ends)
        PROVE  ends[r] <= good <=> r <= k
    <3>1. r \in 1..Len(stops) /\ ends[r] = stops[r] /\ stops[r] \in Int
      BY <1>2, <1>3
    <3>2. r <= k \/ r > k
      BY <1>2
    <3>3. QED
      BY <1>2, <1>5, <1>6, <3>1, <3>2
  <2>2. DOMAIN ends = 1..Len(ends)
    BY <1>2
  <2>3. QED
    BY <2>1, <2>2 DEF Held
<1>9. QED
  BY <1>1, <1>2, <1>7, <1>8, WholeIs

--------------------------------------------------------------------------------
(* The reader.                                                                *)

\* What is in front of a reader that has read the pieces before r, when r is
\* there to its last cell, when it is not, and when the block has no room.
Ready(r, base) ==
    /\ position - Len(buffer) = r.at /\ r.base = base /\ r.end <= good
Broken(r, base) ==
    /\ position - Len(buffer) = r.at /\ r.base = base /\ r.end > good
    /\ records = Whole
NoRoom(p, base) ==
    /\ base = p.base /\ base + kBlockSize - p.end < kHeaderSize
    /\ Len(buffer) < kHeaderSize
    /\ Len(file) < base + kBlockSize => records = Whole

\* There is nothing else.
LEMMA InFront ==
    ASSUME Buffered, NEW cells, NEW pieces, NEW n, NEW stops,
           Kept(cells, pieces, n, stops), file \in Seq(Cells),
           NEW m \in 0..n, NEW base \in Int, Following(pieces[m], base)
    PROVE  \/ Beyond
           \/ m < n /\ Ready(pieces[m + 1], base)
           \/ m < n /\ Broken(pieces[m + 1], base)
           \/ NoRoom(pieces[m], base)
<1>1. PICK p : p = pieces[m]
  OBVIOUS
<1>2. /\ p.end \in Int /\ p.base \in Int /\ p.end <= p.base + kBlockSize
      /\ p.end <= good /\ good <= Len(cells) /\ good \in Int /\ n \in Nat
      /\ good <= Len(file) /\ Len(file) \in Nat /\ Len(cells) \in Nat
      /\ kBlockSize \in Nat /\ kHeaderSize \in Nat
  <2>1. p \in Piece /\ p.end <= p.base + kBlockSize /\ Len(cells) \in Nat
    BY <1>1, PieceFacts DEF Kept
  <2>2. p.end \in Int /\ p.base \in Int
    BY <2>1 DEF Piece
  <2>3. p.end <= good
    BY <1>1 DEF Following
  <2>4. good \in Int /\ good <= Len(cells) /\ good <= Len(file) /\ n \in Nat
    BY <2>1 DEF Kept, Cut, Layout
  <2>5. QED
    BY <2>1, <2>2, <2>3, <2>4, BlockAssumption
<1>3. PICK c : c = IF base = p.base THEN p.end ELSE base
  OBVIOUS
<1>4. /\ position - Len(buffer) = c /\ c \in Int /\ c >= p.end
      /\ records = SubSeq(added, 1, Count(p))
      /\ position <= base + kBlockSize /\ position \in Int
      /\ base # p.base => base = p.base + kBlockSize /\ base - p.end < kHeaderSize
  <2>1. position \in Nat /\ Len(buffer) \in Nat
    BY <1>2 DEF Buffered
  <2>2. Len(buffer) = position - c
    BY <1>1, <1>3 DEF Following
  <2>3. base # p.base => base = p.base + kBlockSize /\ base - p.end < kHeaderSize
    BY <1>1 DEF Following
  <2>4. position = (IF Len(file) < base + kBlockSize THEN Len(file)
                    ELSE base + kBlockSize)
    BY <1>1 DEF Following
  <2>5. position <= base + kBlockSize
    BY <1>2, <2>4
  <2>6. c \in Int /\ c >= p.end
    BY <1>2, <1>3, <2>3
  <2>7. records = SubSeq(added, 1, Count(p))
    BY <1>1 DEF Following
  <2>8. QED
    BY <2>1, <2>2, <2>3, <2>5, <2>6, <2>7
<1>5. CASE m = n
  <2>1. p.end = Len(cells)
    BY <1>1, <1>5 DEF Kept, Layout
  <2>2. c >= good
    BY <1>2, <1>4, <2>1
  <2>3. records = Whole
    BY <1>1, <1>2, <1>4, <1>5, PieceHeld
  <2>4. QED
    BY <1>4, <2>2, <2>3 DEF Beyond
<1>6. CASE m # n
  <2>1. m + 1 \in 1..n /\ m < n /\ m + 1 \in 0..n /\ m + 1 - 1 = m
    BY <1>2, <1>6
  <2>2. PICK r : r = pieces[m + 1]
    OBVIOUS
  <2>3. Fits(r) /\ Behind(p, r)
    BY <1>1, <2>1, <2>2 DEF Kept, Layout
  <2>4. /\ r.base \in Int /\ r.at \in Int /\ r.end \in Int
        /\ Len(r.payload) \in Nat
    <3>1. r \in Piece
      BY <2>1, <2>2, PieceFacts DEF Kept
    <3>2. QED
      BY <3>1 DEF Piece
  <2>5. /\ r.end = r.at + kHeaderSize + Len(r.payload)
        /\ r.end <= r.base + kBlockSize
    BY <2>3 DEF Fits
  <2>6. r.end > good => records = Whole
    BY <1>1, <1>2, <1>4, <2>2, PieceHeld
  <2>7. CASE r.at = c /\ r.base = base
    BY <1>2, <1>4, <2>1, <2>2, <2>4, <2>6, <2>7 DEF Ready, Broken
  <2>8. CASE r.base = p.base /\ r.at = p.end
    <3>1. base = p.base
      <4>1. CASE base # p.base
        <5>1. base - p.end < kHeaderSize /\ r.end <= base
          BY <1>4, <2>5, <2>8, <4>1
        <5>2. r.end = p.end + kHeaderSize + Len(r.payload)
          BY <2>5, <2>8
        <5>3. FALSE
          BY <1>2, <2>4, <5>1, <5>2
        <5>4. QED
          BY <5>3
      <4>2. QED
        BY <4>1
    <3>2. QED
      BY <1>3, <2>7, <2>8, <3>1
  <2>9. CASE /\ r.base = p.base + kBlockSize /\ r.at = r.base
             /\ r.base - p.end < kHeaderSize
    <3>1. CASE base = p.base
      <4>1. base + kBlockSize - p.end < kHeaderSize /\ c = p.end
        BY <1>2, <1>3, <2>9, <3>1
      <4>2. Len(buffer) < kHeaderSize
        <5>1. Len(buffer) \in Int
          BY <1>4 DEF Buffered
        <5>2. QED
          BY <1>2, <1>4, <4>1, <5>1
      <4>3. Len(file) < base + kBlockSize => r.end > good
        <5>1. r.at = base + kBlockSize
          BY <2>9, <3>1
        <5>2. PICK x, y, z, len : /\ x = base + kBlockSize /\ y = r.end
                                  /\ z = Len(r.payload) /\ len = Len(file)
          OBVIOUS
        <5>3. /\ y = x + kHeaderSize + z /\ x \in Int /\ y \in Int /\ z \in Nat
              /\ len \in Nat /\ good <= len /\ good \in Int /\ kHeaderSize \in Nat
          BY <1>2, <2>4, <2>5, <5>1, <5>2
        <5>4. len < x => y > good
          BY <5>3
        <5>5. QED
          BY <5>2, <5>4
      <4>4. QED
        BY <1>1, <2>6, <3>1, <4>1, <4>2, <4>3 DEF NoRoom
    <3>2. CASE base # p.base
      BY <1>3, <1>4, <2>7, <2>9, <3>2
    <3>3. QED
      BY <3>1, <3>2
  <2>10. QED
    BY <2>3, <2>8, <2>9 DEF Behind
<1>7. QED
  BY <1>5, <1>6

\* The buffer has the cells that were written as far as they were kept.
LEMMA BufferShows ==
    ASSUME Buffered, file \in Seq(Cells), NEW cells, Cut(cells),
           Len(cells) \in Nat
    PROVE  /\ position \in Nat /\ Len(buffer) \in Nat /\ good \in Nat
           /\ position - Len(buffer) \in Nat /\ position <= Len(file)
           /\ good <= Len(file)
           /\ \A i \in 1..Len(buffer) :
                  buffer[i] = IF position - Len(buffer) + i <= good
                              THEN cells[position - Len(buffer) + i] ELSE Zero
<1>1. /\ position \in Nat /\ Len(buffer) \in Nat /\ good \in Nat
      /\ position <= Len(file) /\ Len(file) \in Nat
      /\ position - Len(buffer) \in Nat /\ good <= Len(file)
  BY DEF Buffered, Cut
<1>2. ASSUME NEW i \in 1..Len(buffer)
      PROVE  buffer[i] = IF position - Len(buffer) + i <= good
                         THEN cells[position - Len(buffer) + i] ELSE Zero
  <2>1. PICK k : k = position - Len(buffer) + i
    OBVIOUS
  <2>2. buffer[i] = file[k]
    BY <2>1 DEF Buffered
  <2>3. k \in 1..Len(file)
    BY <1>1, <2>1
  <2>4. CASE k <= good
    <3>1. k \in 1..good
      BY <1>1, <2>3, <2>4
    <3>2. file[k] = cells[k]
      BY <3>1 DEF Cut
    <3>3. QED
      BY <2>1, <2>2, <2>4, <3>2
  <2>5. CASE ~(k <= good)
    <3>1. k \in (good + 1)..Len(file)
      BY <1>1, <2>3, <2>5
    <3>2. file[k] = Zero
      BY <3>1 DEF Cut
    <3>3. QED
      BY <2>1, <2>2, <2>5, <3>2
  <2>6. QED
    BY <2>4, <2>5
<1>3. QED
  BY <1>1, <1>2

\* A piece that is there is a fragment with a checksum that holds.
LEMMA ReadyIsIntact ==
    ASSUME Buffered, file \in Seq(Cells), buffer \in Seq(Cells),
           NEW cells, Cut(cells), Len(cells) \in Nat,
           NEW r \in Piece, Fits(r), InCells(cells, r), NEW base \in Int,
           Ready(r, base),
           position = (IF Len(file) < base + kBlockSize THEN Len(file)
                       ELSE base + kBlockSize)
    PROVE  /\ HasHeader /\ IsIntact /\ ~CutOff
           /\ Type = r.type /\ Payload = r.payload
           /\ kHeaderSize + Len(r.payload) <= Len(buffer)
<1>1. PICK len : len = Len(r.payload)
  OBVIOUS
<1>2. PICK at : at = r.at
  OBVIOUS
<1>3. PICK h : h = kHeaderSize
  OBVIOUS
<1>4. PICK size : size = Len(buffer)
  OBVIOUS
<1>5. /\ len \in Nat /\ at \in Int /\ r.payload \in Seq(Cell) /\ r.end \in Int
      /\ h \in Nat /\ h >= 2
  BY <1>1, <1>2, <1>3, BlockAssumption DEF Piece
<1>6. /\ size \in Nat /\ good \in Nat /\ position \in Nat /\ position - size = at
      /\ \A i \in 1..size :
             buffer[i] = IF at + i <= good THEN cells[at + i] ELSE Zero
  <2>1. position - Len(buffer) = at
    BY <1>2 DEF Ready
  <2>2. QED
    BY <1>4, <2>1, BufferShows
<1>7. /\ at + h + len <= good /\ h + len <= size
  <2>1. r.end = at + h + len /\ r.end <= good /\ r.end <= base + kBlockSize
    BY <1>1, <1>2, <1>3 DEF Fits, Ready
  <2>2. good <= Len(file) /\ Len(file) \in Nat
    BY DEF Cut
  <2>3. r.end <= position
    BY <1>5, <1>6, <2>1, <2>2, BlockAssumption
  <2>4. QED
    BY <1>5, <1>6, <2>1, <2>3
<1>8. \A i \in 1..(h + len) : i \in 1..size /\ at + i <= good
  BY <1>5, <1>6, <1>7
<1>9. \A i \in 1..(h + len) : buffer[i] = cells[at + i]
  BY <1>6, <1>8
<1>10. LengthCell = Length(r.type, r.payload)
  <2>1. h \in 1..(h + len)
    BY <1>5
  <2>2. buffer[h] = cells[at + h]
    BY <1>9, <2>1
  <2>3. QED
    BY <1>2, <1>3, <2>2 DEF InCells, LengthCell
<1>11. /\ LengthCell # Zero /\ LengthCell.length = len /\ LengthCell.type = r.type
  BY <1>1, <1>10, ZeroIsNothing DEF Length
<1>12. HasHeader /\ ~CutOff
  <2>1. size >= h
    BY <1>5, <1>6, <1>7
  <2>2. ~(h + len > size)
    BY <1>5, <1>6, <1>7
  <2>3. QED
    BY <1>3, <1>4, <1>11, <2>1, <2>2 DEF HasHeader, CutOff
<1>13. Payload = r.payload
  <2>1. PICK part : part = SubSeq(buffer, h + 1, h + len)
    OBVIOUS
  <2>2. h + len <= Len(buffer)
    BY <1>4, <1>7
  <2>3. /\ SubSeq(buffer, h + 1, h + len) \in Seq(Cells)
        /\ Len(SubSeq(buffer, h + 1, h + len)) = len
        /\ \A k \in 1..len : SubSeq(buffer, h + 1, h + len)[k] = buffer[h + k]
    BY <1>5, <2>2, PartBehind
  <2>4. /\ part \in Seq(Cells) /\ Len(part) = len
        /\ \A k \in 1..len : part[k] = buffer[h + k]
    BY <2>1, <2>3
  <2>5. ASSUME NEW k \in 1..len
        PROVE  part[k] = r.payload[k]
    <3>1. h + k \in 1..(h + len) /\ at + (h + k) = at + h + k
      BY <1>5
    <3>2. buffer[h + k] = cells[at + h + k]
      BY <1>9, <3>1
    <3>3. cells[at + h + k] = r.payload[k]
      BY <1>1, <1>2, <1>3 DEF InCells
    <3>4. QED
      BY <2>4, <3>2, <3>3
  <2>6. r.payload \in Seq(Cells)
    BY <1>5, CellsAre
  <2>7. part = r.payload
    BY <1>1, <2>4, <2>5, <2>6, SameElements
  <2>8. QED
    BY <1>3, <1>11, <2>1, <2>7 DEF Payload
<1>14. IsIntact
  <2>1. Type = r.type
    BY <1>11 DEF Type
  <2>2. ASSUME NEW i \in 1..(h - 1)
        PROVE  buffer[i] = Checksum(r.type, r.payload)
    <3>1. i \in 1..(h + len)
      BY <1>5
    <3>2. buffer[i] = cells[at + i]
      BY <1>9, <3>1
    <3>3. QED
      BY <1>2, <1>3, <3>2 DEF InCells
  <2>3. QED
    BY <1>3, <1>11, <1>12, <1>13, <2>1, <2>2 DEF IsIntact
<1>15. kHeaderSize + Len(r.payload) <= Len(buffer)
  BY <1>1, <1>3, <1>4, <1>7
<1>16. QED
  BY <1>11, <1>12, <1>13, <1>14, <1>15 DEF Type

\* A piece that is cut is no such fragment.
LEMMA BrokenIsNot ==
    ASSUME Buffered, file \in Seq(Cells), buffer \in Seq(Cells),
           NEW cells, Cut(cells), Len(cells) \in Nat,
           NEW r \in Piece, Fits(r), InCells(cells, r), NEW base \in Int,
           Broken(r, base), HasHeader
    PROVE  ~IsIntact
<1> SUFFICES ASSUME IsIntact PROVE FALSE
  OBVIOUS
<1>1. PICK len, at, h, size, end : /\ len = Len(r.payload) /\ at = r.at
                                   /\ h = kHeaderSize /\ size = Len(buffer)
                                   /\ end = r.end
  OBVIOUS
<1>2. /\ len \in Nat /\ at \in Int /\ r.payload \in Seq(Cell) /\ end \in Int
      /\ h \in Nat /\ h >= 2
  BY <1>1, BlockAssumption DEF Piece
<1>3. /\ size \in Nat /\ good \in Nat /\ position \in Nat /\ position - size = at
      /\ \A i \in 1..size :
             buffer[i] = IF at + i <= good THEN cells[at + i] ELSE Zero
  <2>1. position - Len(buffer) = at
    BY <1>1 DEF Broken
  <2>2. QED
    BY <1>1, <2>1, BufferShows
<1>4. end = at + h + len /\ end > good /\ h <= size
  BY <1>1 DEF Fits, Broken, HasHeader
<1>5. LengthCell # Zero /\ ~CutOff
  BY DEF IsIntact
<1>6. at + h <= good
  <2>1. h \in 1..size /\ LengthCell = buffer[h]
    BY <1>1, <1>2, <1>3, <1>4 DEF LengthCell
  <2>2. QED
    BY <1>3, <1>5, <2>1
<1>7. LengthCell = Length(r.type, r.payload)
  <2>1. h \in 1..size /\ LengthCell = buffer[h]
    BY <1>1, <1>2, <1>3, <1>4 DEF LengthCell
  <2>2. buffer[h] = cells[at + h]
    BY <1>3, <1>6, <2>1
  <2>3. QED
    BY <1>1, <2>1, <2>2 DEF InCells
<1>8. LengthCell.length = len /\ LengthCell.type = r.type
  BY <1>1, <1>7 DEF Length
<1>9. h + len <= size /\ len >= 1
  <2>1. ~(h + len > size)
    BY <1>1, <1>5, <1>8 DEF CutOff
  <2>2. QED
    BY <1>2, <1>3, <1>4, <1>6, <2>1
<1>10. Payload = r.payload
  <2>1. 1 \in 1..(h - 1) /\ 1 \in 1..size /\ at + 1 <= good
    BY <1>2, <1>3, <1>4, <1>6
  <2>2. buffer[1] = Checksum(Type, Payload)
    BY <1>1, <2>1 DEF IsIntact
  <2>3. buffer[1] = Checksum(r.type, r.payload)
    BY <1>1, <1>3, <2>1 DEF InCells
  <2>4. Checksum(Type, Payload) = Checksum(r.type, r.payload)
    BY <2>2, <2>3
  <2>5. QED
    BY <2>4, ChecksumTells
<1>11. Payload[len] = buffer[h + len]
  <2>1. h + len <= Len(buffer)
    BY <1>1, <1>9
  <2>2. \A k \in 1..len : SubSeq(buffer, h + 1, h + len)[k] = buffer[h + k]
    BY <1>2, <2>1, PartBehind
  <2>3. len \in 1..len
    BY <1>2, <1>9
  <2>4. QED
    BY <1>1, <1>8, <2>2, <2>3 DEF Payload
<1>12. buffer[h + len] = Zero
  <2>1. h + len \in 1..size /\ ~(at + (h + len) <= good)
    BY <1>2, <1>3, <1>4, <1>9
  <2>2. QED
    BY <1>3, <2>1
<1>13. r.payload[len] \in Cell
  <2>1. len \in 1..Len(r.payload)
    BY <1>1, <1>2, <1>9
  <2>2. QED
    BY <1>2, <2>1
<1>14. QED
  BY <1>10, <1>11, <1>12, <1>13, ZeroIsNothing

\* Nor is there one behind everything that was kept.
LEMMA BeyondIsNot ==
    ASSUME Buffered, file \in Seq(Cells), NEW cells, Cut(cells),
           Len(cells) \in Nat, Beyond, HasHeader
    PROVE  ~IsIntact
<1>1. kHeaderSize \in 1..Len(buffer) /\ Len(buffer) \in Nat
  <2>1. Len(buffer) \in Nat /\ Len(buffer) >= kHeaderSize
    BY BufferShows DEF HasHeader
  <2>2. QED
    BY <2>1, BlockAssumption
<1>2. position - Len(buffer) + kHeaderSize > good
  <2>1. /\ position \in Nat /\ good \in Nat
        /\ position - Len(buffer) >= good
    BY BufferShows DEF Beyond
  <2>2. QED
    BY <1>1, <2>1
<1>3. ~(position - Len(buffer) + kHeaderSize <= good)
  <2>1. /\ position \in Nat /\ good \in Nat
    BY BufferShows
  <2>2. QED
    BY <1>1, <1>2, <2>1
<1>4. LengthCell = Zero
  BY <1>1, <1>3, BufferShows DEF LengthCell
<1>5. QED
  BY <1>4 DEF IsIntact

\* The step from one situation to the next: reading a block.
LEMMA BlockRead ==
    ASSUME Typed, Buffered, ReadBlock
    PROVE  /\ Buffered' /\ position' - Len(buffer') = position
           /\ position' \in Nat /\ Len(buffer') \in Nat
           /\ position' = (IF Len(file) < position + kBlockSize THEN Len(file)
                           ELSE position + kBlockSize)
           /\ eof' <=> Len(file) < position + kBlockSize
           /\ buffer' \in Seq(Cells)
<1>1. PICK rest, size : /\ rest = Len(file) - position
                        /\ size = IF rest < kBlockSize THEN rest ELSE kBlockSize
  OBVIOUS
<1>2. /\ buffer' = SubSeq(file, position + 1, position + size)
      /\ position' = position + size /\ eof' = (size < kBlockSize)
      /\ UNCHANGED file
  BY <1>1 DEF ReadBlock, writerVars
<1>3. /\ position \in Nat /\ Len(file) \in Nat /\ position <= Len(file)
      /\ kBlockSize \in Nat /\ kBlockSize > 0 /\ file \in Seq(Cells)
  BY BlockAssumption DEF Typed, Buffered
<1>4. /\ size \in Nat /\ size <= kBlockSize /\ position + size <= Len(file)
      /\ position + size = (IF Len(file) < position + kBlockSize THEN Len(file)
                            ELSE position + kBlockSize)
      /\ size < kBlockSize <=> Len(file) < position + kBlockSize
  BY <1>1, <1>3
<1>5. /\ buffer' \in Seq(Cells) /\ Len(buffer') = size
      /\ \A k \in 1..size : buffer'[k] = file[position + k]
  BY <1>2, <1>3, <1>4, PartBehind
<1>6. /\ position' - Len(buffer') = position /\ position' \in 0..Len(file)
      /\ Len(buffer') \in 0..position'
  BY <1>2, <1>3, <1>4, <1>5
<1>7. Buffered'
  BY <1>2, <1>4, <1>5, <1>6 DEF Buffered
<1>8. /\ position' \in Nat /\ Len(buffer') \in Nat
      /\ position' = (IF Len(file) < position + kBlockSize THEN Len(file)
                      ELSE position + kBlockSize)
      /\ eof' <=> Len(file) < position + kBlockSize
  <2>1. position' \in Nat /\ Len(buffer') \in Nat
    BY <1>2, <1>3, <1>4, <1>5
  <2>2. position' = (IF Len(file) < position + kBlockSize THEN Len(file)
                     ELSE position + kBlockSize)
    BY <1>2, <1>4
  <2>3. eof' <=> size < kBlockSize
    BY <1>2
  <2>4. eof' <=> Len(file) < position + kBlockSize
    BY <1>4, <2>3
  <2>5. QED
    BY <2>1, <2>2, <2>4
<1>9. QED
  BY <1>5, <1>6, <1>7, <1>8

\* Where the reader is.
Reached(pieces, n) ==
    Beyond \/ \E m \in 0..n : \E base \in Int : Following(pieces[m], base)

\* The number of the record a piece belongs to.
LEMMA RecordOfPiece ==
    ASSUME NEW recs, NEW cells, NEW pieces, NEW n, Layout(recs, cells, pieces, n),
           Len(recs) \in Nat, NEW m \in 0..n
    PROVE  /\ pieces[m].rec \in 0..Len(recs) /\ pieces[m].upto \in Nat
           /\ Open(pieces[m]) => /\ pieces[m].rec \in 1..Len(recs)
                                 /\ pieces[m].upto <= Len(recs[pieces[m].rec])
<1>1. pieces[m] \in Piece /\ n \in Nat
  BY DEF Layout
<1>2. CASE m = 0
  <2>1. pieces[m] = Nothing
    BY <1>2 DEF Layout
  <2>2. QED
    BY <2>1 DEF Nothing, Open
<1>3. CASE m # 0
  <2>1. m \in 1..n
    BY <1>1, <1>3
  <2>2. Carries(recs, pieces[m - 1], pieces[m])
    BY <2>1 DEF Layout
  <2>3. /\ pieces[m].rec \in 1..Len(recs)
        /\ pieces[m].upto <= Len(recs[pieces[m].rec])
    BY <2>2 DEF Carries
  <2>4. pieces[m].upto \in Nat
    BY <1>1 DEF Piece
  <2>5. QED
    BY <2>3, <2>4
<1>4. QED
  BY <1>2, <1>3

\* What ReadRecord does with a fragment, and what the fragment carries.
LEMMA Collected ==
    ASSUME added \in Seq(Seq(Cell)), NEW p \in Piece, NEW r \in Piece,
           Carries(added, p, r), p.rec \in 0..Len(added),
           Open(p) => p.upto <= Len(added[p.rec]),
           Type = r.type, Payload = r.payload, Collect,
           records = SubSeq(added, 1, Count(p)), inFragment <=> Open(p),
           Open(p) => scratch = SubSeq(added[p.rec], 1, p.upto)
    PROVE  /\ records' = SubSeq(added, 1, Count(r))
           /\ inFragment' <=> Open(r)
           /\ Open(r) => scratch' = SubSeq(added[r.rec], 1, r.upto)
<1>1. PICK rec, text, from, upto :
          /\ rec = r.rec /\ text = added[rec] /\ upto = r.upto
          /\ from = IF Open(p) THEN p.upto ELSE 0
  OBVIOUS
<1>2. /\ rec \in 1..Len(added) /\ Len(added) \in Nat /\ text \in Seq(Cell)
      /\ from \in Nat /\ upto \in Nat /\ Len(text) \in Nat /\ upto <= Len(text)
      /\ upto = from + Len(r.payload) /\ Len(r.payload) \in Nat /\ from <= upto
      /\ rec = (IF Open(p) THEN p.rec ELSE p.rec + 1)
      /\ ~Open(r) => upto = Len(text)
  <2>1. /\ rec = (IF Open(p) THEN p.rec ELSE p.rec + 1) /\ rec \in 1..Len(added)
        /\ upto = from + Len(r.payload) /\ upto <= Len(text)
        /\ ~Open(r) => upto = Len(text)
    BY <1>1 DEF Carries
  <2>2. /\ p.upto \in Nat /\ r.payload \in Seq(Cell) /\ upto \in Nat
    BY <1>1 DEF Piece
  <2>3. from \in Nat /\ Len(r.payload) \in Nat
    BY <1>1, <2>2
  <2>4. text \in Seq(Cell) /\ Len(added) \in Nat
    BY <1>1, <2>1
  <2>5. Len(text) \in Nat /\ from <= upto
    BY <2>1, <2>2, <2>3, <2>4
  <2>6. QED
    BY <2>1, <2>2, <2>3, <2>4, <2>5
<1>3. r.payload = SubSeq(text, from + 1, upto)
  <2>1. upto - Len(r.payload) + 1 = from + 1
    BY <1>2
  <2>2. QED
    BY <1>1, <2>1 DEF Carries
<1>4. SubSeq(text, 1, from) \o r.payload = SubSeq(text, 1, upto)
  <2>1. from \in 0..Len(text) /\ upto \in from..Len(text)
    BY <1>2
  <2>2. QED
    BY <1>2, <1>3, <2>1, PartsJoin
<1>5. SubSeq(text, 1, Len(text)) = text
  BY <1>2
<1>6. SubSeq(added, 1, rec) = Append(SubSeq(added, 1, rec - 1), text)
  BY <1>1, <1>2, PrefixGrows
<1>7. /\ Open(p) => r.type \in {"middle", "last"} /\ Count(p) = rec - 1
      /\ ~Open(p) => r.type \in {"full", "first"} /\ Count(p) = rec - 1
  BY <1>2 DEF Carries, Piece, Types, Count
<1>8. ~Open(p) => r.payload = SubSeq(text, 1, upto)
  <2>1. ~Open(p) => from + 1 = 1
    BY <1>1
  <2>2. QED
    BY <1>3, <2>1
<1>9. CASE r.type = "full"
  <2>1. ~Open(p) /\ ~Open(r) /\ Count(r) = rec
    BY <1>1, <1>7, <1>9 DEF Open, Count
  <2>2. records' = Append(records, r.payload) /\ inFragment' = FALSE
    BY <1>9 DEF Collect
  <2>3. r.payload = text
    BY <1>2, <1>5, <1>8, <2>1
  <2>4. QED
    BY <1>6, <1>7, <2>1, <2>2, <2>3
<1>10. CASE r.type = "first"
  <2>1. ~Open(p) /\ Open(r) /\ Count(r) = rec - 1
    BY <1>1, <1>7, <1>10 DEF Open, Count
  <2>2. records' = records /\ inFragment' = TRUE /\ scratch' = r.payload
    BY <1>10 DEF Collect
  <2>3. QED
    BY <1>1, <1>7, <1>8, <2>1, <2>2
<1>11. CASE r.type = "middle"
  <2>1. Open(p) /\ Open(r) /\ Count(r) = rec - 1
    BY <1>1, <1>7, <1>11 DEF Open, Count
  <2>2. records' = records /\ inFragment' = inFragment /\ scratch' = scratch \o r.payload
    BY <1>11, <2>1 DEF Collect
  <2>3. scratch = SubSeq(text, 1, from)
    BY <1>1, <1>2, <2>1
  <2>4. QED
    BY <1>1, <1>4, <1>7, <2>1, <2>2, <2>3
<1>12. CASE r.type = "last"
  <2>1. Open(p) /\ ~Open(r) /\ Count(r) = rec
    BY <1>1, <1>7, <1>12 DEF Open, Count
  <2>2. /\ records' = Append(records, scratch \o r.payload) /\ inFragment' = FALSE
    BY <1>12, <2>1 DEF Collect
  <2>3. scratch = SubSeq(text, 1, from)
    BY <1>1, <1>2, <2>1
  <2>4. scratch \o r.payload = text
    BY <1>2, <1>4, <1>5, <2>1, <2>3
  <2>5. QED
    BY <1>6, <1>7, <2>1, <2>2, <2>4
<1>13. QED
  BY <1>9, <1>10, <1>11, <1>12 DEF Piece, Types

\* The reader goes on, from whatever is in front of it.
LEMMA ReaderMoves ==
    ASSUME Typed, Buffered, Reader, done => records = Whole,
           NEW cells, NEW pieces, NEW n, NEW stops,
           Kept(cells, pieces, n, stops), Reached(pieces, n)
    PROVE  Reached(pieces, n)' /\ (done' => records' = Whole')
<1>1. /\ UNCHANGED writerVars /\ UNCHANGED failure /\ Reading
      /\ UNCHANGED <<file, good, added, ends>>
  BY DEF Reader, ReadBlock, EndOfFile, BadRecord, ReadFragment, writerVars
<1>2. Whole' = Whole
  BY <1>1 DEF Whole, Held
<1>3. /\ file \in Seq(Cells) /\ buffer \in Seq(Cells) /\ added \in Seq(Seq(Cell))
      /\ ~done /\ Len(added) \in Nat
  BY <1>1 DEF Typed, Reading
<1>4. /\ Cut(cells) /\ Len(cells) \in Nat /\ n \in Nat
      /\ Layout(added, cells, pieces, n)
  BY DEF Kept, Layout
<1>5. /\ position \in Nat /\ Len(buffer) \in Nat /\ good \in Nat
      /\ position <= Len(file) /\ good <= Len(file) /\ Len(file) \in Nat
      /\ kBlockSize \in Nat /\ kBlockSize > 0 /\ kHeaderSize \in Nat
      /\ kHeaderSize >= 2
  BY <1>3, <1>4, BufferShows, BlockAssumption
<1>6. CASE Beyond
  <2>1. ~(HasHeader /\ IsIntact)
    BY <1>3, <1>4, <1>6, BeyondIsNot
  <2>2. records' = records
    BY <2>1 DEF Reader, ReadBlock, EndOfFile, BadRecord, ReadFragment, readerVars
  <2>3. position' - Len(buffer') >= good
    <3>1. CASE ReadBlock
      BY <1>5, <1>6, <3>1, BlockRead DEF Beyond
    <3>2. CASE EndOfFile
      BY <1>6, <3>2 DEF EndOfFile, readerVars, Beyond
    <3>3. CASE BadRecord
      <4>1. position' = position /\ Len(buffer') = 0
        BY <3>3 DEF BadRecord
      <4>2. QED
        BY <1>5, <1>6, <4>1 DEF Beyond
    <3>4. QED
      BY <2>1, <3>1, <3>2, <3>3 DEF Reader, ReadFragment
  <2>4. Beyond' /\ records' = Whole'
    BY <1>1, <1>2, <1>6, <2>2, <2>3 DEF Beyond
  <2>5. QED
    BY <2>4 DEF Reached
<1>7. ASSUME NEW m \in 0..n, NEW base \in Int, Following(pieces[m], base)
      PROVE  Reached(pieces, n)' /\ (done' => records' = Whole')
  <2>1. PICK p : p = pieces[m]
    OBVIOUS
  <2>2. /\ p \in Piece /\ p.end \in Int /\ p.base \in Int
        /\ p.end <= p.base + kBlockSize
    <3>1. p \in Piece /\ p.end <= p.base + kBlockSize
      BY <1>4, <2>1, PieceFacts
    <3>2. QED
      BY <3>1 DEF Piece
  <2>3. /\ p.end <= good
        /\ position = (IF Len(file) < base + kBlockSize THEN Len(file)
                       ELSE base + kBlockSize)
        /\ eof <=> Len(file) < base + kBlockSize
        /\ records = SubSeq(added, 1, Count(p))
        /\ inFragment <=> Open(p)
        /\ Open(p) => scratch = SubSeq(added[p.rec], 1, p.upto)
    BY <1>7, <2>1 DEF Following
  <2>4. ASSUME m < n
        PROVE  /\ m + 1 \in 0..n /\ pieces[m + 1] \in Piece /\ Fits(pieces[m + 1])
               /\ InCells(cells, pieces[m + 1]) /\ Carries(added, p, pieces[m + 1])
    <3>1. m + 1 \in 1..n /\ m + 1 \in 0..n /\ m + 1 - 1 = m
      BY <1>4, <2>4
    <3>2. QED
      BY <1>4, <2>1, <3>1 DEF Layout
  <2>5. CASE m < n /\ Ready(pieces[m + 1], base)
    <3>1. PICK r : r = pieces[m + 1]
      OBVIOUS
    <3>2. /\ r \in Piece /\ Fits(r) /\ InCells(cells, r) /\ Carries(added, p, r)
          /\ Ready(r, base) /\ m + 1 \in 0..n
      BY <2>4, <2>5, <3>1
    <3>3. /\ HasHeader /\ IsIntact /\ ~CutOff
          /\ Type = r.type /\ Payload = r.payload
          /\ kHeaderSize + Len(r.payload) <= Len(buffer)
      BY <1>3, <1>4, <2>3, <3>2, ReadyIsIntact
    <3>4. ReadFragment
      <4>1. ~(Len(buffer) < kHeaderSize)
        BY <1>5, <3>3 DEF HasHeader
      <4>2. ~ReadBlock
        BY <4>1 DEF ReadBlock
      <4>3. ~EndOfFile /\ ~BadRecord
        BY <3>3 DEF EndOfFile, BadRecord
      <4>4. QED
        BY <4>2, <4>3 DEF Reader
    <3>5. /\ records' = SubSeq(added, 1, Count(r))
          /\ inFragment' <=> Open(r)
          /\ Open(r) => scratch' = SubSeq(added[r.rec], 1, r.upto)
      <4>1. /\ p.rec \in 0..Len(added)
            /\ Open(p) => p.upto <= Len(added[p.rec])
        BY <1>3, <1>4, <2>1, RecordOfPiece
      <4>2. QED
        BY <1>3, <2>2, <2>3, <3>2, <3>3, <3>4, <4>1, Collected DEF ReadFragment
    <3>6. Len(buffer') = position' - r.end
      <4>1. PICK size, h, len : /\ size = Len(buffer) /\ h = kHeaderSize
                                /\ len = Len(r.payload)
        OBVIOUS
      <4>2. /\ r.end = r.at + h + len /\ position - size = r.at /\ r.end \in Int
            /\ r.at \in Int /\ len \in Nat /\ size \in Nat /\ h \in Nat
        BY <1>5, <3>2, <4>1 DEF Fits, Ready, Piece
      <4>3. h + len <= size
        BY <3>3, <4>1
      <4>4. buffer' = SubSeq(buffer, h + len + 1, size) /\ position' = position
        BY <3>3, <3>4, <4>1 DEF ReadFragment, Consumed
      <4>5. PICK rest : rest = size - (h + len)
        OBVIOUS
      <4>6. rest \in Nat /\ h + len \in Nat /\ size = (h + len) + rest
        BY <4>2, <4>3, <4>5
      <4>7. Len(buffer') = rest
        <5>1. PICK from : from = h + len
          OBVIOUS
        <5>2. from \in Nat /\ from + rest = size /\ from + rest <= Len(buffer)
          BY <4>1, <4>2, <4>6, <5>1
        <5>3. Len(SubSeq(buffer, from + 1, from + rest)) = rest
          BY <1>3, <4>6, <5>2, PartBehind
        <5>4. QED
          BY <4>4, <5>1, <5>2, <5>3
      <4>8. QED
        BY <1>5, <4>2, <4>4, <4>5, <4>7
    <3>7. Following(r, base)'
      <4>1. r.base = base /\ r.end <= good
        BY <3>2 DEF Ready
      <4>2. UNCHANGED <<position, eof>> /\ done' = FALSE
        BY <1>3, <3>4 DEF ReadFragment
      <4>3. /\ position' = (IF Len(file') < base + kBlockSize THEN Len(file')
                            ELSE base + kBlockSize)
            /\ eof' <=> Len(file') < base + kBlockSize
        BY <1>1, <2>3, <4>2
      <4>4. Len(buffer') = position' - (IF base = r.base THEN r.end ELSE base)
        BY <3>6, <4>1
      <4>5. /\ records' = SubSeq(added', 1, Count(r))
            /\ Open(r) => scratch' = SubSeq(added'[r.rec], 1, r.upto)
        BY <1>1, <3>5
      <4>6. r.end <= good' /\ base = r.base
        BY <1>1, <4>1
      <4>7. inFragment' <=> Open(r)
        BY <3>5
      <4>8. QED
        BY <4>3, <4>4, <4>5, <4>6, <4>7 DEF Following
    <3>8. done' = FALSE
      BY <1>3, <3>4 DEF ReadFragment
    <3>9. QED
      BY <3>1, <3>2, <3>7, <3>8 DEF Reached
  <2>6. CASE m < n /\ Broken(pieces[m + 1], base)
    <3>1. PICK r : r = pieces[m + 1]
      OBVIOUS
    <3>2. /\ r \in Piece /\ Fits(r) /\ InCells(cells, r) /\ Broken(r, base)
      BY <2>4, <2>6, <3>1
    <3>3. ~(HasHeader /\ IsIntact)
      BY <1>3, <1>4, <3>2, BrokenIsNot
    <3>4. PICK size, len : size = Len(buffer) /\ len = Len(r.payload)
      OBVIOUS
    <3>5. /\ r.end = r.at + kHeaderSize + len /\ r.end <= base + kBlockSize
          /\ r.end > good /\ position - size = r.at /\ records = Whole
          /\ r.end \in Int /\ r.at \in Int /\ len \in Nat /\ size \in Nat
      BY <1>5, <3>2, <3>4 DEF Fits, Broken, Piece
    <3>6. ~ReadBlock
      <4>1. ASSUME ~eof
            PROVE  size >= kHeaderSize
        BY <1>5, <2>3, <3>5, <4>1
      <4>2. QED
        BY <1>5, <3>4, <3>5, <4>1 DEF ReadBlock
    <3>7. CASE EndOfFile
      <4>1. UNCHANGED readerVars
        BY <3>7 DEF EndOfFile
      <4>2. Following(p, base)' /\ records' = Whole'
        BY <1>1, <1>2, <1>7, <2>1, <3>5, <4>1 DEF Following, readerVars
      <4>3. QED
        BY <2>1, <4>2 DEF Reached
    <3>8. CASE BadRecord
      <4>1. position' = position /\ Len(buffer') = 0 /\ UNCHANGED records
        BY <3>8 DEF BadRecord
      <4>2. position >= good
        BY <1>5, <2>3, <3>5
      <4>3. Beyond' /\ records' = Whole'
        BY <1>1, <1>2, <1>5, <3>5, <4>1, <4>2 DEF Beyond
      <4>4. QED
        BY <4>3 DEF Reached
    <3>9. QED
      BY <3>3, <3>6, <3>7, <3>8 DEF Reader, ReadFragment
  <2>7. CASE NoRoom(p, base)
    <3>1. /\ base = p.base /\ base + kBlockSize - p.end < kHeaderSize
          /\ ~HasHeader /\ (Len(file) < base + kBlockSize => records = Whole)
      <4>1. Len(buffer) < kHeaderSize
        BY <2>7 DEF NoRoom
      <4>2. ~(Len(buffer) >= kHeaderSize)
        BY <1>5, <4>1
      <4>3. QED
        BY <2>7, <4>2 DEF NoRoom, HasHeader
    <3>2. CASE EndOfFile
      <4>1. UNCHANGED readerVars /\ eof
        BY <3>2 DEF EndOfFile
      <4>2. Following(p, base)' /\ records' = Whole'
        BY <1>1, <1>2, <1>7, <2>1, <2>3, <3>1, <4>1 DEF Following, readerVars
      <4>3. QED
        BY <2>1, <4>2 DEF Reached
    <3>3. CASE ReadBlock
      <4>1. PICK next : next = base + kBlockSize
        OBVIOUS
      <4>2. /\ next \in Int /\ position = next /\ next # p.base
            /\ next = p.base + kBlockSize /\ next - p.end < kHeaderSize
        <5>1. ~eof
          BY <3>3 DEF ReadBlock
        <5>2. ~(Len(file) < base + kBlockSize)
          BY <2>3, <5>1
        <5>3. position = next
          BY <2>3, <4>1, <5>2
        <5>4. next \in Int /\ next # p.base
          BY <1>5, <2>2, <3>1, <4>1
        <5>5. next = p.base + kBlockSize
          BY <3>1, <4>1
        <5>6. next - p.end < kHeaderSize
          BY <1>5, <2>2, <3>1, <4>1
        <5>7. QED
          BY <5>3, <5>4, <5>5, <5>6
      <4>3. /\ position' - Len(buffer') = next
            /\ position' \in Nat /\ Len(buffer') \in Nat
            /\ position' = (IF Len(file) < next + kBlockSize THEN Len(file)
                            ELSE next + kBlockSize)
            /\ eof' <=> Len(file) < next + kBlockSize
        BY <3>3, <4>2, BlockRead
      <4>4. Len(buffer') = position' - next
        BY <4>2, <4>3
      <4>5. UNCHANGED <<scratch, inFragment, records, done>>
        BY <3>3 DEF ReadBlock
      <4>6. Following(p, next)'
        BY <1>1, <2>3, <4>2, <4>3, <4>4, <4>5 DEF Following
      <4>7. QED
        BY <1>3, <2>1, <4>2, <4>5, <4>6 DEF Reached
    <3>4. QED
      BY <3>1, <3>2, <3>3 DEF Reader, BadRecord, ReadFragment
  <2>8. QED
    BY <1>3, <1>6, <1>7, <2>1, <2>5, <2>6, <2>7, InFront
<1>8. QED
  BY <1>6, <1>7 DEF Reached

--------------------------------------------------------------------------------
(* The writer.                                                                *)

\* The asserts of EmitPhysicalRecord: there is room for a header and for the
\* fragment.
LEMMA Room ==
    ASSUME offset \in 0..kBlockSize, adding \in Seq(Cell)
    PROVE  /\ Start \in 0..kBlockSize /\ Available \in Nat
           /\ Available = kBlockSize - Start - kHeaderSize
           /\ FragmentLength \in 0..Len(adding) /\ FragmentLength <= Available
           /\ Start + kHeaderSize + FragmentLength <= kBlockSize
<1>1. /\ kBlockSize \in Nat /\ kHeaderSize \in Nat /\ kBlockSize > kHeaderSize
      /\ offset \in Int /\ Len(adding) \in Nat
  BY BlockAssumption
<1>2. Start \in 0..kBlockSize /\ kBlockSize - Start - kHeaderSize >= 0
  BY <1>1 DEF Start, SwitchesBlock
<1>3. Available = kBlockSize - Start - kHeaderSize /\ Available \in Nat
  BY <1>1, <1>2 DEF Available
<1>4. FragmentLength \in 0..Len(adding) /\ FragmentLength <= Available
  BY <1>1, <1>3 DEF FragmentLength
<1>5. QED
  BY <1>1, <1>2, <1>3, <1>4

\* What is written between two fragments.
LEMMA TrailerIs ==
    ASSUME offset \in 0..kBlockSize
    PROVE  /\ Trailer \in Seq(Cells)
           /\ Len(Trailer) = IF SwitchesBlock THEN kBlockSize - offset ELSE 0
<1>1. kBlockSize - offset \in Nat
  BY BlockAssumption
<1>2. ASSUME NEW k \in Nat
      PROVE  Zeros(k) \in Seq(Cells) /\ Len(Zeros(k)) = k
  BY <1>2, CellsAre DEF Zeros
<1>3. CASE SwitchesBlock
  BY <1>1, <1>2, <1>3 DEF Trailer
<1>4. CASE ~SwitchesBlock
  BY <1>4 DEF Trailer
<1>5. QED
  BY <1>3, <1>4

\* A fragment is a header and the part of the record it carries.
LEMMA PhysicalIs ==
    ASSUME NEW type \in Types, NEW payload \in Seq(Cell)
    PROVE  /\ Physical(type, payload) \in Seq(Cells)
           /\ Len(Physical(type, payload)) = kHeaderSize + Len(payload)
           /\ \A i \in 1..(kHeaderSize - 1) :
                  Physical(type, payload)[i] = Checksum(type, payload)
           /\ Physical(type, payload)[kHeaderSize] = Length(type, payload)
           /\ \A i \in 1..Len(payload) :
                  Physical(type, payload)[kHeaderSize + i] = payload[i]
<1>1. kHeaderSize \in Nat /\ kHeaderSize >= 2
  BY BlockAssumption
<1>2. PICK header : header = [i \in 1..kHeaderSize |->
                                 IF i < kHeaderSize THEN Checksum(type, payload)
                                 ELSE Length(type, payload)]
  OBVIOUS
<1>3. Checksum(type, payload) \in Cells /\ Length(type, payload) \in Cells
  BY CellsAre
<1>4. \A i \in 1..kHeaderSize : header[i] \in Cells
  BY <1>1, <1>2, <1>3
<1>5. header \in Seq(Cells) /\ Len(header) = kHeaderSize
  BY <1>1, <1>2, <1>4
<1>6. payload \in Seq(Cells)
  BY CellsAre
<1>7. Physical(type, payload) = header \o payload
  BY <1>2 DEF Physical
<1>8. /\ header \o payload \in Seq(Cells)
      /\ Len(header \o payload) = kHeaderSize + Len(payload)
      /\ \A i \in 1..kHeaderSize : (header \o payload)[i] = header[i]
      /\ \A i \in 1..Len(payload) : (header \o payload)[kHeaderSize + i] = payload[i]
  <2>1. /\ header \o payload \in Seq(Cells)
        /\ Len(header \o payload) = Len(header) + Len(payload)
        /\ \A i \in 1..Len(header) : (header \o payload)[i] = header[i]
        /\ \A i \in 1..Len(payload) :
               (header \o payload)[Len(header) + i] = payload[i]
    <3>1. \A s, t \in Seq(Cells) :
              /\ s \o t \in Seq(Cells) /\ Len(s \o t) = Len(s) + Len(t)
              /\ \A i \in 1..Len(s) : (s \o t)[i] = s[i]
              /\ \A i \in 1..Len(t) : (s \o t)[Len(s) + i] = t[i]
      BY JoinedIs
    <3>2. QED
      BY <1>5, <1>6, <3>1, Zenon
  <2>2. QED
    BY <1>5, <2>1
<1>9. /\ \A i \in 1..(kHeaderSize - 1) : header[i] = Checksum(type, payload)
      /\ header[kHeaderSize] = Length(type, payload)
  BY <1>1, <1>2
<1>10. QED
  BY <1>1, <1>7, <1>8, <1>9

\* The type of the next fragment tells where in its record it is.
LEMMA TypeTells ==
    ASSUME stage \in {"begin", "rest"}
    PROVE  /\ FragmentType \in Types
           /\ FragmentType \in {"middle", "last"} <=> stage = "rest"
           /\ FragmentType \in {"first", "middle"} <=> Len(adding) # FragmentLength
<1>1. CASE stage = "begin" /\ Len(adding) = FragmentLength
  BY <1>1 DEF FragmentType, Types
<1>2. CASE stage = "begin" /\ Len(adding) # FragmentLength
  BY <1>2 DEF FragmentType, Types
<1>3. CASE stage = "rest" /\ Len(adding) = FragmentLength
  BY <1>3 DEF FragmentType, Types
<1>4. CASE stage = "rest" /\ Len(adding) # FragmentLength
  BY <1>4 DEF FragmentType, Types
<1>5. QED
  BY <1>1, <1>2, <1>3, <1>4

--------------------------------------------------------------------------------
(* The next fragment.                                                         *)

\* The piece that the writer emits next, behind the last one.
NextAt == Len(file) + Len(Trailer)
NextPiece(last) ==
    [base |-> NextAt - Start, at |-> NextAt,
     end |-> NextAt + kHeaderSize + FragmentLength,
     type |-> FragmentType, payload |-> SubSeq(adding, 1, FragmentLength),
     rec |-> IF Open(last) THEN last.rec ELSE last.rec + 1,
     upto |-> (IF Open(last) THEN last.upto ELSE 0) + FragmentLength]

\* It is a piece, and its payload the first cells of what is to be added.
LEMMA NextIsPiece ==
    ASSUME Typed, stage # "idle", NEW last \in Piece
    PROVE  /\ NextPiece(last) \in Piece
           /\ Len(NextPiece(last).payload) = FragmentLength
           /\ \A i \in 1..FragmentLength : NextPiece(last).payload[i] = adding[i]
           /\ NextPiece(last).payload \in Seq(Cell)
<1>1. /\ offset \in 0..kBlockSize /\ adding \in Seq(Cell) /\ file \in Seq(Cells)
      /\ stage \in {"begin", "rest"}
  BY DEF Typed
<1>2. PICK m : m = FragmentLength
  OBVIOUS
<1>3. /\ Start \in Int /\ m \in Nat /\ m <= Len(adding) /\ kHeaderSize \in Nat
  BY <1>1, <1>2, Room, BlockAssumption
<1>4. FragmentType \in Types
  BY <1>1, TypeTells
<1>5. NextAt \in Nat
  BY <1>1, TrailerIs DEF NextAt
<1>6. PICK payload : payload = SubSeq(adding, 1, m)
  OBVIOUS
<1>7. /\ payload \in Seq(Cell) /\ Len(payload) = m
      /\ \A i \in 1..m : payload[i] = adding[i]
  BY <1>1, <1>3, <1>6
<1>8. last.rec \in Nat /\ last.upto \in Nat
  BY DEF Piece
<1>9. NextPiece(last).payload = payload
  BY <1>2, <1>6 DEF NextPiece
<1>10. NextPiece(last) \in Piece
  <2>1. /\ NextAt - Start \in Int /\ NextAt \in Int
        /\ NextAt + kHeaderSize + m \in Int
    BY <1>3, <1>5
  <2>2. /\ (IF Open(last) THEN last.rec ELSE last.rec + 1) \in Nat
        /\ (IF Open(last) THEN last.upto ELSE 0) + m \in Nat
    BY <1>3, <1>8
  <2>3. QED
    BY <1>2, <1>4, <1>6, <1>7, <2>1, <2>2 DEF NextPiece, Piece
<1>11. QED
  BY <1>2, <1>7, <1>9, <1>10

\* Where it is: in the same block if there is room for a header, and else at the
\* start of the next one.
LEMMA NextIsPlaced ==
    ASSUME Typed, stage # "idle", NEW last \in Piece,
           last = Nothing \/ Fits(last), Aligned(last.base), last.end = Len(file),
           offset = (IF last = Nothing THEN 0 ELSE last.end - last.base)
    PROVE  /\ Fits(NextPiece(last)) /\ Behind(last, NextPiece(last))
           /\ Aligned(NextPiece(last).base)
<1>1. PICK r : r = NextPiece(last)
  OBVIOUS
<1>2. PICK at, m, b, h : /\ at = NextAt /\ m = FragmentLength
                         /\ b = kBlockSize /\ h = kHeaderSize
  OBVIOUS
<1>3. /\ r.base = at - Start /\ r.at = at /\ r.end = at + h + m
      /\ Len(r.payload) = m
  BY <1>1, <1>2, NextIsPiece DEF NextPiece
<1>4. /\ b \in Nat /\ h \in Nat /\ b > h /\ offset \in 0..b
      /\ last.base \in Int /\ last.end \in Nat /\ adding \in Seq(Cell)
  BY <1>2, BlockAssumption DEF Typed, Piece
<1>5. /\ Start \in 0..b /\ m \in Nat /\ Start + h + m <= b
  BY <1>2, <1>4, Room
<1>6. at = last.end + (IF b - offset < h THEN b - offset ELSE 0)
  <2>1. at = last.end + Len(Trailer)
    BY <1>2 DEF NextAt
  <2>2. Len(Trailer) = IF b - offset < h THEN b - offset ELSE 0
    BY <1>2, <1>4, TrailerIs DEF SwitchesBlock
  <2>3. QED
    BY <2>1, <2>2
<1>7. Start = IF b - offset < h THEN 0 ELSE offset
  BY <1>2 DEF Start, SwitchesBlock
<1>0. ASSUME r.base >= 0, at \in Int
      PROVE  Fits(r)
  <2>1. r.base <= r.at /\ r.end <= r.base + b
    BY <1>0, <1>3, <1>4, <1>5
  <2>2. r.end = r.at + h + Len(r.payload)
    BY <1>3
  <2>3. QED
    BY <1>0, <1>2, <2>1, <2>2 DEF Fits
<1>8. CASE last = Nothing
  <2>1. offset = 0 /\ last.end = 0 /\ last.base = -b
    BY <1>2, <1>8 DEF Nothing
  <2>2. at = 0 /\ Start = 0
    BY <1>4, <1>6, <1>7, <2>1
  <2>3. r.base = 0 /\ r.at = 0
    BY <1>3, <2>2
  <2>4. Aligned(r.base)
    BY <2>3, FirstBlock
  <2>5. Behind(last, r)
    <3>1. r.base = last.base + b /\ r.base - last.end < h
      BY <1>4, <2>1, <2>3, <1>2, BlockAssumption
    <3>2. QED
      BY <1>2, <2>3, <3>1 DEF Behind
  <2>6. Fits(r)
    BY <1>0, <2>2, <2>3
  <2>7. QED
    BY <1>1, <2>4, <2>5, <2>6
<1>9. CASE last # Nothing
  <2>1. /\ offset = last.end - last.base /\ last.base >= 0
        /\ last.base <= last.end
    <3>1. Fits(last) /\ offset = last.end - last.base
      BY <1>9
    <3>2. QED
      BY <1>4, <3>1 DEF Fits
  <2>2. CASE b - offset < h
    <3>1. at = last.base + b /\ Start = 0
      BY <1>4, <1>6, <1>7, <2>1, <2>2
    <3>2. r.base = last.base + b /\ r.at = r.base
      BY <1>3, <1>4, <3>1
    <3>3. r.base - last.end < h
      BY <1>4, <2>1, <2>2, <3>2
    <3>4. Behind(last, r) /\ Aligned(r.base)
      BY <1>2, <1>4, <3>2, <3>3, NextBlock DEF Behind
    <3>5. Fits(r)
      BY <1>0, <1>4, <2>1, <3>1, <3>2
    <3>6. QED
      BY <1>1, <3>4, <3>5
  <2>3. CASE ~(b - offset < h)
    <3>1. at = last.end /\ Start = offset
      BY <1>4, <1>6, <1>7, <2>3
    <3>2. r.base = last.base /\ r.at = last.end
      BY <1>3, <1>4, <2>1, <3>1
    <3>3. Behind(last, r) /\ Aligned(r.base)
      BY <3>2 DEF Behind
    <3>4. Fits(r)
      BY <1>0, <1>4, <2>1, <3>1, <3>2
    <3>5. QED
      BY <1>1, <3>3, <3>4
  <2>4. QED
    BY <2>2, <2>3
<1>10. QED
  BY <1>8, <1>9

\* The cells that are there when it is written, it among them.
LEMMA WrittenIs ==
    ASSUME Typed, stage # "idle", NEW last \in Piece
    PROVE  /\ Written \in Seq(Cells) /\ Len(Written) = NextPiece(last).end
           /\ Len(file) < Len(Written)
           /\ Written = file \o Trailer \o Fragment
           /\ \A i \in 1..Len(file) : Written[i] = file[i]
           /\ InCells(Written, NextPiece(last))
<1>1. PICK r, before, at, h, m :
          /\ r = NextPiece(last) /\ before = file \o Trailer /\ at = NextAt
          /\ h = kHeaderSize /\ m = FragmentLength
  OBVIOUS
<1>2. /\ offset \in 0..kBlockSize /\ adding \in Seq(Cell) /\ file \in Seq(Cells)
      /\ stage \in {"begin", "rest"} /\ Len(file) \in Nat
  BY DEF Typed
<1>3. /\ r.payload \in Seq(Cell) /\ Len(r.payload) = m /\ r.type \in Types
      /\ r.at = at /\ r.end = at + h + m /\ r.type = FragmentType
      /\ r.payload = SubSeq(adding, 1, m)
  BY <1>1, <1>2, NextIsPiece, TypeTells DEF NextPiece
<1>4. Fragment = Physical(r.type, r.payload)
  BY <1>1, <1>3 DEF Fragment
<1>5. /\ Fragment \in Seq(Cells) /\ Len(Fragment) = h + m
      /\ \A i \in 1..(h - 1) : Fragment[i] = Checksum(r.type, r.payload)
      /\ Fragment[h] = Length(r.type, r.payload)
      /\ \A i \in 1..m : Fragment[h + i] = r.payload[i]
  BY <1>1, <1>3, <1>4, PhysicalIs
<1>6. Trailer \in Seq(Cells) /\ Len(Trailer) \in Nat
  BY <1>2, TrailerIs
<1>7. /\ before \in Seq(Cells) /\ Len(before) = at
      /\ \A i \in 1..Len(file) : before[i] = file[i]
  BY <1>1, <1>2, <1>6, JoinedIs DEF NextAt
<1>8. Written = before \o Fragment
  BY <1>1 DEF Written
<1>9. /\ Written \in Seq(Cells) /\ Len(Written) = at + Len(Fragment)
      /\ \A i \in 1..Len(before) : Written[i] = before[i]
      /\ \A i \in 1..Len(Fragment) : Written[Len(before) + i] = Fragment[i]
  <2>1. \A s, t \in Seq(Cells) :
            /\ s \o t \in Seq(Cells) /\ Len(s \o t) = Len(s) + Len(t)
            /\ \A i \in 1..Len(s) : (s \o t)[i] = s[i]
            /\ \A i \in 1..Len(t) : (s \o t)[Len(s) + i] = t[i]
    BY JoinedIs
  <2>2. QED
    BY <1>5, <1>7, <1>8, <2>1, Zenon
<1>10. h \in Nat /\ h >= 2 /\ m \in Nat /\ at \in Nat /\ at >= Len(file)
  BY <1>1, <1>2, <1>6, Room, BlockAssumption DEF NextAt
<1>11. Len(Written) = r.end /\ Len(file) < Len(Written)
  BY <1>2, <1>3, <1>5, <1>9, <1>10
<1>12. \A i \in 1..Len(file) : Written[i] = file[i]
  <2>1. \A i \in 1..Len(file) : i \in 1..Len(before)
    BY <1>2, <1>7, <1>10
  <2>2. QED
    BY <1>7, <1>9, <2>1
<1>13. \A i \in 1..(h + m) : Written[at + i] = Fragment[i]
  BY <1>5, <1>7, <1>9
<1>14. InCells(Written, r)
  <2>1. \A i \in 1..(h - 1) : Written[at + i] = Checksum(r.type, r.payload)
    BY <1>5, <1>10, <1>13
  <2>2. Written[at + h] = Length(r.type, r.payload)
    BY <1>5, <1>10, <1>13
  <2>3. \A i \in 1..m : Written[at + h + i] = r.payload[i]
    <3>1. ASSUME NEW i \in 1..m
          PROVE  Written[at + h + i] = r.payload[i]
      <4>1. h + i \in 1..(h + m) /\ at + h + i = at + (h + i)
        BY <1>10
      <4>2. QED
        BY <1>5, <1>13, <4>1
    <3>2. QED
      BY <3>1
  <2>4. QED
    BY <1>1, <1>3, <2>1, <2>2, <2>3 DEF InCells
<1>15. QED
  BY <1>1, <1>8, <1>9, <1>11, <1>12, <1>14

\* What it carries: the next part of the last record added.
LEMMA NextCarries ==
    ASSUME Typed, stage # "idle", NEW last \in Piece, NEW stops,
           Writing(file, last, stops),
           Open(last) => last.rec \in 1..Len(added)
                         /\ last.upto <= Len(added[last.rec])
    PROVE  /\ Carries(added, last, NextPiece(last))
           /\ Open(NextPiece(last)) <=> Len(adding) # FragmentLength
           /\ NextPiece(last).rec = Len(added)
           /\ NextPiece(last).upto + Len(adding) - FragmentLength =
                  Len(added[Len(added)])
           /\ \A i \in 1..Len(adding) :
                  adding[i] = added[Len(added)]
                                   [NextPiece(last).upto - FragmentLength + i]
           /\ Len(added) \in 1..Len(added)
           /\ Count(NextPiece(last)) =
                  IF Len(adding) = FragmentLength THEN Count(last) + 1
                  ELSE Count(last)
<1>1. PICK r, m, from, k : /\ r = NextPiece(last) /\ m = FragmentLength
                           /\ from = (IF Open(last) THEN last.upto ELSE 0)
                           /\ k = Len(added)
  OBVIOUS
<1>2. PICK text : text = added[k]
  OBVIOUS
<1>3. /\ adding \in Seq(Cell) /\ added \in Seq(Seq(Cell))
      /\ stage \in {"begin", "rest"} /\ offset \in 0..kBlockSize
      /\ last.rec \in Nat /\ last.upto \in Nat /\ k \in Nat
  BY <1>1 DEF Typed, Piece
<1>4. m \in 0..Len(adding) /\ Len(adding) \in Nat /\ from \in Nat
  BY <1>1, <1>3, Room
<1>5. /\ r.rec = (IF Open(last) THEN last.rec ELSE last.rec + 1)
      /\ r.upto = from + m /\ r.type = FragmentType
      /\ r.payload \in Seq(Cell) /\ Len(r.payload) = m
      /\ \A i \in 1..m : r.payload[i] = adding[i]
  BY <1>1, NextIsPiece DEF NextPiece
<1>6. Open(last) <=> stage = "rest"
  BY <1>3 DEF Writing
<1>7. r.rec = k /\ k \in 1..Len(added)
  <2>1. CASE stage = "begin"
    BY <1>1, <1>3, <1>5, <1>6, <2>1 DEF Writing
  <2>2. CASE stage = "rest"
    BY <1>1, <1>3, <1>5, <1>6, <2>2 DEF Writing
  <2>3. QED
    BY <1>3, <2>1, <2>2
<1>8. text \in Seq(Cell) /\ Len(text) \in Nat
  BY <1>2, <1>3, <1>7
<1>9. /\ from <= Len(text) /\ Len(adding) = Len(text) - from
      /\ \A i \in 1..Len(adding) : adding[i] = text[from + i]
  <2>1. CASE stage = "begin"
    <3>1. adding = text /\ from = 0
      BY <1>1, <1>2, <1>6, <2>1 DEF Writing
    <3>2. QED
      BY <1>8, <3>1
  <2>2. CASE stage = "rest"
    <3>1. from = last.upto /\ last.rec = k
      BY <1>1, <1>6, <2>2 DEF Writing
    <3>2. adding = SubSeq(text, from + 1, Len(text))
      BY <1>1, <1>2, <2>2, <3>1 DEF Writing
    <3>3. from <= Len(text)
      BY <1>1, <1>2, <1>6, <2>2, <3>1
    <3>4. PICK size : size = Len(text) - from
      OBVIOUS
    <3>5. size \in Nat /\ from + size = Len(text) /\ from + size <= Len(text)
      BY <1>4, <1>8, <3>3, <3>4
    <3>6. adding = SubSeq(text, from + 1, from + size)
      BY <3>2, <3>5
    <3>7. Len(adding) = size /\ \A i \in 1..size : adding[i] = text[from + i]
      BY <1>4, <1>8, <3>5, <3>6, PartBehind
    <3>8. QED
      BY <3>3, <3>4, <3>7
  <2>3. QED
    BY <1>3, <2>1, <2>2
<1>10. r.upto <= Len(text) /\ r.upto + Len(adding) - m = Len(text)
  BY <1>4, <1>5, <1>8, <1>9
<1>11. r.payload = SubSeq(text, r.upto - Len(r.payload) + 1, r.upto)
  <2>1. from + m <= Len(text) /\ r.upto - Len(r.payload) = from
    BY <1>4, <1>5, <1>8, <1>9
  <2>2. PICK part : part = SubSeq(text, from + 1, from + m)
    OBVIOUS
  <2>3. /\ part \in Seq(Cell) /\ Len(part) = m
        /\ \A i \in 1..m : part[i] = text[from + i]
    BY <1>4, <1>8, <2>1, <2>2, PartBehind
  <2>4. ASSUME NEW i \in 1..m
        PROVE  r.payload[i] = part[i]
    <3>1. i \in 1..Len(adding)
      BY <1>4
    <3>2. r.payload[i] = adding[i] /\ adding[i] = text[from + i]
      BY <1>5, <1>9, <3>1
    <3>3. QED
      BY <2>3, <3>2
  <2>5. r.payload = part
    BY <1>5, <2>3, <2>4, SameElements
  <2>6. QED
    BY <1>5, <2>1, <2>2, <2>5
<1>12. /\ Open(r) <=> Len(adding) # m
       /\ Open(last) <=> r.type \in {"middle", "last"}
  BY <1>1, <1>3, <1>5, <1>6, TypeTells DEF Open
<1>13. ~Open(r) => r.upto = Len(text)
  BY <1>4, <1>5, <1>8, <1>10, <1>12
<1>14. Carries(added, last, r)
  BY <1>1, <1>2, <1>5, <1>7, <1>10, <1>11, <1>12, <1>13 DEF Carries
<1>15. Count(r) = IF Len(adding) = m THEN Count(last) + 1 ELSE Count(last)
  <2>1. Count(last) = IF Open(last) THEN last.rec - 1 ELSE last.rec
    BY DEF Count
  <2>2. Count(r) = IF Len(adding) = m THEN r.rec ELSE r.rec - 1
    BY <1>12 DEF Count
  <2>3. QED
    BY <1>3, <1>5, <2>1, <2>2
<1>16. \A i \in 1..Len(adding) : adding[i] = text[r.upto - m + i]
  <2>1. r.upto - m = from
    BY <1>4, <1>5
  <2>2. QED
    BY <1>9, <2>1
<1>17. QED
  BY <1>1, <1>2, <1>7, <1>10, <1>12, <1>14, <1>15, <1>16

\* The pieces and the ends of records with it.
Longer(pieces, n) ==
    [m \in 0..(n + 1) |-> IF m \in 0..n THEN pieces[m] ELSE NextPiece(pieces[n])]
LongerStops(stops) ==
    IF Len(adding) = FragmentLength THEN Append(stops, Len(Written)) ELSE stops

\* What the writer has written and the next fragment are pieces one behind the
\* other.
LEMMA LayoutExtended ==
    ASSUME Typed, stage # "idle", NEW pieces, NEW n, NEW stops,
           Layout(added, file, pieces, n), Writing(file, pieces[n], stops)
    PROVE  Layout(added, Written, Longer(pieces, n), n + 1)
<1>1. PICK last, r, more : /\ last = pieces[n] /\ r = NextPiece(last)
                           /\ more = Longer(pieces, n)
  OBVIOUS
<1>2. n \in Nat /\ pieces \in [0..n -> Piece] /\ file \in Seq(Cells)
  BY DEF Layout
<1>3. last \in Piece /\ Aligned(last.base) /\ last.end = Len(file)
  <2>1. n \in 0..n
    BY <1>2
  <2>2. QED
    BY <1>1, <2>1, PieceFacts DEF Layout
<1>4. last = Nothing \/ Fits(last)
  <2>1. n = 0 \/ n \in 1..n
    BY <1>2
  <2>2. QED
    BY <1>1, <2>1 DEF Layout
<1>5. offset = (IF last = Nothing THEN 0 ELSE last.end - last.base)
  BY <1>1 DEF Writing
<1>6. /\ r \in Piece /\ Fits(r) /\ Behind(last, r) /\ Aligned(r.base)
  BY <1>1, <1>3, <1>4, <1>5, NextIsPiece, NextIsPlaced
<1>7. /\ Written \in Seq(Cells) /\ Len(Written) = r.end
      /\ Len(file) < Len(Written)
      /\ \A i \in 1..Len(file) : Written[i] = file[i]
      /\ InCells(Written, r)
  BY <1>1, <1>3, WrittenIs
<1>8. Carries(added, last, r)
  <2>1. Len(added) \in Nat
    BY DEF Typed
  <2>2. Open(last) => last.rec \in 1..Len(added)
                      /\ last.upto <= Len(added[last.rec])
    <3>1. n \in 0..n
      BY <1>2
    <3>2. QED
      BY <1>1, <2>1, <3>1, RecordOfPiece
  <2>3. QED
    BY <1>1, <1>3, <2>2, NextCarries
<1>9. /\ \A m \in 0..n : more[m] = pieces[m]
      /\ more[n + 1] = r /\ n + 1 \in Nat /\ more \in [0..(n + 1) -> Piece]
  <2>1. \A m \in 0..n : m \in 0..(n + 1)
    BY <1>2
  <2>2. n + 1 \in 0..(n + 1) /\ n + 1 \notin 0..n
    BY <1>2
  <2>3. more = [m \in 0..(n + 1) |-> IF m \in 0..n THEN pieces[m] ELSE r]
    BY <1>1 DEF Longer
  <2>4. \A m \in 0..(n + 1) : (IF m \in 0..n THEN pieces[m] ELSE r) \in Piece
    BY <1>2, <1>6
  <2>5. QED
    BY <1>2, <2>1, <2>2, <2>3, <2>4
<1>10. more[0] = Nothing /\ more[n + 1].end = Len(Written)
  BY <1>2, <1>7, <1>9 DEF Layout
<1>11. ASSUME NEW m \in 1..(n + 1)
       PROVE  /\ Fits(more[m]) /\ InCells(Written, more[m])
              /\ Aligned(more[m].base)
              /\ Behind(more[m - 1], more[m])
              /\ Carries(added, more[m - 1], more[m])
  <2>1. CASE m = n + 1
    <3>1. more[m] = r /\ more[m - 1] = last
      BY <1>1, <1>2, <1>9, <2>1
    <3>2. QED
      BY <1>6, <1>7, <1>8, <3>1
  <2>2. CASE m # n + 1
    <3>1. m \in 1..n /\ m \in 0..n /\ m - 1 \in 0..n
      BY <1>2, <2>2
    <3>2. more[m] = pieces[m] /\ more[m - 1] = pieces[m - 1]
      BY <1>9, <3>1
    <3>3. PICK p : p = pieces[m]
      OBVIOUS
    <3>4. /\ Fits(p) /\ InCells(file, p) /\ Aligned(p.base)
          /\ Behind(pieces[m - 1], p) /\ Carries(added, pieces[m - 1], p)
          /\ p \in Piece
      BY <3>1, <3>3 DEF Layout
    <3>5. InCells(Written, p)
      <4>1. PICK at, h, len : /\ at = p.at /\ h = kHeaderSize
                              /\ len = Len(p.payload)
        OBVIOUS
      <4>2. at \in Nat /\ h \in Nat /\ h >= 2 /\ len \in Nat /\ p.end = at + h + len
        <5>1. /\ p.base >= 0 /\ p.base <= p.at /\ p.base \in Int /\ p.at \in Int
              /\ p.payload \in Seq(Cell) /\ p.end = p.at + kHeaderSize + Len(p.payload)
          BY <3>4 DEF Fits, Piece
        <5>2. QED
          BY <4>1, <5>1, BlockAssumption
      <4>3. at + h + len <= Len(file) /\ Len(file) \in Nat
        <5>1. p.end \in 0..Len(file) /\ Len(file) \in Nat
          BY <3>1, <3>3, PieceFacts
        <5>2. QED
          BY <4>2, <5>1
      <4>4. \A i \in 1..(h + len) : Written[at + i] = file[at + i]
        <5>1. ASSUME NEW i \in 1..(h + len)
              PROVE  at + i \in 1..Len(file)
          BY <4>2, <4>3
        <5>2. QED
          BY <1>7, <5>1
      <4>5. \A i \in 1..(h - 1) : i \in 1..(h + len)
        BY <4>2
      <4>6. h \in 1..(h + len)
        BY <4>2
      <4>7. ASSUME NEW i \in 1..len
            PROVE  Written[at + h + i] = file[at + h + i]
        <5>1. h + i \in 1..(h + len) /\ at + (h + i) = at + h + i
          BY <4>2
        <5>2. QED
          BY <4>4, <5>1
      <4>8. QED
        BY <3>4, <4>1, <4>4, <4>5, <4>6, <4>7 DEF InCells
    <3>6. QED
      BY <3>2, <3>3, <3>4, <3>5
  <2>3. QED
    BY <2>1, <2>2
<1>12. ASSUME NEW l \in 0..(n + 1), NEW m \in 0..(n + 1), l < m
       PROVE  more[l].end < more[m].end
  <2>1. CASE m = n + 1
    <3>1. l \in 0..n
      BY <1>2, <1>12, <2>1
    <3>2. pieces[l].end \in 0..Len(file) /\ Len(file) \in Nat
      BY <3>1, PieceFacts
    <3>3. more[l] = pieces[l] /\ more[m] = r
      BY <1>9, <2>1, <3>1
    <3>4. r.end \in Int
      BY <1>6 DEF Piece
    <3>5. QED
      BY <1>7, <3>2, <3>3, <3>4
  <2>2. CASE m # n + 1
    <3>1. l \in 0..n /\ m \in 0..n
      BY <1>2, <1>12, <2>2
    <3>2. QED
      BY <1>9, <1>12, <3>1 DEF Layout
  <2>3. QED
    BY <2>1, <2>2
<1>13. Layout(added, Written, more, n + 1)
  BY <1>7, <1>9, <1>10, <1>11, <1>12 DEF Layout
<1>14. QED
  BY <1>1, <1>13

\* A record ends with the fragment if nothing is left of it, and not otherwise.
LEMMA StopsExtended ==
    ASSUME Typed, stage # "idle", NEW pieces, NEW n, NEW stops,
           Layout(added, file, pieces, n), Stops(stops, pieces, n),
           Writing(file, pieces[n], stops)
    PROVE  Stops(LongerStops(stops), Longer(pieces, n), n + 1)
<1>1. PICK last, r, more, full, longer :
          /\ last = pieces[n] /\ r = NextPiece(last)
          /\ more = Longer(pieces, n) /\ longer = LongerStops(stops)
          /\ full = (Len(adding) = FragmentLength)
  OBVIOUS
<1>2. n \in Nat /\ pieces \in [0..n -> Piece] /\ n \in 0..n /\ last \in Piece
  BY <1>1 DEF Layout
<1>3. /\ \A m \in 0..n : more[m] = pieces[m]
      /\ more[n + 1] = r
  <2>1. \A m \in 0..n : m \in 0..(n + 1)
    BY <1>2
  <2>2. n + 1 \in 0..(n + 1) /\ n + 1 \notin 0..n
    BY <1>2
  <2>3. QED
    BY <1>1, <2>1, <2>2 DEF Longer
<1>4. PICK end, size, count : /\ end = r.end /\ size = Len(stops)
                              /\ count = Len(file)
  OBVIOUS
<1>5. Len(Written) = end /\ count < end /\ end \in Int /\ count \in Nat
  <2>1. Len(Written) = end /\ count < end /\ Written \in Seq(Cells)
    BY <1>1, <1>2, <1>4, WrittenIs
  <2>2. file \in Seq(Cells)
    BY DEF Typed
  <2>3. QED
    BY <1>4, <2>1, <2>2
<1>6. /\ stops \in Seq(Int) /\ size \in Nat /\ Count(last) = size
      /\ \A k \in 1..size : stops[k] \in Int
  BY <1>1, <1>4 DEF Stops
<1>7. Count(r) = IF full THEN size + 1 ELSE size
  <2>1. Len(added) \in Nat
    BY DEF Typed
  <2>2. Open(last) => last.rec \in 1..Len(added)
                      /\ last.upto <= Len(added[last.rec])
    BY <1>1, <1>2, <2>1, RecordOfPiece
  <2>3. Count(r) = IF full THEN Count(last) + 1 ELSE Count(last)
    BY <1>1, <1>2, <2>2, NextCarries, Zenon
  <2>4. QED
    BY <1>6, <2>3
<1>8. longer = IF full THEN Append(stops, end) ELSE stops
  BY <1>1, <1>5 DEF LongerStops
<1>9. PICK total : total = IF full THEN size + 1 ELSE size
  OBVIOUS
<1>10. /\ longer \in Seq(Int) /\ Len(longer) = total /\ total \in Nat
       /\ \A k \in 1..size : longer[k] = stops[k]
       /\ full => longer[size + 1] = end
  BY <1>4, <1>5, <1>6, <1>8, <1>9
<1>11. ASSUME NEW m \in 0..n
       PROVE  /\ pieces[m].end \in 0..count /\ Count(pieces[m]) \in 0..size
              /\ \A k \in 1..size :
                     stops[k] <= pieces[m].end <=> k <= Count(pieces[m])
  BY <1>4, <1>11, PieceFacts DEF Stops
<1>12. ASSUME NEW k \in 1..size
       PROVE  stops[k] <= count
  <2>1. k <= Count(pieces[n])
    BY <1>1, <1>6
  <2>2. stops[k] <= pieces[n].end
    BY <1>2, <1>11, <2>1
  <2>3. QED
    BY <1>2, <1>5, <1>6, <1>11, <2>2
<1>13. ASSUME NEW m \in 0..(n + 1)
       PROVE  /\ Count(more[m]) \in 0..total
              /\ \A k \in 1..total : longer[k] <= more[m].end <=> k <= Count(more[m])
  <2>1. CASE m = n + 1
    <3>1. more[m] = r /\ Count(r) = total
      BY <1>3, <1>7, <1>9, <2>1
    <3>2. ASSUME NEW k \in 1..total
          PROVE  longer[k] <= end
      <4>1. CASE k \in 1..size
        BY <1>5, <1>6, <1>10, <1>12, <4>1
      <4>2. CASE k \notin 1..size
        <5>1. full /\ k = size + 1
          BY <1>6, <1>9, <4>2
        <5>2. QED
          BY <1>5, <1>10, <5>1
      <4>3. QED
        BY <4>1, <4>2
    <3>3. QED
      BY <1>4, <1>10, <3>1, <3>2
  <2>2. CASE m # n + 1
    <3>1. PICK p, c : p = pieces[m] /\ c = Count(p)
      OBVIOUS
    <3>2. m \in 0..n /\ more[m] = p
      BY <1>2, <1>3, <2>2, <3>1
    <3>3. /\ p.end \in 0..count /\ c \in 0..size
          /\ \A k \in 1..size : stops[k] <= p.end <=> k <= c
      BY <1>11, <3>1, <3>2
    <3>4. ASSUME NEW k \in 1..total
          PROVE  longer[k] <= p.end <=> k <= c
      <4>1. CASE k \in 1..size
        BY <1>10, <3>3, <4>1
      <4>2. CASE k \notin 1..size
        <5>1. full /\ k = size + 1
          BY <1>6, <1>9, <4>2
        <5>2. longer[k] = end /\ ~(end <= p.end) /\ ~(k <= c)
          BY <1>5, <1>6, <1>10, <3>3, <5>1
        <5>3. QED
          BY <5>2
      <4>3. QED
        BY <4>1, <4>2
    <3>5. c \in 0..total
      BY <1>6, <1>9, <3>3
    <3>6. QED
      BY <3>1, <3>2, <3>4, <3>5
  <2>3. QED
    BY <2>1, <2>2
<1>14. ASSUME NEW k \in 1..total
       PROVE  \E m \in 1..(n + 1) : longer[k] = more[m].end
  <2>1. CASE k \in 1..size
    <3>1. PICK m \in 1..n : stops[k] = pieces[m].end
      BY <1>4, <2>1 DEF Stops
    <3>2. m \in 1..(n + 1) /\ m \in 0..n
      BY <1>2
    <3>3. QED
      BY <1>3, <1>10, <2>1, <3>1, <3>2
  <2>2. CASE k \notin 1..size
    <3>1. full /\ k = size + 1
      BY <1>6, <1>9, <2>2
    <3>2. n + 1 \in 1..(n + 1)
      BY <1>2
    <3>3. longer[k] = more[n + 1].end
      BY <1>3, <1>4, <1>10, <3>1
    <3>4. QED
      BY <3>2, <3>3
  <2>3. QED
    BY <2>1, <2>2
<1>15. Len(longer) = Count(more[n + 1])
  BY <1>3, <1>7, <1>9, <1>10
<1>16. Stops(longer, more, n + 1)
  BY <1>10, <1>13, <1>14, <1>15 DEF Stops
<1>17. QED
  BY <1>1, <1>16

--------------------------------------------------------------------------------
(* The invariant holds while there is a writer, and when it dies.             *)

\* The reader has not begun: it is in front of the first piece.
LEMMA InvBeforeReading ==
    ASSUME Typed', Waiting', NEW cells, NEW pieces, NEW n, NEW stops,
           Kept(cells, pieces, n, stops)',
           failure' = "none" => Writing(cells, pieces[n], stops)'
    PROVE  Inv'
<1>1. /\ position' = 0 /\ buffer' = <<>> /\ eof' = FALSE /\ inFragment' = FALSE
      /\ records' = <<>> /\ done' = FALSE
  BY DEF Waiting, Typed
<1>2. file' \in Seq(Cells) /\ Len(file') \in Nat /\ added' \in Seq(Seq(Cell))
  BY DEF Typed
<1>3. good' \in Nat /\ pieces[0] = Nothing /\ n \in Nat /\ 0 \in 0..n
  BY DEF Kept, Cut, Layout
<1>4. kBlockSize \in Nat /\ kBlockSize > 0 /\ -kBlockSize \in Int
  BY BlockAssumption
<1>5. Buffered'
  BY <1>1, <1>2, <1>4 DEF Buffered
<1>6. /\ Nothing.end = 0 /\ Nothing.base = -kBlockSize /\ ~Open(Nothing)
      /\ Count(Nothing) = 0
  BY DEF Nothing, Open, Count
<1>7. SubSeq(added', 1, 0) = <<>>
  BY <1>2
<1>8. Following(Nothing, -kBlockSize)'
  BY <1>1, <1>2, <1>3, <1>4, <1>6, <1>7 DEF Following
<1>9. Laid(cells, pieces, n, stops)'
  BY <1>3, <1>4, <1>8 DEF Laid
<1>10. QED
  BY <1>1, <1>5, <1>9 DEF Inv

\* Everything that is written or is being written when the writer dies.
LEMMA AllWritten ==
    ASSUME Inv, failure = "none"
    PROVE  /\ good = Len(file) /\ Len(file) <= Len(Written)
           /\ Written \in Seq(Cells)
           /\ ends \in Seq(Int)
           /\ \E pieces, n, stops :
                  /\ Layout(added, Written, pieces, n)
                  /\ Stops(stops, pieces, n)
                  /\ stops = IF stage # "idle" /\ Len(adding) = FragmentLength
                             THEN Append(ends, Len(Written)) ELSE ends
<1>1. PICK cells, pieces, n, stops : Laid(cells, pieces, n, stops)
  BY DEF Inv
<1>2. Typed /\ file \in Seq(Cells) /\ Len(file) \in Nat
  BY DEF Inv, Typed
<1>3. /\ Writing(cells, pieces[n], stops) /\ Layout(added, cells, pieces, n)
      /\ Stops(stops, pieces, n) /\ ends \in Seq(Int)
  BY <1>1 DEF Laid, Kept, Ended
<1>4. cells = file /\ good = Len(file) /\ stops = ends
  BY <1>3 DEF Writing
<1>5. CASE stage = "idle"
  BY <1>2, <1>3, <1>4, <1>5 DEF Written
<1>6. CASE stage # "idle"
  <2>1. pieces[n] \in Piece
    BY <1>3 DEF Layout
  <2>2. Written \in Seq(Cells) /\ Len(file) < Len(Written)
    BY <1>2, <1>6, <2>1, WrittenIs
  <2>3. /\ Layout(added, Written, Longer(pieces, n), n + 1)
        /\ Stops(LongerStops(stops), Longer(pieces, n), n + 1)
    BY <1>2, <1>3, <1>4, <1>6, LayoutExtended, StopsExtended
  <2>4. LongerStops(stops) = IF stage # "idle" /\ Len(adding) = FragmentLength
                             THEN Append(ends, Len(Written)) ELSE ends
    BY <1>4, <1>6 DEF LongerStops
  <2>5. Len(file) <= Len(Written)
    BY <1>2, <2>2
  <2>6. QED
    BY <1>3, <1>4, <2>2, <2>3, <2>4, <2>5
<1>7. QED
  BY <1>5, <1>6

\* Whatever part of it is kept, the pieces that end in it are there.
LEMMA CrashKeeps ==
    ASSUME Inv, NEW kind \in {"process", "machine"}, NEW kept \in 0..Len(Written),
           NEW zeros \in Nat, Crash(kind, kept, zeros)
    PROVE  Inv'
<1>1. failure = "none" /\ Typed /\ Waiting
  BY DEF Inv, Crash
<1>2. /\ good = Len(file) /\ Len(file) <= Len(Written) /\ Written \in Seq(Cells)
      /\ ends \in Seq(Int)
  BY <1>1, AllWritten
<1>3. PICK pieces, n, stops :
          /\ Layout(added, Written, pieces, n)
          /\ Stops(stops, pieces, n)
          /\ stops = IF stage # "idle" /\ Len(adding) = FragmentLength
                     THEN Append(ends, Len(Written)) ELSE ends
  BY <1>1, AllWritten
<1>4. /\ failure' = kind /\ good' = kept
      /\ file' = SubSeq(Written, 1, kept) \o Zeros(zeros)
      /\ UNCHANGED <<offset, adding, stage, added, done, readerVars>>
  BY DEF Crash
<1>5. PICK all, front, back : /\ all = Written /\ front = SubSeq(Written, 1, kept)
                              /\ back = Zeros(zeros)
  OBVIOUS
<1>6. /\ front \in Seq(Cells) /\ Len(front) = kept /\ kept \in Nat
      /\ \A i \in 1..kept : front[i] = all[i]
      /\ all \in Seq(Cells) /\ kept <= Len(all) /\ Len(all) \in Nat
  BY <1>2, <1>5
<1>7. /\ back \in Seq(Cells) /\ Len(back) = zeros
      /\ \A i \in 1..zeros : back[i] = Zero
  BY <1>5, CellsAre DEF Zeros
<1>8. /\ file' \in Seq(Cells) /\ Len(file') = kept + zeros
      /\ \A i \in 1..kept : file'[i] = all[i]
      /\ \A i \in (kept + 1)..Len(file') : file'[i] = Zero
  <2>1. file' = front \o back
    BY <1>4, <1>5
  <2>2. /\ file' \in Seq(Cells) /\ Len(file') = kept + zeros
        /\ \A i \in 1..Len(front) : file'[i] = front[i]
        /\ \A i \in 1..Len(back) : file'[Len(front) + i] = back[i]
    <3>1. \A s, t \in Seq(Cells) :
              /\ s \o t \in Seq(Cells) /\ Len(s \o t) = Len(s) + Len(t)
              /\ \A i \in 1..Len(s) : (s \o t)[i] = s[i]
              /\ \A i \in 1..Len(t) : (s \o t)[Len(s) + i] = t[i]
      BY JoinedIs
    <3>2. /\ file' \in Seq(Cells) /\ Len(file') = Len(front) + Len(back)
          /\ \A i \in 1..Len(front) : file'[i] = front[i]
          /\ \A i \in 1..Len(back) : file'[Len(front) + i] = back[i]
      BY <1>6, <1>7, <2>1, <3>1, Zenon
    <3>3. QED
      BY <1>6, <1>7, <3>2
  <2>3. ASSUME NEW i \in (kept + 1)..Len(file')
        PROVE  file'[i] = Zero
    <3>1. PICK k : k = i - kept
      OBVIOUS
    <3>2. k \in 1..zeros /\ kept + k = i
      BY <1>6, <2>2, <3>1
    <3>3. QED
      BY <1>6, <1>7, <2>2, <3>2
  <2>4. QED
    BY <1>6, <2>2, <2>3
<1>9. Typed'
  BY <1>1, <1>4, <1>8 DEF Typed, readerVars
<1>10. Waiting'
  BY <1>1, <1>4 DEF Waiting, readerVars
<1>11. Cut(all)'
  <2>1. good' = kept /\ kept \in 0..Len(all) /\ kept <= Len(file')
    BY <1>4, <1>6, <1>8
  <2>2. QED
    BY <1>8, <2>1 DEF Cut
<1>12. Ended(stops)'
  <2>1. ends' = IF /\ stage # "idle" /\ kept = Len(Written)
                   /\ Len(adding) = FragmentLength
                THEN Append(ends, kept) ELSE ends
    BY DEF Crash
  <2>2. CASE stage # "idle" /\ Len(adding) = FragmentLength
    <3>1. stops = Append(ends, Len(all))
      BY <1>3, <1>5, <2>2
    <3>2. CASE kept = Len(all)
      <4>1. ends' = stops
        BY <1>5, <2>1, <2>2, <3>1, <3>2
      <4>2. stops \in Seq(Int) /\ Len(stops) \in Nat
        BY <1>3 DEF Stops
      <4>3. QED
        BY <4>1, <4>2 DEF Ended
    <3>3. CASE kept # Len(all)
      <4>1. ends' = ends
        BY <1>5, <2>1, <3>3
      <4>2. PICK size : size = Len(ends)
        OBVIOUS
      <4>3. /\ size \in Nat /\ Len(stops) = size + 1 /\ stops[size + 1] = Len(all)
            /\ \A k \in 1..size : stops[k] = ends[k]
        BY <1>2, <1>6, <3>1, <4>2
      <4>4. Len(all) > kept
        BY <1>6, <3>3
      <4>5. QED
        BY <1>2, <1>4, <4>1, <4>2, <4>3, <4>4 DEF Ended
    <3>4. QED
      BY <3>2, <3>3
  <2>3. CASE ~(stage # "idle" /\ Len(adding) = FragmentLength)
    <3>1. stops = ends /\ ends' = ends
      BY <1>3, <2>1, <2>3
    <3>2. Len(ends) \in Nat
      BY <1>2
    <3>3. QED
      BY <1>2, <3>1, <3>2 DEF Ended
  <2>4. QED
    BY <2>2, <2>3
<1>13. Kept(all, pieces, n, stops)'
  BY <1>3, <1>4, <1>5, <1>11, <1>12 DEF Kept
<1>14. QED
  BY <1>4, <1>9, <1>10, <1>13, InvBeforeReading

\* A record under way leaves the pieces and the records before it as they are.
LEMMA AddRecordKeeps ==
    ASSUME Inv, NEW size \in Sizes, AddRecord(size)
    PROVE  Inv'
<1>1. /\ failure = "none" /\ Typed /\ Waiting /\ stage = "idle"
      /\ Len(added) < MaxRecords
  BY DEF Inv, AddRecord
<1>2. PICK cells, pieces, n, stops : Laid(cells, pieces, n, stops)
  BY DEF Inv
<1>3. PICK record, k : record = Record(k, size) /\ k = Len(added) + 1
  OBVIOUS
<1>4. /\ adding' = record /\ added' = Append(added, record) /\ stage' = "begin"
      /\ UNCHANGED <<file, offset, ends, good, failure, done, readerVars>>
  BY <1>3 DEF AddRecord
<1>5. /\ added \in Seq(Seq(Cell)) /\ Len(added) \in Nat
      /\ \A i \in 1..Len(added) : \E s \in Sizes : added[i] = Record(i, s)
  BY <1>1 DEF Typed
<1>6. record \in Seq(Cell) /\ k \in Nat
  <2>1. size \in Nat
    BY SizesAssumption
  <2>2. k \in Nat
    BY <1>3, <1>5
  <2>3. \A j \in 1..size : [record |-> k, cell |-> j] \in Cell
    BY <2>1, <2>2 DEF Cell
  <2>4. QED
    BY <1>3, <2>1, <2>2, <2>3 DEF Record
<1>7. /\ added' \in Seq(Seq(Cell)) /\ Len(added') = k /\ added'[k] = record
      /\ \A i \in 1..Len(added) : added'[i] = added[i]
  BY <1>3, <1>4, <1>5, <1>6
<1>8. Typed'
  <2>1. ASSUME NEW i \in 1..Len(added')
        PROVE  \E s \in Sizes : added'[i] = Record(i, s)
    <3>1. CASE i = k
      BY <1>3, <1>7, <3>1
    <3>2. CASE i # k
      <4>1. i \in 1..Len(added)
        BY <1>3, <1>5, <1>7, <3>2
      <4>2. QED
        BY <1>5, <1>7, <4>1
    <3>3. QED
      BY <3>1, <3>2
  <2>2. Len(added') <= MaxRecords
    BY <1>1, <1>3, <1>5, <1>7, CrashAssumption
  <2>3. QED
    BY <1>1, <1>4, <1>6, <1>7, <2>1, <2>2 DEF Typed, readerVars
<1>9. Waiting'
  BY <1>1, <1>4 DEF Waiting, readerVars
<1>10. /\ Layout(added, cells, pieces, n) /\ Stops(stops, pieces, n)
       /\ Cut(cells) /\ Ended(stops) /\ Writing(cells, pieces[n], stops)
  BY <1>1, <1>2 DEF Laid, Kept
<1>11. Layout(added', cells, pieces, n)
  <2>1. ASSUME NEW m \in 1..n, Carries(added, pieces[m - 1], pieces[m])
        PROVE  Carries(added', pieces[m - 1], pieces[m])
    <3>1. pieces[m].rec \in 1..Len(added) /\ pieces[m].rec \in 1..Len(added')
      BY <1>3, <1>5, <1>7, <2>1 DEF Carries
    <3>2. added'[pieces[m].rec] = added[pieces[m].rec]
      BY <1>7, <3>1
    <3>3. QED
      BY <2>1, <3>1, <3>2 DEF Carries
  <2>2. QED
    BY <1>10, <2>1 DEF Layout
<1>12. Cut(cells)' /\ Ended(stops)'
  BY <1>4, <1>10 DEF Cut, Ended
<1>13. Writing(cells, pieces[n], stops)'
  <2>1. /\ cells = file' /\ good' = Len(file') /\ stops = ends'
        /\ offset' = (IF pieces[n] = Nothing THEN 0
                      ELSE pieces[n].end - pieces[n].base)
        /\ ~Open(pieces[n]) /\ pieces[n].rec + 1 = Len(added')
    BY <1>1, <1>3, <1>4, <1>7, <1>10 DEF Writing
  <2>2. adding' = added'[Len(added')]
    BY <1>4, <1>7
  <2>3. QED
    BY <1>4, <2>1, <2>2 DEF Writing
<1>14. Kept(cells, pieces, n, stops)'
  BY <1>10, <1>11, <1>12 DEF Kept
<1>15. QED
  BY <1>8, <1>9, <1>13, <1>14, InvBeforeReading

\* A fragment is one more piece.
LEMMA EmitKeeps ==
    ASSUME Inv, EmitPhysicalRecord
    PROVE  Inv'
<1>1. failure = "none" /\ Typed /\ Waiting /\ stage # "idle"
  BY DEF Inv, EmitPhysicalRecord
<1>2. PICK cells, pieces, n, stops : Laid(cells, pieces, n, stops)
  BY DEF Inv
<1>3. /\ Layout(added, file, pieces, n) /\ Stops(stops, pieces, n)
      /\ Writing(file, pieces[n], stops) /\ stops = ends
  <2>1. Writing(cells, pieces[n], stops) /\ cells = file /\ stops = ends
    BY <1>1, <1>2 DEF Laid, Writing
  <2>2. QED
    BY <1>2, <2>1 DEF Laid, Kept
<1>4. PICK last, r, m : /\ last = pieces[n] /\ r = NextPiece(last)
                        /\ m = FragmentLength
  OBVIOUS
<1>5. last \in Piece /\ n \in Nat
  BY <1>3, <1>4 DEF Layout
<1>6. /\ Written \in Seq(Cells) /\ Len(Written) = r.end
      /\ Written = file \o Trailer \o Fragment
  BY <1>1, <1>4, <1>5, WrittenIs
<1>7. /\ file' = Written /\ good' = Len(Written)
      /\ offset' = Start + kHeaderSize + m
      /\ adding' = SubSeq(adding, m + 1, Len(adding))
      /\ ends' = LongerStops(stops)
      /\ stage' = IF Len(adding) = m THEN "idle" ELSE "rest"
      /\ UNCHANGED <<added, failure, done, readerVars>>
  BY <1>3, <1>4, <1>6 DEF EmitPhysicalRecord, LongerStops
<1>8. /\ adding \in Seq(Cell) /\ added \in Seq(Seq(Cell))
      /\ offset \in 0..kBlockSize
  BY <1>1 DEF Typed
<1>9. /\ Start \in 0..kBlockSize /\ m \in Nat /\ m <= Len(adding)
      /\ Start + kHeaderSize + m <= kBlockSize /\ kHeaderSize \in Nat
      /\ kBlockSize \in Nat
  <2>1. m \in 0..Len(adding) /\ Len(adding) \in Nat
    BY <1>4, <1>8, Room
  <2>2. Start \in 0..kBlockSize /\ Start + kHeaderSize + m <= kBlockSize
    BY <1>4, <1>8, Room
  <2>3. QED
    BY <2>1, <2>2, BlockAssumption
<1>10. adding' \in Seq(Cell)
  <2>1. PICK rest : rest = Len(adding) - m
    OBVIOUS
  <2>2. rest \in Nat /\ m + rest = Len(adding) /\ m + rest <= Len(adding)
    BY <1>8, <1>9, <2>1
  <2>3. SubSeq(adding, m + 1, m + rest) \in Seq(Cell)
    BY <1>8, <1>9, <2>2, PartBehind
  <2>4. QED
    BY <1>7, <2>2, <2>3
<1>11. Typed'
  <2>1. offset' \in 0..kBlockSize
    BY <1>7, <1>9
  <2>2. QED
    BY <1>1, <1>6, <1>7, <1>10, <2>1 DEF Typed, readerVars
<1>12. Waiting'
  BY <1>1, <1>7 DEF Waiting, readerVars
<1>13. PICK more, longer, all : /\ more = Longer(pieces, n)
                                /\ longer = LongerStops(stops) /\ all = Written
  OBVIOUS
<1>14. Layout(added, all, more, n + 1) /\ Stops(longer, more, n + 1)
  BY <1>1, <1>3, <1>13, LayoutExtended, StopsExtended
<1>15. more[n + 1] = r
  <2>1. n + 1 \in 0..(n + 1) /\ n + 1 \notin 0..n
    BY <1>5
  <2>2. QED
    BY <1>4, <1>13, <2>1 DEF Longer
<1>16. Cut(all)'
  <2>1. /\ file' = all /\ good' = Len(all) /\ Len(all) \in Nat
    BY <1>6, <1>7, <1>13
  <2>2. QED
    BY <2>1 DEF Cut
<1>17. Ended(longer)'
  BY <1>7, <1>13, <1>14 DEF Ended, Stops
<1>18. Writing(all, r, longer)'
  <2>1. /\ Open(r) <=> Len(adding) # m
        /\ r.rec = Len(added)
        /\ r.upto + Len(adding) - m = Len(added[Len(added)])
    <3>1. Len(added) \in Nat /\ n \in 0..n
      BY <1>5, <1>8
    <3>2. Open(last) => last.rec \in 1..Len(added)
                        /\ last.upto <= Len(added[last.rec])
      BY <1>3, <1>4, <3>1, RecordOfPiece
    <3>3. QED
      BY <1>1, <1>3, <1>4, <1>5, <3>2, NextCarries
  <2>2. offset' = r.end - r.base /\ r # Nothing
    <3>1. /\ r.base = NextAt - Start /\ r.end = NextAt + kHeaderSize + m
      BY <1>4 DEF NextPiece
    <3>2. NextAt \in Nat /\ NextAt >= Start
      <4>1. r \in Piece /\ Fits(r) /\ r.at = NextAt
        <5>1. r = more[n + 1] /\ n + 1 \in 1..(n + 1) /\ n + 1 \in 0..(n + 1)
          BY <1>5, <1>15
        <5>2. QED
          <6>1. r \in Piece /\ Fits(r)
            BY <1>14, <5>1 DEF Layout
          <6>2. QED
            BY <1>4, <6>1 DEF NextPiece
      <4>2. QED
        BY <1>9, <3>1, <4>1 DEF Fits, Piece
    <3>3. offset' = r.end - r.base
      BY <1>7, <1>9, <3>1, <3>2
    <3>4. r.base >= 0 /\ Nothing.base < 0
      BY <1>9, <3>1, <3>2, BlockAssumption DEF Nothing
    <3>5. QED
      BY <3>3, <3>4, <1>9 DEF Nothing
  <2>3. ASSUME Len(adding) # m
        PROVE  adding' = SubSeq(added'[Len(added')], r.upto + 1,
                                Len(added'[Len(added')]))
    <3>1. PICK text, from, rest : /\ text = added[Len(added)] /\ from = r.upto
                                  /\ rest = Len(adding) - m
      OBVIOUS
    <3>2. /\ text \in Seq(Cell) /\ Len(text) \in Nat /\ from \in Nat
          /\ from - m \in Int /\ r.rec \in 1..Len(added)
      <4>1. r.rec \in 1..Len(added) /\ r \in Piece
        <5>1. n + 1 \in 1..(n + 1) /\ n + 1 \in 0..(n + 1)
          BY <1>5
        <5>2. QED
          BY <1>14, <1>15, <5>1 DEF Layout, Carries
      <4>2. QED
        BY <1>8, <1>9, <2>1, <3>1, <4>1 DEF Piece
    <3>3. /\ \A i \in 1..Len(adding) : adding[i] = text[from - m + i]
          /\ rest \in Nat /\ m + rest = Len(adding) /\ from + rest = Len(text)
      <4>1. Len(added) \in Nat /\ n \in 0..n
        BY <1>5, <1>8
      <4>2. Open(last) => last.rec \in 1..Len(added)
                          /\ last.upto <= Len(added[last.rec])
        BY <1>3, <1>4, <4>1, RecordOfPiece
      <4>3. \A i \in 1..Len(adding) : adding[i] = text[from - m + i]
        BY <1>1, <1>3, <1>4, <1>5, <3>1, <4>2, NextCarries, Zenon
      <4>4. Len(adding) \in Nat
        BY <1>8
      <4>5. QED
        BY <1>9, <2>1, <3>1, <3>2, <4>3, <4>4
    <3>4. PICK one, two : /\ one = SubSeq(adding, m + 1, m + rest)
                          /\ two = SubSeq(text, from + 1, from + rest)
      OBVIOUS
    <3>5. /\ one \in Seq(Cell) /\ Len(one) = rest
          /\ \A i \in 1..rest : one[i] = adding[m + i]
      <4>1. m + rest <= Len(adding)
        BY <3>3, <1>9
      <4>2. QED
        BY <1>8, <1>9, <3>3, <3>4, <4>1, PartBehind
    <3>6. /\ two \in Seq(Cell) /\ Len(two) = rest
          /\ \A i \in 1..rest : two[i] = text[from + i]
      <4>1. from + rest <= Len(text)
        BY <3>2, <3>3
      <4>2. QED
        BY <3>2, <3>3, <3>4, <4>1, PartBehind
    <3>7. ASSUME NEW i \in 1..rest
          PROVE  one[i] = two[i]
      <4>1. m + i \in 1..Len(adding) /\ from - m + (m + i) = from + i
        BY <1>9, <3>2, <3>3
      <4>2. QED
        BY <3>3, <3>5, <3>6, <4>1
    <3>8. one = two
      BY <3>5, <3>6, <3>7, SameElements
    <3>9. QED
      BY <1>7, <3>1, <3>3, <3>4, <3>8
  <2>4. good' = Len(file') /\ file' = all
    BY <1>6, <1>7, <1>13
  <2>5. longer = ends' /\ added' = added
    BY <1>7, <1>13
  <2>6. QED
    BY <1>7, <2>1, <2>2, <2>3, <2>4, <2>5 DEF Writing
<1>19. Kept(all, more, n + 1, longer)'
  BY <1>7, <1>14, <1>16, <1>17 DEF Kept
<1>20. QED
  BY <1>11, <1>12, <1>15, <1>18, <1>19, InvBeforeReading

\* A fragment is taken out of the buffer only if it is all there.
LEMMA FragmentInBuffer ==
    ASSUME Typed, Buffered, HasHeader, IsIntact,
           NEW cells, NEW pieces, NEW n, NEW stops,
           Kept(cells, pieces, n, stops), Reached(pieces, n)
    PROVE  Len(Payload) \in Nat /\ kHeaderSize + Len(Payload) <= Len(buffer)
<1>1. /\ file \in Seq(Cells) /\ buffer \in Seq(Cells) /\ Cut(cells)
      /\ Len(cells) \in Nat /\ n \in Nat /\ Layout(added, cells, pieces, n)
      /\ Len(buffer) \in Nat /\ kHeaderSize \in Nat
  BY BlockAssumption DEF Typed, Kept, Layout
<1>2. ~Beyond
  BY <1>1, BeyondIsNot
<1>3. PICK m \in 0..n : \E base \in Int : Following(pieces[m], base)
  BY <1>2 DEF Reached
<1>4. PICK base \in Int : Following(pieces[m], base)
  BY <1>3
<1>5. ASSUME m < n
      PROVE  pieces[m + 1] \in Piece /\ Fits(pieces[m + 1])
             /\ InCells(cells, pieces[m + 1])
  <2>1. m + 1 \in 1..n /\ m + 1 \in 0..n
    BY <1>1, <1>5
  <2>2. QED
    BY <1>1, <2>1 DEF Layout
<1>6. ~(m < n /\ Broken(pieces[m + 1], base))
  BY <1>1, <1>5, BrokenIsNot
<1>7. ~NoRoom(pieces[m], base)
  BY <1>1 DEF NoRoom, HasHeader
<1>8. m < n /\ Ready(pieces[m + 1], base)
  BY <1>1, <1>2, <1>4, <1>6, <1>7, InFront
<1>9. PICK r : r = pieces[m + 1]
  OBVIOUS
<1>10. /\ Payload = r.payload /\ kHeaderSize + Len(r.payload) <= Len(buffer)
       /\ r \in Piece
  <2>1. position = (IF Len(file) < base + kBlockSize THEN Len(file)
                    ELSE base + kBlockSize)
    BY <1>4 DEF Following
  <2>2. QED
    BY <1>1, <1>5, <1>8, <1>9, <2>1, ReadyIsIntact
<1>11. Len(r.payload) \in Nat
  BY <1>10 DEF Piece
<1>12. QED
  BY <1>10, <1>11

\* The reader changes nothing in the file, and its buffer is always a part of it.
LEMMA ReaderKeeps ==
    ASSUME Inv, Reader
    PROVE  Inv'
<1>1. Typed /\ Buffered /\ failure # "none" /\ ~done
  BY DEF Inv, Reader, ReadBlock, EndOfFile, BadRecord, ReadFragment, Reading
<1>2. PICK cells, pieces, n, stops : Laid(cells, pieces, n, stops)
  BY DEF Inv
<1>3. Kept(cells, pieces, n, stops) /\ Reached(pieces, n)
  BY <1>2 DEF Laid, Reached
<1>4. /\ UNCHANGED writerVars /\ UNCHANGED failure
      /\ UNCHANGED <<file, offset, adding, stage, good, added, ends>>
  BY DEF Reader, ReadBlock, EndOfFile, BadRecord, ReadFragment, writerVars
<1>5. Reached(pieces, n)' /\ (done' => records' = Whole')
  BY <1>1, <1>3, ReaderMoves
<1>6. Kept(cells, pieces, n, stops)'
  BY <1>3, <1>4 DEF Kept, Cut, Ended
<1>7. Laid(cells, pieces, n, stops)'
  BY <1>1, <1>4, <1>5, <1>6 DEF Laid, Reached
<1>8. /\ file \in Seq(Cells) /\ buffer \in Seq(Cells) /\ Len(buffer) \in Nat
      /\ position \in Nat /\ kHeaderSize \in Nat
  BY <1>1, BlockAssumption DEF Typed, Buffered
<1>9. CASE ReadBlock
  <2>1. buffer' \in Seq(Cells) /\ Buffered'
    BY <1>1, <1>9, BlockRead
  <2>2. eof' \in BOOLEAN /\ UNCHANGED <<done, inFragment>>
    BY <1>9 DEF ReadBlock
  <2>3. QED
    BY <1>1, <1>4, <1>5, <1>7, <2>1, <2>2 DEF Inv, Typed
<1>10. CASE EndOfFile
  <2>1. UNCHANGED <<position, buffer, eof, inFragment>> /\ done' = TRUE
    BY <1>10 DEF EndOfFile, readerVars
  <2>2. QED
    BY <1>1, <1>4, <1>5, <1>7, <2>1 DEF Inv, Typed, Buffered
<1>11. CASE BadRecord
  <2>1. buffer' = <<>> /\ inFragment' = FALSE /\ UNCHANGED <<position, eof, done>>
    BY <1>11 DEF BadRecord
  <2>2. Buffered'
    BY <1>1, <1>4, <1>8, <2>1, BlockAssumption DEF Buffered
  <2>3. buffer' \in Seq(Cells) /\ inFragment' \in BOOLEAN
    <3>1. <<>> \in Seq(Cells)
      OBVIOUS
    <3>2. QED
      BY <2>1, <3>1, Zenon
  <2>4. QED
    BY <1>1, <1>4, <1>5, <1>7, <2>1, <2>2, <2>3 DEF Inv, Typed
<1>12. CASE ReadFragment
  <2>1. PICK from, size, rest : /\ from = kHeaderSize + Len(Payload)
                                /\ size = Len(buffer) /\ rest = size - from
    OBVIOUS
  <2>2. from \in Nat /\ from <= size
    BY <1>1, <1>3, <1>8, <1>12, <2>1, FragmentInBuffer DEF ReadFragment
  <2>3. rest \in Nat /\ from + rest = size /\ size \in Nat /\ rest <= size
    BY <1>8, <2>1, <2>2
  <2>4. buffer' = SubSeq(buffer, from + 1, from + rest)
    BY <1>12, <2>1, <2>3 DEF ReadFragment, Consumed
  <2>5. /\ buffer' \in Seq(Cells) /\ Len(buffer') = rest
        /\ \A k \in 1..rest : buffer'[k] = buffer[from + k]
    BY <1>8, <2>1, <2>2, <2>3, <2>4, PartBehind
  <2>6. UNCHANGED <<position, eof, done>>
    BY <1>12 DEF ReadFragment
  <2>7. inFragment' \in BOOLEAN
    BY <1>1, <1>12 DEF ReadFragment, Collect, Typed
  <2>8. ASSUME NEW k \in 1..rest
        PROVE  buffer'[k] = file[position - rest + k]
    <3>1. from + k \in 1..size /\ position - size + (from + k) = position - rest + k
      BY <1>8, <2>2, <2>3
    <3>2. QED
      BY <1>1, <2>1, <2>5, <3>1 DEF Buffered
  <2>9. Buffered'
    BY <1>1, <1>4, <1>8, <2>1, <2>3, <2>5, <2>6, <2>8, BlockAssumption DEF Buffered
  <2>10. QED
    BY <1>1, <1>4, <1>5, <1>7, <2>5, <2>6, <2>7, <2>9 DEF Inv, Typed
<1>13. QED
  BY <1>9, <1>10, <1>11, <1>12 DEF Reader

--------------------------------------------------------------------------------
(* The invariant, and the types.                                              *)

\* The empty file.
LEMMA InitHolds == Init => Inv
<1> SUFFICES ASSUME Init PROVE Inv
  OBVIOUS
<1>1. /\ file = <<>> /\ offset = 0 /\ good = 0
      /\ adding = <<>> /\ stage = "idle"
      /\ added = <<>> /\ ends = <<>>
      /\ failure = "none" /\ done = FALSE
      /\ position = 0 /\ buffer = <<>> /\ eof = FALSE
      /\ scratch = <<>> /\ inFragment = FALSE /\ records = <<>>
  BY DEF Init
<1>2. /\ kBlockSize \in Nat /\ kBlockSize > 0 /\ -kBlockSize \in Int
      /\ MaxRecords \in Nat
  BY BlockAssumption, CrashAssumption
<1>3. Typed /\ Buffered /\ Waiting
  <2>1. /\ <<>> \in Seq(Cells) /\ <<>> \in Seq(Cell) /\ <<>> \in Seq(Seq(Cell))
        /\ Len(<<>>) = 0
    OBVIOUS
  <2>2. Len(added) <= MaxRecords /\ offset \in 0..kBlockSize
    BY <1>1, <1>2, <2>1
  <2>3. \A i \in 1..Len(added) : \E size \in Sizes : added[i] = Record(i, size)
    BY <1>1, <2>1
  <2>4. Typed
    BY <1>1, <2>1, <2>2, <2>3, Zenon DEF Typed
  <2>5. Buffered /\ Waiting
    BY <1>1, <1>2 DEF Buffered, Waiting
  <2>6. QED
    BY <2>4, <2>5
<1>4. PICK pieces : pieces = [m \in 0..0 |-> Nothing]
  OBVIOUS
<1>5. /\ Nothing.end = 0 /\ Nothing.base = -kBlockSize /\ ~Open(Nothing)
      /\ Count(Nothing) = 0 /\ Nothing.rec = 0
  BY DEF Nothing, Open, Count
<1>6. Nothing \in Piece
  BY <1>2 DEF Nothing, Piece, Types
<1>7. Layout(added, <<>>, pieces, 0)
  <2>1. pieces \in [0..0 -> Piece] /\ pieces[0] = Nothing
    BY <1>4, <1>6
  <2>2. \A l, m \in 0..0 : ~(l < m)
    OBVIOUS
  <2>3. QED
    BY <1>5, <2>1, <2>2 DEF Layout
<1>8. Stops(<<>>, pieces, 0)
  BY <1>4, <1>5 DEF Stops
<1>9. Cut(<<>>) /\ Ended(<<>>)
  BY <1>1 DEF Cut, Ended
<1>10. Writing(<<>>, pieces[0], <<>>)
  BY <1>1, <1>4, <1>5 DEF Writing
<1>11. Following(pieces[0], -kBlockSize)
  BY <1>1, <1>2, <1>4, <1>5 DEF Following
<1>12. Laid(<<>>, pieces, 0, <<>>)
  BY <1>2, <1>7, <1>8, <1>9, <1>10, <1>11 DEF Laid, Kept
<1>13. QED
  BY <1>1, <1>3, <1>12 DEF Inv

\* A crash of either kind.
LEMMA DeathKeeps ==
    ASSUME Inv, ProcessDies \/ MachineDies
    PROVE  Inv'
<1>1. failure = "none" /\ Len(file) \in Nat
  BY DEF ProcessDies, MachineDies, Crash, Inv, Typed
<1>2. Len(file) <= Len(Written) /\ Written \in Seq(Cells)
  BY <1>1, AllWritten
<1>3. CASE ProcessDies
  <2>1. PICK kept \in Len(file)..Len(Written) : Crash("process", kept, 0)
    BY <1>3 DEF ProcessDies
  <2>2. kept \in 0..Len(Written)
    BY <1>1, <1>2
  <2>3. QED
    BY <2>1, <2>2, CrashKeeps
<1>4. CASE MachineDies
  <2>1. PICK kept \in 0..Len(Written), zeros \in 0..MaxZeros :
            Crash("machine", kept, zeros)
    BY <1>4 DEF MachineDies
  <2>2. zeros \in Nat
    BY CrashAssumption
  <2>3. QED
    BY <2>1, <2>2, CrashKeeps
<1>5. QED
  BY <1>3, <1>4

\* Every step keeps it.
LEMMA StepKeeps == Inv /\ [Next]_vars => Inv'
<1> SUFFICES ASSUME Inv, [Next]_vars PROVE Inv'
  OBVIOUS
<1>1. ASSUME NEW size \in Sizes, AddRecord(size)
      PROVE  Inv'
  BY <1>1, AddRecordKeeps
<1>2. CASE EmitPhysicalRecord
  BY <1>2, EmitKeeps
<1>3. CASE ProcessDies \/ MachineDies
  BY <1>3, DeathKeeps
<1>4. CASE Reader
  BY <1>4, ReaderKeeps
<1>5. CASE UNCHANGED vars
  <2>1. UNCHANGED <<file, offset, adding, stage, added, ends, good, failure, done,
                    position, buffer, eof, scratch, inFragment, records>>
    BY <1>5 DEF vars, writerVars, readerVars
  <2>2. Typed' /\ Buffered' /\ (failure' = "none" => Waiting')
    BY <2>1 DEF Inv, Typed, Buffered, Waiting
  <2>3. Whole' = Whole
    BY <2>1 DEF Whole, Held
  <2>4. PICK cells, pieces, n, stops : Laid(cells, pieces, n, stops)
    BY DEF Inv
  <2>5. /\ Kept(cells, pieces, n, stops)'
        /\ failure' = "none" => Writing(cells, pieces[n], stops)'
    BY <2>1, <2>4 DEF Laid, Kept, Cut, Ended, Writing
  <2>6. Beyond' \/ \E m \in 0..n : \E base \in Int : Following(pieces[m], base)'
    BY <2>1, <2>3, <2>4 DEF Laid, Beyond, Following
  <2>7. QED
    BY <2>1, <2>2, <2>3, <2>5, <2>6 DEF Inv, Laid
<1>6. QED
  BY <1>1, <1>2, <1>3, <1>4, <1>5 DEF Next

\* In every state of every run.
LEMMA Invariance == Spec => []Inv
BY InitHolds, StepKeeps, PTL DEF Spec

\* The asserts of log_writer.cc are what the invariant says of the last piece.
LEMMA InvTypes == Inv => TypeOK
<1> SUFFICES ASSUME Inv PROVE TypeOK
  OBVIOUS
<1>1. PICK cells, pieces, n, stops : Laid(cells, pieces, n, stops)
  BY DEF Inv
<1>2. /\ offset \in 0..kBlockSize /\ stage \in {"idle", "begin", "rest"}
      /\ adding \in Seq(Cell) /\ file \in Seq(Cells)
  BY DEF Inv, Typed
<1>3. /\ Start \in 0..kBlockSize /\ Available \in Nat
      /\ Start + kHeaderSize + FragmentLength <= kBlockSize
      /\ FragmentLength \in Nat /\ kHeaderSize \in Nat /\ kBlockSize \in Nat
  <2>1. FragmentLength \in 0..Len(adding) /\ Len(adding) \in Nat
    BY <1>2, Room
  <2>2. QED
    BY <1>2, <2>1, Room, BlockAssumption
<1>4. good <= Len(file) /\ position <= Len(file) /\ Len(buffer) <= kBlockSize
  BY <1>1 DEF Laid, Kept, Cut, Inv, Buffered
<1>5. ASSUME failure = "none"
      PROVE  offset = 0 \/ Len(file) % kBlockSize = offset % kBlockSize
  <2>1. PICK last : last = pieces[n]
    OBVIOUS
  <2>2. /\ Writing(cells, last, stops) /\ Layout(added, cells, pieces, n)
        /\ cells = file
    BY <1>1, <1>5, <2>1 DEF Laid, Kept, Writing
  <2>3. CASE last = Nothing
    BY <2>2, <2>3 DEF Writing
  <2>4. CASE last # Nothing
    <3>1. n \in 1..n /\ n \in 0..n
      BY <2>1, <2>2, <2>4 DEF Layout
    <3>2. /\ Fits(last) /\ Aligned(last.base) /\ last \in Piece
          /\ last.end = Len(file)
      BY <2>1, <2>2, <3>1 DEF Layout
    <3>3. PICK base, x : base = last.base /\ x = offset
      OBVIOUS
    <3>4. x = Len(file) - base /\ base \in Int /\ base >= 0
      BY <2>2, <2>4, <3>2, <3>3 DEF Writing, Fits, Piece
    <3>5. base \in Nat /\ x \in Nat /\ base + x = Len(file) /\ Aligned(base)
      BY <1>2, <3>2, <3>3, <3>4
    <3>6. (base + x) % kBlockSize = x % kBlockSize
      BY <3>5, OffsetInBlock
    <3>7. QED
      BY <3>3, <3>5, <3>6
  <2>5. QED
    BY <2>3, <2>4
<1>6. Available >= 0 /\ kHeaderSize + FragmentLength <= kBlockSize - Start
  BY <1>3
<1>7. QED
  BY <1>2, <1>4, <1>5, <1>6 DEF TypeOK

\* AddRecord's asserts hold, in every state of every log file: a block never
\* overflows and a header never crosses its end.
THEOREM TypeCorrect == Spec => []TypeOK
BY Invariance, InvTypes, PTL

--------------------------------------------------------------------------------
(* The log keeps LevelDB's promise.                                           *)

\* A set of natural numbers that is not empty has a least element.
LEMMA LeastNumber ==
    ASSUME NEW S \in SUBSET Nat, S # {}
    PROVE  \E x \in S : \A y \in S : x <= y
<1> DEFINE R == OpToRel(<, Nat)
<1>1. IsWellFoundedOn(R, Nat)
  BY NatLessThanWellFounded
<1>2. \A x, y \in Nat : y < x => <<y, x>> \in R
  BY Zenon DEF OpToRel
<1> HIDE DEF R
<1>3. PICK x \in S : \A y \in S : <<y, x>> \notin R
  BY <1>1, WFMin
<1>4. \A y \in S : ~(y < x)
  BY <1>2, <1>3
<1>5. QED
  BY <1>3, <1>4

\* Records end one behind the other.
LEMMA StopsGrow ==
    ASSUME NEW recs, NEW cells, NEW pieces, NEW n, NEW stops,
           Layout(recs, cells, pieces, n), Stops(stops, pieces, n),
           NEW k \in 1..Len(stops), NEW l \in 1..Len(stops), l < k
    PROVE  stops[l] <= stops[k]
<1>1. PICK m \in 1..n : stops[k] = pieces[m].end
  BY DEF Stops
<1>2. m \in 0..n /\ n \in Nat /\ Len(stops) \in Nat
  BY DEF Layout, Stops
<1>3. PICK c, end : c = Count(pieces[m]) /\ end = pieces[m].end
  OBVIOUS
<1>4. /\ c \in 0..Len(stops) /\ end \in Int
      /\ \A r \in 1..Len(stops) : stops[r] <= end <=> r <= c
  <2>1. pieces[m] \in Piece
    BY <1>2 DEF Layout
  <2>2. QED
    BY <1>2, <1>3, <2>1 DEF Stops, Piece
<1>5. k <= c
  BY <1>1, <1>3, <1>4
<1>6. l <= c
  BY <1>2, <1>4, <1>5
<1>7. QED
  BY <1>1, <1>3, <1>4, <1>6

\* Of records whose ends grow the file holds a first part.
LEMMA SomeAreHeld ==
    ASSUME NEW e \in Seq(Int), NEW g \in Int,
           \A k, l \in 1..Len(e) : l < k => e[l] <= e[k]
    PROVE  \E n \in 0..Len(e) : \A i \in DOMAIN e : e[i] <= g <=> i <= n
<1>1. PICK out : out = {i \in 1..Len(e) : e[i] > g}
  OBVIOUS
<1>2. /\ Len(e) \in Nat /\ DOMAIN e = 1..Len(e)
      /\ \A i \in 1..Len(e) : e[i] \in Int
  OBVIOUS
<1>3. CASE out = {}
  <2>1. \A i \in 1..Len(e) : e[i] <= g /\ i <= Len(e)
    BY <1>1, <1>2, <1>3
  <2>2. Len(e) \in 0..Len(e)
    BY <1>2
  <2>3. QED
    BY <1>2, <2>1, <2>2
<1>4. CASE out # {}
  <2>0. out \subseteq Nat
    BY <1>1
  <2>1. PICK x \in out : \A y \in out : x <= y
    BY <1>4, <2>0, LeastNumber
  <2>2. x \in 1..Len(e) /\ e[x] > g /\ x - 1 \in 0..Len(e)
    BY <1>1, <1>2
  <2>3. ASSUME NEW i \in 1..Len(e)
        PROVE  e[i] <= g <=> i <= x - 1
    <3>1. CASE i < x
      BY <1>1, <1>2, <2>1, <2>2, <3>1
    <3>2. CASE i = x
      BY <1>2, <2>2, <3>2
    <3>3. CASE i > x
      <4>1. e[x] <= e[i]
        BY <2>2, <3>3
      <4>2. QED
        BY <1>2, <2>2, <3>3, <4>1
    <3>4. QED
      BY <2>2, <3>1, <3>2, <3>3
  <2>4. QED
    BY <1>2, <2>2, <2>3
<1>5. QED
  BY <1>3, <1>4

\* While the writer is alive the file holds every record that is complete: all
\* but the one being added.
LEMMA AliveLog ==
    ASSUME Inv, failure = "none"
    PROVE  /\ ends \in Seq(Int) /\ Len(added) \in Nat /\ Len(file) \in Nat
           /\ good = Len(file) /\ added \in Seq(Seq(Cell))
           /\ Len(ends) = IF stage = "idle" THEN Len(added) ELSE Len(added) - 1
           /\ \A i \in 1..Len(ends) : ends[i] <= Len(file) /\ ends[i] \in Int
           /\ \A k, l \in 1..Len(ends) : l < k => ends[l] <= ends[k]
           /\ Whole = SubSeq(added, 1, Len(ends))
           /\ Len(ends) \in Nat
<1>1. PICK cells, pieces, n, stops : Laid(cells, pieces, n, stops)
  BY DEF Inv
<1>2. /\ Writing(cells, pieces[n], stops) /\ Layout(added, cells, pieces, n)
      /\ Stops(stops, pieces, n)
  BY <1>1 DEF Laid, Kept
<1>3. PICK last, size : last = pieces[n] /\ size = Len(ends)
  OBVIOUS
<1>4. /\ cells = file /\ good = Len(file) /\ stops = ends
  BY <1>2 DEF Writing
<1>5. /\ file \in Seq(Cells) /\ added \in Seq(Seq(Cell))
      /\ Len(file) \in Nat /\ Len(added) \in Nat
      /\ stage \in {"idle", "begin", "rest"}
  BY DEF Inv, Typed
<1>6. n \in 0..n /\ last \in Piece /\ last.rec \in Nat
  BY <1>2, <1>3 DEF Layout, Piece
<1>7. /\ ends \in Seq(Int) /\ size \in Nat /\ size = Count(last)
      /\ \A i \in 1..size : ends[i] \in Int
  BY <1>2, <1>3, <1>4 DEF Stops
<1>8. size = IF stage = "idle" THEN Len(added) ELSE Len(added) - 1
  BY <1>2, <1>3, <1>5, <1>6, <1>7 DEF Count, Writing
<1>9. ASSUME NEW i \in 1..size
      PROVE  ends[i] <= Len(file)
  <2>1. pieces[n].end = Len(file) /\ i <= Count(pieces[n])
    BY <1>2, <1>3, <1>4, <1>7 DEF Layout
  <2>2. QED
    BY <1>2, <1>3, <1>4, <1>6, <2>1 DEF Stops
<1>10. Held(size)
  <2>1. DOMAIN ends = 1..size
    <3>1. \A s \in Seq(Int) : DOMAIN s = 1..Len(s)
      OBVIOUS
    <3>2. QED
      BY <1>3, <1>7, <3>1, Zenon
  <2>2. \A i \in 1..size : ends[i] <= good /\ i <= size
    BY <1>4, <1>7, <1>9
  <2>3. QED
    BY <2>1, <2>2 DEF Held
<1>11. Whole = SubSeq(added, 1, size)
  BY <1>3, <1>7, <1>10, WholeIs
<1>12. \A k, l \in 1..size : l < k => ends[l] <= ends[k]
  BY <1>2, <1>3, <1>4, StopsGrow
<1>13. QED
  BY <1>3, <1>4, <1>5, <1>7, <1>8, <1>9, <1>11, <1>12

\* How the log grows, record by record.
LEMMA LogGrows ==
    ASSUME added \in Seq(Seq(Cell)), NEW n \in Nat, n + 1 \in 1..Len(added)
    PROVE  SubSeq(added, 1, n + 1) = Append(SubSeq(added, 1, n), added[n + 1])
<1>1. PICK k : k = n + 1
  OBVIOUS
<1>2. k \in 1..Len(added) /\ k - 1 = n
  BY <1>1
<1>3. SubSeq(added, 1, k) = Append(SubSeq(added, 1, k - 1), added[k])
  BY <1>2, PrefixGrows
<1>4. QED
  BY <1>1, <1>2, <1>3

\* A crash leaves a first part of the log, all of it if no cell of the file is
\* missing, or completes the record that was being added.
LEMMA CrashLog ==
    ASSUME Inv, NEW kind, NEW kept \in 0..Len(Written),
           NEW zeros \in Nat, Crash(kind, kept, zeros)
    PROVE  \/ \E n \in 0..Len(ends) :
                  /\ Whole' = SubSeq(added, 1, n)
                  /\ kept >= Len(file) => n = Len(ends)
           \/ /\ Len(ends) + 1 \in 1..Len(added)
              /\ Whole' = SubSeq(added, 1, Len(ends) + 1)
<1>1. failure = "none" /\ stage \in {"idle", "begin", "rest"} /\ Typed
  BY DEF Inv, Typed, Crash
<1>2. PICK size, count : size = Len(ends) /\ count = Len(file)
  OBVIOUS
<1>3. /\ ends \in Seq(Int) /\ Len(added) \in Nat /\ count \in Nat /\ size \in Nat
      /\ good = count
      /\ size = IF stage = "idle" THEN Len(added) ELSE Len(added) - 1
      /\ \A i \in 1..size : ends[i] <= count /\ ends[i] \in Int
      /\ \A k, l \in 1..size : l < k => ends[l] <= ends[k]
      /\ DOMAIN ends = 1..size
  <2>1. \A s \in Seq(Int) : DOMAIN s = 1..Len(s)
    OBVIOUS
  <2>2. ends \in Seq(Int)
    BY <1>1, AliveLog
  <2>3. DOMAIN ends = 1..size
    BY <1>2, <2>1, <2>2, Zenon
  <2>4. QED
    BY <1>1, <1>2, <2>3, AliveLog
<1>4. /\ good' = kept /\ added' = added /\ kept \in Nat
      /\ ends' = IF /\ stage # "idle" /\ kept = Len(Written)
                    /\ Len(adding) = FragmentLength
                 THEN Append(ends, kept) ELSE ends
  <2>1. Len(Written) \in Nat
    BY <1>1, AllWritten
  <2>2. QED
    BY <2>1 DEF Crash
<1>5. CASE ends' = ends
  <2>1. PICK n \in 0..size : \A i \in DOMAIN ends : ends[i] <= kept <=> i <= n
    <3>1. \A k, l \in 1..Len(ends) : l < k => ends[l] <= ends[k]
      BY <1>1, AliveLog
    <3>2. ends \in Seq(Int) /\ kept \in Int
      BY <1>3, <1>4
    <3>3. QED
      BY <1>2, <3>1, <3>2, SomeAreHeld, Zenon
  <2>2. Held(n)'
    BY <1>4, <1>5, <2>1 DEF Held
  <2>3. Whole' = SubSeq(added, 1, n)
    BY <1>2, <1>3, <1>4, <1>5, <2>1, <2>2, WholeIsNext
  <2>4. ASSUME kept >= count
        PROVE  n = size
    <3>1. ASSUME NEW i \in 1..size
          PROVE  i <= n
      <4>1. ends[i] <= kept
        BY <1>3, <1>4, <2>4
      <4>2. QED
        BY <1>3, <2>1, <4>1
    <3>2. QED
      BY <1>3, <3>1
  <2>5. QED
    BY <1>2, <2>3, <2>4
<1>6. CASE ends' # ends
  <2>1. /\ ends' = Append(ends, kept) /\ stage # "idle" /\ kept = Len(Written)
    BY <1>4, <1>6
  <2>2. size + 1 \in 1..Len(added)
    BY <1>3, <2>1
  <2>3. kept >= count
    BY <1>1, <1>2, <2>1, AllWritten
  <2>4. /\ ends' \in Seq(Int) /\ Len(ends') = size + 1 /\ ends'[size + 1] = kept
        /\ \A i \in 1..size : ends'[i] = ends[i]
        /\ DOMAIN ends' = 1..(size + 1)
    BY <1>2, <1>3, <1>4, <2>1
  <2>5. ASSUME NEW i \in 1..(size + 1)
        PROVE  ends'[i] <= kept
    <3>1. CASE i = size + 1
      BY <1>4, <2>4, <3>1
    <3>2. CASE i # size + 1
      <4>1. i \in 1..size
        BY <1>3, <3>2
      <4>2. QED
        BY <1>3, <1>4, <2>3, <2>4, <4>1
    <3>3. QED
      BY <3>1, <3>2
  <2>6. PICK k : k = size + 1
    OBVIOUS
  <2>7. Held(k)'
    BY <1>4, <2>4, <2>5, <2>6 DEF Held
  <2>8. k \in 0..Len(ends')
    BY <1>3, <2>4, <2>6
  <2>9. Whole' = SubSeq(added, 1, k)
    BY <1>4, <2>4, <2>7, <2>8, WholeIsNext
  <2>10. QED
    BY <1>2, <2>2, <2>6, <2>9
<1>7. QED
  BY <1>5, <1>6

\* A fragment that ends its record adds it to the log, and no other step of the
\* writer changes the log.
LEMMA EmitLog ==
    ASSUME Inv, EmitPhysicalRecord
    PROVE  \/ Whole' = Whole
           \/ /\ Len(ends) + 1 \in 1..Len(added)
              /\ Whole' = SubSeq(added, 1, Len(ends) + 1)
<1>1. failure = "none" /\ stage # "idle" /\ stage \in {"idle", "begin", "rest"}
  BY DEF Inv, Typed, EmitPhysicalRecord
<1>2. PICK size, count : size = Len(ends) /\ count = Len(file)
  OBVIOUS
<1>3. /\ ends \in Seq(Int) /\ Len(added) \in Nat /\ count \in Nat /\ size \in Nat
      /\ size = Len(added) - 1
      /\ \A i \in 1..size : ends[i] <= count /\ ends[i] \in Int
      /\ Whole = SubSeq(added, 1, size)
      /\ DOMAIN ends = 1..size
  <2>1. \A s \in Seq(Int) : DOMAIN s = 1..Len(s)
    OBVIOUS
  <2>2. ends \in Seq(Int)
    BY <1>1, AliveLog
  <2>3. DOMAIN ends = 1..size
    BY <1>2, <2>1, <2>2, Zenon
  <2>4. QED
    BY <1>1, <1>2, <2>3, AliveLog
<1>4. PICK kept : kept = Len(file')
  OBVIOUS
<1>5. /\ good' = kept /\ added' = added /\ kept \in Nat /\ kept >= count
      /\ ends' = IF Len(adding) = FragmentLength THEN Append(ends, kept) ELSE ends
  <2>1. file' = Written
    BY <1>1 DEF EmitPhysicalRecord, Written
  <2>2. kept \in Nat /\ kept >= count
    BY <1>1, <1>2, <1>3, <1>4, <2>1, AllWritten
  <2>3. QED
    BY <1>4, <2>2 DEF EmitPhysicalRecord
<1>6. CASE ends' = ends
  <2>1. \A i \in 1..size : ends[i] <= kept /\ i <= size
    BY <1>3, <1>5
  <2>2. Held(size)'
    BY <1>3, <1>5, <1>6, <2>1 DEF Held
  <2>3. size \in 0..Len(ends')
    BY <1>2, <1>3, <1>6
  <2>4. QED
    BY <1>3, <1>5, <1>6, <2>2, <2>3, WholeIsNext
<1>7. CASE ends' # ends
  <2>1. ends' = Append(ends, kept)
    BY <1>5, <1>7
  <2>2. size + 1 \in 1..Len(added)
    BY <1>1, <1>3
  <2>3. /\ ends' \in Seq(Int) /\ Len(ends') = size + 1 /\ ends'[size + 1] = kept
        /\ \A i \in 1..size : ends'[i] = ends[i]
        /\ DOMAIN ends' = 1..(size + 1)
    BY <1>2, <1>3, <1>5, <2>1
  <2>4. ASSUME NEW i \in 1..(size + 1)
        PROVE  ends'[i] <= kept
    <3>1. CASE i = size + 1
      BY <1>5, <2>3, <3>1
    <3>2. CASE i # size + 1
      <4>1. i \in 1..size
        BY <1>3, <3>2
      <4>2. QED
        BY <1>3, <1>5, <2>3, <4>1
    <3>3. QED
      BY <3>1, <3>2
  <2>5. PICK k : k = size + 1
    OBVIOUS
  <2>6. Held(k)'
    BY <1>5, <2>3, <2>4, <2>5 DEF Held
  <2>7. k \in 0..Len(ends')
    BY <1>3, <2>3, <2>5
  <2>8. Whole' = SubSeq(added, 1, k)
    BY <1>5, <2>3, <2>6, <2>7, WholeIsNext
  <2>9. QED
    BY <1>2, <2>2, <2>5, <2>8
<1>8. QED
  BY <1>6, <1>7

\* What the abstract log sees: the readers, reboots, and what may be added.
Shown == IF done THEN <<records>> ELSE <<>>
Stopped == IF failure = "machine" THEN 1 ELSE 0
Addable == {Record(i, size) : i \in 1..MaxRecords, size \in Sizes}

\* All that is added is a record of the abstract log.
LEMMA RecordsAre ==
    ASSUME Typed, NEW i \in 1..Len(added)
    PROVE  added[i] \in Addable
<1>1. PICK size \in Sizes : added[i] = Record(i, size)
  BY DEF Typed
<1>2. i \in 1..MaxRecords
  BY CrashAssumption DEF Typed
<1>3. QED
  BY <1>1, <1>2 DEF Addable

\* No step of Journal is anything but an addition, a reboot or the readers'.
LEMMA StepsKeepPromise ==
    Inv /\ Inv' /\ [Next]_vars => [Promised!Next]_<<Whole, Shown, Stopped>>
<1> SUFFICES ASSUME Inv, Inv', [Next]_vars
             PROVE  [Promised!Next]_<<Whole, Shown, Stopped>>
  OBVIOUS
<1>1. Shown' \in {<<>>, <<Whole'>>}
  BY DEF Inv, Shown
<1>2. Promised!Consistent
  BY <1>1 DEF Promised!Consistent, Shown
<1>3. /\ Typed /\ added \in Seq(Seq(Cell)) /\ Len(added) \in Nat
  BY DEF Inv, Typed
<1>4. ASSUME UNCHANGED <<Whole, failure>>
      PROVE  Promised!Next
  BY <1>2, <1>4 DEF Promised!Next, Promised!OnlyReaders
<1>5. ASSUME failure = "none", Len(ends) + 1 \in 1..Len(added),
             Whole' = SubSeq(added, 1, Len(ends) + 1)
      PROVE  \E r \in Addable : Whole' = Append(Whole, r)
  <2>1. Len(ends) \in Nat /\ Whole = SubSeq(added, 1, Len(ends))
    BY <1>5, AliveLog
  <2>2. Whole' = Append(Whole, added[Len(ends) + 1])
    BY <1>3, <1>5, <2>1, LogGrows
  <2>3. added[Len(ends) + 1] \in Addable
    BY <1>3, <1>5, RecordsAre
  <2>4. QED
    BY <2>2, <2>3
<1>6. ASSUME UNCHANGED failure, \E r \in Addable : Whole' = Append(Whole, r)
      PROVE  Promised!Next
  BY <1>2, <1>6 DEF Promised!Next, Promised!Add, Addable
<1>7. CASE UNCHANGED vars
  <2>1. UNCHANGED <<added, ends, good, failure, done, records>>
    BY <1>7 DEF vars, writerVars, readerVars
  <2>2. UNCHANGED <<Whole, failure>>
    BY <2>1 DEF Whole, Held
  <2>3. QED
    BY <1>4, <2>2
<1>8. CASE Reader
  <2>1. UNCHANGED <<added, ends, good, failure>>
    BY <1>8 DEF Reader, ReadBlock, EndOfFile, BadRecord, ReadFragment, writerVars
  <2>2. UNCHANGED <<Whole, failure>>
    BY <2>1 DEF Whole, Held
  <2>3. QED
    BY <1>4, <2>2
<1>9. ASSUME NEW size \in Sizes, AddRecord(size)
      PROVE  Promised!Next
  <2>1. /\ failure = "none" /\ failure' = failure /\ ends' = ends /\ good' = good
        /\ added' = Append(added, Record(Len(added) + 1, size))
        /\ stage = "idle"
    BY <1>9 DEF AddRecord
  <2>2. PICK k : k = Len(ends)
    OBVIOUS
  <2>3. /\ Whole = SubSeq(added, 1, k) /\ k \in Nat /\ k <= Len(added)
        /\ ends \in Seq(Int) /\ good \in Int
        /\ \A i \in 1..k : ends[i] <= good
    BY <1>3, <2>1, <2>2, AliveLog
  <2>4. Held(k)'
    <3>1. \A s \in Seq(Int) : DOMAIN s = 1..Len(s)
      OBVIOUS
    <3>2. DOMAIN ends = 1..k
      BY <2>2, <2>3, <3>1, Zenon
    <3>3. \A i \in 1..k : ends[i] <= good /\ i <= k
      BY <2>3
    <3>4. QED
      BY <2>1, <3>2, <3>3 DEF Held
  <2>5. Whole' = SubSeq(added', 1, k)
    BY <2>1, <2>2, <2>3, <2>4, WholeIsNext
  <2>6. SubSeq(added', 1, k) = SubSeq(added, 1, k)
    <3>1. PICK record : record = Record(Len(added) + 1, size)
      OBVIOUS
    <3>2. added' \in Seq(Seq(Cell))
      BY DEF Inv, Typed
    <3>3. Len(added') = Len(added) + 1 /\ \A i \in 1..k : added'[i] = added[i]
      BY <1>3, <2>1, <2>3
    <3>4. PICK one, two : one = SubSeq(added', 1, k) /\ two = SubSeq(added, 1, k)
      OBVIOUS
    <3>5. /\ one \in Seq(Seq(Cell)) /\ Len(one) = k
          /\ \A i \in 1..k : one[i] = added'[i]
      BY <1>3, <2>3, <3>2, <3>3, <3>4
    <3>6. /\ two \in Seq(Seq(Cell)) /\ Len(two) = k
          /\ \A i \in 1..k : two[i] = added[i]
      BY <1>3, <2>3, <3>4
    <3>7. one = two
      <4>1. \A i \in 1..k : one[i] = two[i]
        BY <3>3, <3>5, <3>6
      <4>2. QED
        BY <3>5, <3>6, <4>1, SameElements
    <3>8. QED
      BY <3>4, <3>7
  <2>7. QED
    BY <1>4, <2>1, <2>3, <2>5, <2>6
<1>10. CASE EmitPhysicalRecord
  <2>1. failure = "none" /\ failure' = failure
    BY <1>10 DEF EmitPhysicalRecord
  <2>2. QED
    BY <1>4, <1>5, <1>6, <1>10, <2>1, EmitLog
<1>11. CASE ProcessDies
  <2>1. PICK kept \in Len(file)..Len(Written) : Crash("process", kept, 0)
    BY <1>11 DEF ProcessDies
  <2>2. failure = "none" /\ failure' = "process"
    BY <2>1 DEF Crash
  <2>3. /\ kept \in 0..Len(Written) /\ kept >= Len(file)
        /\ Whole = SubSeq(added, 1, Len(ends))
    <3>1. Len(file) \in Nat /\ Whole = SubSeq(added, 1, Len(ends))
      BY <2>2, AliveLog
    <3>2. Written \in Seq(Cells)
      BY <2>2, AllWritten
    <3>3. QED
      BY <3>1, <3>2
  <2>4. \/ Whole' = Whole
        \/ /\ Len(ends) + 1 \in 1..Len(added)
           /\ Whole' = SubSeq(added, 1, Len(ends) + 1)
    BY <2>1, <2>3, CrashLog
  <2>5. Stopped' = Stopped
    BY <2>2 DEF Stopped
  <2>6. CASE Whole' = Whole
    BY <1>2, <2>5, <2>6 DEF Promised!Next, Promised!OnlyReaders, Stopped
  <2>7. CASE \E r \in Addable : Whole' = Append(Whole, r)
    BY <1>2, <2>5, <2>7 DEF Promised!Next, Promised!Add, Addable, Stopped
  <2>8. QED
    BY <1>5, <2>2, <2>4, <2>6, <2>7
<1>12. CASE MachineDies
  <2>1. PICK kept \in 0..Len(Written), zeros \in 0..MaxZeros :
            Crash("machine", kept, zeros)
    BY <1>12 DEF MachineDies
  <2>2. failure = "none" /\ failure' = "machine" /\ zeros \in Nat
    BY <2>1, CrashAssumption DEF Crash
  <2>3. Stopped' = Stopped + 1
    BY <2>2 DEF Stopped
  <2>4. CASE \E n \in 0..Len(ends) : Whole' = SubSeq(added, 1, n)
    <3>1. PICK n \in 0..Len(ends) : Whole' = SubSeq(added, 1, n)
      BY <2>4
    <3>2. PICK k : k = Len(ends)
      OBVIOUS
    <3>3. /\ Whole = SubSeq(added, 1, k) /\ k \in Nat /\ k <= Len(added)
      BY <1>3, <2>2, <3>2, AliveLog
    <3>4. /\ Whole \in Seq(Seq(Cell)) /\ Len(Whole) = k
          /\ \A i \in 1..k : Whole[i] = added[i]
      BY <1>3, <3>3
    <3>5. n \in Nat /\ n <= k
      BY <3>2, <3>3
    <3>6. PICK one, two : one = SubSeq(Whole, 1, n) /\ two = SubSeq(added, 1, n)
      OBVIOUS
    <3>7. /\ one \in Seq(Seq(Cell)) /\ Len(one) = n
          /\ \A i \in 1..n : one[i] = Whole[i]
      BY <3>4, <3>5, <3>6
    <3>8. /\ two \in Seq(Seq(Cell)) /\ Len(two) = n
          /\ \A i \in 1..n : two[i] = added[i]
      BY <1>3, <3>3, <3>5, <3>6
    <3>9. ASSUME NEW i \in 1..n
          PROVE  one[i] = two[i]
      <4>1. i \in 1..k
        BY <3>3, <3>5
      <4>2. QED
        BY <3>4, <3>7, <3>8, <4>1
    <3>10. one = two
      BY <3>7, <3>8, <3>9, SameElements
    <3>11. n \in 0..Len(Whole) /\ Whole' = SubSeq(Whole, 1, n)
      BY <3>1, <3>4, <3>5, <3>6, <3>10
    <3>12. QED
      BY <1>2, <2>3, <3>11 DEF Promised!Next, Promised!Reboot, Stopped
  <2>5. CASE \E r \in Addable : Whole' = Append(Whole, r)
    BY <1>2, <2>3, <2>5 DEF Promised!Next, Promised!Reboot, Addable, Stopped
  <2>6. QED
    BY <1>5, <2>1, <2>2, <2>4, <2>5, CrashLog
<1>13. QED
  BY <1>7, <1>8, <1>9, <1>10, <1>11, <1>12 DEF Next

\* Nothing is in the log of an empty file.
LEMMA InitKeepsPromise == Init => Promised!Init
<1> SUFFICES ASSUME Init PROVE Promised!Init
  OBVIOUS
<1>1. ends = <<>> /\ added = <<>> /\ done = FALSE /\ failure = "none"
  BY DEF Init
<1>2. Held(0) /\ ends \in Seq(Int) /\ 0 \in 0..Len(ends)
  BY <1>1 DEF Held
<1>3. Whole = SubSeq(added, 1, 0)
  BY <1>2, WholeIs
<1>4. Whole = <<>>
  BY <1>1, <1>3
<1>5. QED
  BY <1>1, <1>4 DEF Promised!Init

\* The records a log reads back after a crash are the first ones added, in order
\* and whole, and all of them if only the process died: the files of log_writer
\* and log_reader implement the record log of options.h.
THEOREM Refinement == Spec => KeepsPromise
<1>1. Inv /\ Inv' /\ [Next]_vars => [Promised!Next]_<<Whole, Shown, Stopped>>
  BY StepsKeepPromise
<1>2. QED
  BY <1>1, InitKeepsPromise, Invariance, PTL
     DEF Spec, KeepsPromise, Promised!Spec, Shown, Stopped

================================================================================
