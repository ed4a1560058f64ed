----------------------------- MODULE Copies_proofs -----------------------------
(******************************************************************************)
(* The copies of an account: the document on the server, the one in a phone's *)
(* cache, those in its reads and the one the app acts on.  For a field that   *)
(* one phone alone changes they all tell one story: over the server's         *)
(* document, over the cache's, and in the app, the phone's pending writes     *)
(* lead to the same value.                                                    *)
(*                                                                            *)
(* The difficulty is in the positions.  The server has applied some of the    *)
(* pending writes and the cache reflects some of these; a break makes the     *)
(* phone forget how many, and all are sent again.  That the last write of a   *)
(* field wins is what makes a write applied twice harmless.                   *)
(******************************************************************************)
EXTENDS HoneyJar_proofs, WellFoundedInduction

\* One phone is the only one to change field f of account n: it is the only
\* phone there is, or the account's home and f is not what a payment changes.
Solely(d, n, f) == Devices = {d} \/ (HomeOnly(d, n) /\ f # "balance")

Touches(w, n, f) == w.doc = n /\ f \in w.mask

\* The value of field f of account n when the writes ws are over value b.
Latest(b, ws, n, f) ==
    LET i == LastWrite(ws, n, f) IN IF i # 0 THEN ws[i].value[f] ELSE b

\* What a view holds of it; a document that does not exist is a blank one.
Base(view, n, f) == (IF view[n] = NoDoc THEN BlankUser ELSE view[n])[f]

Before(d, k) == SubSeq(queue[d], 1, k)

\* What is applied is on the server, what is covered is in the cache, and with
\* the stored writes on top both are the same.
StoreCurrent(d, n, f) ==
    LET onServer == Base(docs, n, f)
        inCache == Base(cache[d], n, f)
    IN /\ Latest(onServer, Before(d, applied[d]), n, f) = onServer
       /\ Latest(inCache, Before(d, covered[d]), n, f) = inCache
       /\ cache[d][n] # NoDoc =>
              Latest(inCache, Before(d, durable[d]), n, f)
              = Latest(onServer, Before(d, durable[d]), n, f)

\* What an answered read has is what the server will have.
ReadsCurrent(d, n, f) ==
    \A i \in DOMAIN loads[d] :
        loads[d][i].ready /\ loads[d][i].view[n] # NoDoc =>
            loads[d][i].view[n][f] = Latest(Base(docs, n, f), queue[d], n, f)

\* So is what the app shows when no read is under way.
ListCurrent(d, n, f) ==
    loads[d] = <<>> /\ userDatabase[d][n] # NoDoc =>
        userDatabase[d][n][f] = Latest(Base(docs, n, f), queue[d], n, f)

\* A read waits for the writes issued before it, and with users who wait none
\* is issued after it.
ReadsWait(d) ==
    \A i \in DOMAIN loads[d] :
        /\ loads[d][i].behind = Len(queue[d]) - durable[d]
        /\ loads[d][i].ready => loads[d][i].behind = 0

\* A phone writes only balances to the accounts of other phones.
HomedWrite(d, w) ==
    \/ w.doc \in Users[d] \cup Newcomers[d]
    \/ ~w.set /\ w.mask = {"balance"}

Homed(d) ==
    /\ session[d] \in Users[d] \cup {NoName}
    /\ \A i \in DOMAIN queue[d] : HomedWrite(d, queue[d][i])

Current(d, n, f) ==
    StoreCurrent(d, n, f) /\ ReadsCurrent(d, n, f) /\ ListCurrent(d, n, f)

PhoneCurrent(d) ==
    /\ Homed(d) /\ ReadsWait(d)
    /\ \A n \in Names, f \in Fields : Solely(d, n, f) => Current(d, n, f)

AllCurrent == \A d \in Devices : PhoneCurrent(d)

--------------------------------------------------------------------------------
(* The last write of a field.                                                 *)

\* A set of natural numbers that is not empty has a least element.
LEMMA LeastNumber ==
    ASSUME NEW S \in SUBSET Nat, S # {}
    PROVE  \E x \in S : \A y \in S : x <= y
<1> DEFINE R == OpToRel(<, Nat)
<1>1. IsWellFoundedOn(R, Nat)
  BY NatLessThanWellFounded
<1>2. \A x, y \in Nat : y < x => <<y, x>> \in R
  BY Zenon DEF OpToRel
<1> HIDE DEF R
<1>3. PICK x \in S : \A y \in S : <<y, x>> \notin R
  BY <1>1, WFMin
<1>4. \A y \in S : ~(y < x)
  BY <1>2, <1>3
<1>5. QED
  BY <1>3, <1>4

\* A write after which none touches the field is the last one.
LEMMA LastIs ==
    ASSUME NEW W, NEW ws \in Seq(W), NEW n, NEW f, NEW i \in DOMAIN ws,
           Touches(ws[i], n, f),
           \A j \in DOMAIN ws : j > i => ~Touches(ws[j], n, f)
    PROVE  LastWrite(ws, n, f) = i
<1> DEFINE touching == {j \in DOMAIN ws : ws[j].doc = n /\ f \in ws[j].mask}
           Last(j) == \A k \in touching : k <= j
<1>1. DOMAIN ws = 1..Len(ws) /\ Len(ws) \in Nat
  OBVIOUS
<1>2. i \in touching /\ Last(i)
  BY <1>1 DEF Touches
<1>3. \A j \in touching : Last(j) => j = i
  BY <1>1, <1>2
<1>4. LastWrite(ws, n, f) = CHOOSE j \in touching : Last(j)
  BY <1>2 DEF LastWrite
<1>5. QED
  BY <1>2, <1>3, <1>4

\* Without one there is none.
LEMMA LastNone ==
    ASSUME NEW ws, NEW n, NEW f, \A j \in DOMAIN ws : ~Touches(ws[j], n, f)
    PROVE  LastWrite(ws, n, f) = 0
  BY DEF LastWrite, Touches

\* Of the writes that touch a field there is a last one.
LEMMA LastCases ==
    ASSUME NEW W, NEW ws \in Seq(W), NEW n, NEW f
    PROVE  \/ /\ \A j \in DOMAIN ws : ~Touches(ws[j], n, f)
              /\ LastWrite(ws, n, f) = 0
           \/ \E i \in DOMAIN ws :
                  /\ Touches(ws[i], n, f) /\ LastWrite(ws, n, f) = i
                  /\ \A j \in DOMAIN ws : j > i => ~Touches(ws[j], n, f)
<1>1. DOMAIN ws = 1..Len(ws) /\ Len(ws) \in Nat
  OBVIOUS
<1> DEFINE touching == {j \in DOMAIN ws : Touches(ws[j], n, f)}
           S == {Len(ws) - j : j \in touching}
<1>2. CASE touching = {}
  BY <1>2, LastNone
<1>3. CASE touching # {}
  <2>1. S \in SUBSET Nat /\ S # {}
    BY <1>1, <1>3
  <2>2. PICK x \in S : \A y \in S : x <= y
    BY <2>1, LeastNumber
  <2>3. PICK i \in touching : x = Len(ws) - i
    BY <2>2
  <2>4. ASSUME NEW j \in touching
        PROVE  j <= i
    <3>1. x <= Len(ws) - j
      BY <2>2
    <3>2. i \in 1..Len(ws) /\ j \in 1..Len(ws)
      BY <1>1
    <3>3. QED
      BY <1>1, <2>3, <3>1, <3>2
  <2>5. \A j \in DOMAIN ws : j > i => ~Touches(ws[j], n, f)
    BY <1>1, <2>4
  <2>6. QED
    BY <2>3, <2>5, LastIs
<1>4. QED
  BY <1>2, <1>3

\* The value after the writes, without speaking of the last one.
LEMMA LatestCases ==
    ASSUME NEW W, NEW ws \in Seq(W), NEW n, NEW f
    PROVE  /\ \A i \in DOMAIN ws :
                  /\ Touches(ws[i], n, f)
                  /\ \A j \in DOMAIN ws : j > i => ~Touches(ws[j], n, f)
                  => \A b : Latest(b, ws, n, f) = ws[i].value[f]
           /\ (\A j \in DOMAIN ws : ~Touches(ws[j], n, f))
              => \A b : Latest(b, ws, n, f) = b
           /\ \/ \A j \in DOMAIN ws : ~Touches(ws[j], n, f)
              \/ \E i \in DOMAIN ws :
                    /\ Touches(ws[i], n, f)
                    /\ \A j \in DOMAIN ws : j > i => ~Touches(ws[j], n, f)
<1>1. DOMAIN ws = 1..Len(ws) /\ Len(ws) \in Nat
  OBVIOUS
<1>2. ASSUME NEW i \in DOMAIN ws, Touches(ws[i], n, f),
             \A j \in DOMAIN ws : j > i => ~Touches(ws[j], n, f)
      PROVE  \A b : Latest(b, ws, n, f) = ws[i].value[f]
  <2>1. LastWrite(ws, n, f) = i /\ i # 0
    BY <1>1, <1>2, LastIs
  <2>2. QED
    BY <2>1 DEF Latest
<1>3. ASSUME \A j \in DOMAIN ws : ~Touches(ws[j], n, f)
      PROVE  \A b : Latest(b, ws, n, f) = b
  BY <1>3, LastNone DEF Latest
<1>4. QED
  BY <1>2, <1>3, LastCases

\* Nothing is written over nothing.
LEMMA LatestOfNone ==
    ASSUME NEW b, NEW ws, NEW n, NEW f
    PROVE  Latest(b, SubSeq(ws, 1, 0), n, f) = b
<1>1. SubSeq(ws, 1, 0) = <<>>
  OBVIOUS
<1>2. LastWrite(<<>>, n, f) = 0
  <2>1. \A j \in DOMAIN <<>> : ~Touches(<<>>[j], n, f)
    OBVIOUS
  <2>2. QED
    BY <2>1, LastNone
<1>3. QED
  BY <1>1, <1>2 DEF Latest

\* A prefix of a sequence.
LEMMA PrefixIs ==
    ASSUME NEW W, NEW ws \in Seq(W), NEW k \in 0..Len(ws)
    PROVE  /\ SubSeq(ws, 1, k) \in Seq(W) /\ Len(SubSeq(ws, 1, k)) = k
           /\ DOMAIN SubSeq(ws, 1, k) = 1..k
           /\ \A i \in 1..k : SubSeq(ws, 1, k)[i] = ws[i]
           /\ DOMAIN ws = 1..Len(ws) /\ Len(ws) \in Nat
  OBVIOUS

\* Bases that are the same after a prefix of the writes are so after all.
LEMMA LatestExtends ==
    ASSUME NEW W, NEW ws \in Seq(W), NEW k \in 0..Len(ws), NEW more \in Seq(W),
           Len(more) >= k, \A i \in 1..k : more[i] = ws[i],
           NEW n, NEW f, NEW b, NEW c,
           Latest(b, SubSeq(ws, 1, k), n, f) = Latest(c, SubSeq(ws, 1, k), n, f)
    PROVE  Latest(b, more, n, f) = Latest(c, more, n, f)
<1> DEFINE first == SubSeq(ws, 1, k)
<1>1. /\ first \in Seq(W) /\ DOMAIN first = 1..k
      /\ \A i \in 1..k : first[i] = ws[i]
      /\ DOMAIN more = 1..Len(more) /\ Len(more) \in Nat
  BY PrefixIs
<1> HIDE DEF first
<1>2. CASE \A j \in DOMAIN more : ~Touches(more[j], n, f)
  <2>1. \A j \in DOMAIN first : ~Touches(first[j], n, f)
    BY <1>1, <1>2
  <2>2. Latest(b, first, n, f) = b /\ Latest(c, first, n, f) = c
    BY <1>1, <2>1, LatestCases
  <2>3. QED
    BY <1>2, <2>2, LatestCases DEF first
<1>3. CASE ~\A j \in DOMAIN more : ~Touches(more[j], n, f)
  <2>1. PICK i \in DOMAIN more :
            /\ Touches(more[i], n, f)
            /\ \A j \in DOMAIN more : j > i => ~Touches(more[j], n, f)
    BY <1>3, LatestCases
  <2>2. QED
    BY <2>1, LatestCases
<1>4. QED
  BY <1>2, <1>3

\* One more write.
LEMMA LatestAppended ==
    ASSUME NEW W, NEW ws \in Seq(W), NEW more \in Seq(W),
           Len(more) = Len(ws) + 1, \A i \in 1..Len(ws) : more[i] = ws[i],
           NEW n, NEW f, NEW b
    PROVE  Latest(b, more, n, f) =
               IF Touches(more[Len(more)], n, f) THEN more[Len(more)].value[f]
               ELSE Latest(b, ws, n, f)
<1>1. /\ DOMAIN ws = 1..Len(ws) /\ Len(ws) \in Nat
      /\ DOMAIN more = 1..Len(more) /\ Len(more) \in DOMAIN more
  OBVIOUS
<1>2. CASE Touches(more[Len(more)], n, f)
  <2>1. \A j \in DOMAIN more : ~(j > Len(more))
    BY <1>1
  <2>2. QED
    BY <1>1, <1>2, <2>1, LatestCases
<1>3. CASE ~Touches(more[Len(more)], n, f)
  <2>1. CASE \A j \in DOMAIN ws : ~Touches(ws[j], n, f)
    <3>1. \A j \in DOMAIN more : ~Touches(more[j], n, f)
      BY <1>1, <1>3, <2>1
    <3>2. QED
      BY <1>3, <2>1, <3>1, LatestCases
  <2>2. CASE ~\A j \in DOMAIN ws : ~Touches(ws[j], n, f)
    <3>1. PICK i \in DOMAIN ws :
              /\ Touches(ws[i], n, f)
              /\ \A j \in DOMAIN ws : j > i => ~Touches(ws[j], n, f)
      BY <2>2, LatestCases
    <3>2. /\ i \in DOMAIN more /\ more[i] = ws[i]
          /\ \A j \in DOMAIN more : j > i => ~Touches(more[j], n, f)
      BY <1>1, <1>3, <3>1
    <3>3. Latest(b, ws, n, f) = ws[i].value[f]
      BY <3>1, LatestCases
    <3>4. Latest(b, more, n, f) = more[i].value[f]
      BY <3>1, <3>2, LatestCases
    <3>5. QED
      BY <1>3, <3>2, <3>3, <3>4
  <2>3. QED
    BY <2>1, <2>2
<1>4. QED
  BY <1>2, <1>3

\* The first write may be laid under the others instead.
LEMMA LatestOfTail ==
    ASSUME NEW W, NEW ws \in Seq(W), ws # <<>>, NEW n, NEW f, NEW b
    PROVE  Latest(b, ws, n, f) =
               Latest(IF Touches(ws[1], n, f) THEN ws[1].value[f] ELSE b,
                      Tail(ws), n, f)
<1> DEFINE rest == Tail(ws)
           c == IF Touches(ws[1], n, f) THEN ws[1].value[f] ELSE b
<1>1. /\ DOMAIN ws = 1..Len(ws) /\ Len(ws) \in Nat \ {0} /\ 1 \in DOMAIN ws
      /\ rest \in Seq(W) /\ DOMAIN rest = 1..(Len(ws) - 1)
      /\ \A j \in 1..(Len(ws) - 1) : rest[j] = ws[j + 1]
  OBVIOUS
<1> HIDE DEF rest
<1>2. CASE \A j \in DOMAIN rest : ~Touches(rest[j], n, f)
  <2>1. \A j \in DOMAIN ws : j > 1 => ~Touches(ws[j], n, f)
    <3>1. ASSUME NEW j \in DOMAIN ws, j > 1
          PROVE  ~Touches(ws[j], n, f)
      <4>1. j - 1 \in DOMAIN rest /\ rest[j - 1] = ws[j]
        BY <1>1, <3>1
      <4>2. QED
        BY <1>2, <4>1
    <3>2. QED
      BY <3>1
  <2>2. Latest(c, rest, n, f) = c
    BY <1>1, <1>2, LatestCases
  <2>3. CASE Touches(ws[1], n, f)
    BY <1>1, <2>1, <2>2, <2>3, LatestCases DEF rest
  <2>4. CASE ~Touches(ws[1], n, f)
    <3>1. \A j \in DOMAIN ws : ~Touches(ws[j], n, f)
      BY <1>1, <2>1, <2>4
    <3>2. QED
      BY <2>2, <2>4, <3>1, LatestCases DEF rest
  <2>5. QED
    BY <2>3, <2>4
<1>3. CASE ~\A j \in DOMAIN rest : ~Touches(rest[j], n, f)
  <2>1. PICK i \in DOMAIN rest :
            /\ Touches(rest[i], n, f)
            /\ \A j \in DOMAIN rest : j > i => ~Touches(rest[j], n, f)
    BY <1>1, <1>3, LatestCases
  <2>2. i + 1 \in DOMAIN ws /\ ws[i + 1] = rest[i]
    BY <1>1
  <2>3. \A j \in DOMAIN ws : j > i + 1 => ~Touches(ws[j], n, f)
    <3>1. ASSUME NEW j \in DOMAIN ws, j > i + 1
          PROVE  ~Touches(ws[j], n, f)
      <4>1. j - 1 \in DOMAIN rest /\ rest[j - 1] = ws[j] /\ j - 1 > i
        BY <1>1, <3>1
      <4>2. QED
        BY <2>1, <4>1
    <3>2. QED
      BY <3>1
  <2>4. Latest(b, ws, n, f) = ws[i + 1].value[f]
    BY <2>1, <2>2, <2>3, LatestCases
  <2>5. Latest(c, rest, n, f) = rest[i].value[f]
    BY <1>1, <2>1, LatestCases
  <2>6. QED
    BY <2>2, <2>4, <2>5 DEF rest
<1>4. QED
  BY <1>2, <1>3

\* A write that is in the base already may be dropped: the base has a prefix
\* of the writes, and the first one is of them.
LEMMA LatestDropped ==
    ASSUME NEW W, NEW ws \in Seq(W), NEW k \in 1..Len(ws), NEW n, NEW f, NEW b,
           Latest(b, SubSeq(ws, 1, k), n, f) = b
    PROVE  Latest(b, Tail(ws), n, f) = Latest(b, ws, n, f)
<1> DEFINE first == SubSeq(ws, 1, k)
           c == IF Touches(ws[1], n, f) THEN ws[1].value[f] ELSE b
<1>1. /\ ws # <<>> /\ k \in 0..Len(ws)
  OBVIOUS
<1>2. /\ first \in Seq(W) /\ DOMAIN first = 1..k
      /\ \A i \in 1..k : first[i] = ws[i]
      /\ DOMAIN ws = 1..Len(ws) /\ Len(ws) \in Nat
  BY <1>1, PrefixIs
<1>3. Latest(b, ws, n, f) = Latest(c, Tail(ws), n, f)
  BY <1>1, LatestOfTail
<1>4. Tail(ws) \in Seq(W)
  BY <1>1
<1>5. CASE \A j \in DOMAIN Tail(ws) : ~Touches(Tail(ws)[j], n, f)
  <2>1. \A j \in DOMAIN ws : j > 1 => ~Touches(ws[j], n, f)
    <3>1. ASSUME NEW j \in DOMAIN ws, j > 1
          PROVE  ~Touches(ws[j], n, f)
      <4>1. j - 1 \in DOMAIN Tail(ws) /\ Tail(ws)[j - 1] = ws[j]
        BY <1>1, <3>1
      <4>2. QED
        BY <1>5, <4>1
    <3>2. QED
      BY <3>1
  <2> HIDE DEF first
  <2>2. c = b
    <3>1. CASE Touches(ws[1], n, f)
      <4>1. /\ 1 \in DOMAIN first /\ first[1] = ws[1]
            /\ \A j \in DOMAIN first : j > 1 => ~Touches(first[j], n, f)
        BY <1>2, <2>1
      <4>2. Latest(b, first, n, f) = first[1].value[f]
        BY <1>2, <3>1, <4>1, LatestCases
      <4>3. QED
        BY <3>1, <4>1, <4>2 DEF first
    <3>2. QED
      BY <3>1
  <2>3. QED
    BY <1>3, <2>2
<1>6. CASE ~\A j \in DOMAIN Tail(ws) : ~Touches(Tail(ws)[j], n, f)
  <2>1. PICK i \in DOMAIN Tail(ws) :
            /\ Touches(Tail(ws)[i], n, f)
            /\ \A j \in DOMAIN Tail(ws) :
                   j > i => ~Touches(Tail(ws)[j], n, f)
    BY <1>4, <1>6, LatestCases
  <2>2. \A a : Latest(a, Tail(ws), n, f) = Tail(ws)[i].value[f]
    BY <1>4, <2>1, LatestCases
  <2>3. QED
    BY <1>3, <2>2
<1>7. QED
  BY <1>5, <1>6

\* The prefixes of a sequence and of its tail.
LEMMA PrefixOfTail ==
    ASSUME NEW W, NEW ws \in Seq(W), NEW j \in 1..Len(ws)
    PROVE  /\ SubSeq(Tail(ws), 1, j - 1) = Tail(SubSeq(ws, 1, j))
           /\ SubSeq(ws, 1, j) # <<>> /\ SubSeq(ws, 1, j)[1] = ws[1]
<1> DEFINE first == SubSeq(ws, 1, j)
           rest == SubSeq(Tail(ws), 1, j - 1)
<1>1. /\ first \in Seq(W) /\ Len(first) = j
      /\ \A i \in 1..j : first[i] = ws[i]
      /\ Len(ws) \in Nat /\ j \in Nat /\ j >= 1
  BY PrefixIs
<1>2. /\ Tail(ws) \in Seq(W) /\ Len(Tail(ws)) = Len(ws) - 1
      /\ \A i \in 1..(Len(ws) - 1) : Tail(ws)[i] = ws[i + 1]
  BY <1>1
<1>3. /\ rest \in Seq(W) /\ Len(rest) = j - 1
      /\ \A i \in 1..(j - 1) : rest[i] = ws[i + 1]
  <2>1. j - 1 \in 0..Len(Tail(ws))
    BY <1>1, <1>2
  <2>2. QED
    BY <1>1, <1>2, <2>1, PrefixIs
<1> HIDE DEF first, rest
<1>4. /\ first # <<>> /\ Tail(first) \in Seq(W) /\ Len(Tail(first)) = j - 1
      /\ \A i \in 1..(j - 1) : Tail(first)[i] = ws[i + 1]
  BY <1>1
<1>5. rest = Tail(first)
  BY <1>1, <1>3, <1>4
<1>6. QED
  BY <1>1, <1>4, <1>5 DEF first, rest

\* A prefix of a prefix.
LEMMA PrefixOfPrefix ==
    ASSUME NEW W, NEW ws \in Seq(W), NEW j \in 0..Len(ws), NEW k \in 0..j
    PROVE  SubSeq(SubSeq(ws, 1, j), 1, k) = SubSeq(ws, 1, k)
<1> DEFINE first == SubSeq(ws, 1, j)
<1>1. /\ first \in Seq(W) /\ Len(first) = j
      /\ \A i \in 1..j : first[i] = ws[i]
  BY PrefixIs
<1> HIDE DEF first
<1>2. /\ SubSeq(first, 1, k) \in Seq(W) /\ Len(SubSeq(first, 1, k)) = k
      /\ \A i \in 1..k : SubSeq(first, 1, k)[i] = first[i]
  BY <1>1, PrefixIs
<1>3. k \in 0..Len(ws)
  OBVIOUS
<1>4. /\ SubSeq(ws, 1, k) \in Seq(W) /\ Len(SubSeq(ws, 1, k)) = k
      /\ \A i \in 1..k : SubSeq(ws, 1, k)[i] = ws[i]
  BY <1>3, PrefixIs
<1>5. SubSeq(first, 1, k) = SubSeq(ws, 1, k)
  BY <1>1, <1>2, <1>4
<1>6. QED
  BY <1>5 DEF first

\* The two lemmas about a sequence's first write, for its prefixes.
LEMMA PrefixDropped ==
    ASSUME NEW W, NEW ws \in Seq(W), NEW j \in 1..Len(ws), NEW n, NEW f, NEW b
    PROVE  /\ Latest(b, SubSeq(ws, 1, j), n, f) =
                  Latest(IF Touches(ws[1], n, f) THEN ws[1].value[f] ELSE b,
                         SubSeq(Tail(ws), 1, j - 1), n, f)
           /\ \A k \in 1..j :
                  Latest(b, SubSeq(ws, 1, k), n, f) = b =>
                  Latest(b, SubSeq(Tail(ws), 1, j - 1), n, f)
                  = Latest(b, SubSeq(ws, 1, j), n, f)
<1>1. PICK first, rest :
          first = SubSeq(ws, 1, j) /\ rest = SubSeq(Tail(ws), 1, j - 1)
  OBVIOUS
<1>2. rest = Tail(first) /\ first # <<>> /\ first[1] = ws[1]
  BY <1>1, PrefixOfTail
<1>3. j \in 0..Len(ws)
  OBVIOUS
<1>4. first \in Seq(W) /\ Len(first) = j
  BY <1>1, <1>3, PrefixIs
<1>5. ASSUME NEW k \in 1..j, Latest(b, SubSeq(ws, 1, k), n, f) = b
      PROVE  Latest(b, rest, n, f) = Latest(b, first, n, f)
  <2>1. SubSeq(first, 1, k) = SubSeq(ws, 1, k)
    BY <1>1, <1>3, PrefixOfPrefix
  <2>2. k \in 1..Len(first) /\ Latest(b, SubSeq(first, 1, k), n, f) = b
    BY <1>4, <1>5, <2>1
  <2>3. QED
    BY <1>2, <1>4, <2>2, LatestDropped
<1>6. Latest(b, first, n, f) =
          Latest(IF Touches(first[1], n, f) THEN first[1].value[f] ELSE b,
                 Tail(first), n, f)
  BY <1>2, <1>4, LatestOfTail
<1>7. QED
  BY <1>1, <1>2, <1>5, <1>6

\* A field of a record with fields of another.
LEMMA PatchedField ==
    ASSUME NEW u, NEW fields, NEW v, NEW f \in Fields
    PROVE  Patched(u, fields, v)[f] = IF f \in fields THEN v[f] ELSE u[f]
<1>1. CASE f = "password"
  BY <1>1 DEF Patched
<1>2. CASE f = "balance"
  BY <1>2 DEF Patched
<1>3. CASE f = "investmentBalance"
  BY <1>3 DEF Patched
<1>4. CASE f = "friends"
  BY <1>4 DEF Patched
<1>5. CASE f = "cards"
  BY <1>5 DEF Patched
<1>6. CASE f = "stock"
  BY <1>6 DEF Patched
<1>7. QED
  BY <1>1, <1>2, <1>3, <1>4, <1>5, <1>6 DEF Fields

\* What a write does to a document.
LEMMA BaseApplied ==
    ASSUME NEW view \in ViewsOf(User), NEW w \in WritesOf(User),
           w.set => w.mask = Fields, Accepts(view, w),
           NEW n \in Names, NEW f \in Fields
    PROVE  /\ Base(Applied(view, w), n, f) =
                  IF Touches(w, n, f) THEN w.value[f] ELSE Base(view, n, f)
           /\ ~Touches(w, n, f) =>
                  (Applied(view, w)[n] = NoDoc <=> view[n] = NoDoc)
<1> DEFINE u == IF w.set THEN w.value ELSE Patched(view[w.doc], w.mask, w.value)
<1>1. /\ w.doc \in Names /\ w.value \in User /\ w.mask \in SUBSET Fields
      /\ view \in [Names -> User \cup {NoDoc}] /\ NoDoc \notin User
  BY SessionAssumption DEF WritesOf, ViewsOf
<1>2. Applied(view, w) = [view EXCEPT ![w.doc] = u]
  BY DEF Applied
<1>3. ~w.set => view[w.doc] \in User
  BY <1>1 DEF Accepts
<1>4. u \in User
  BY <1>1, <1>3, UserClosed, PatchedIn DEF Closed
<1>5. u[f] = IF f \in w.mask THEN w.value[f] ELSE view[w.doc][f]
  BY PatchedField
<1>6. ~w.set \/ f \in w.mask
  OBVIOUS
<1> HIDE DEF u
<1>7. CASE w.doc = n
  <2>1. Applied(view, w)[n] = u /\ u # NoDoc
    BY <1>1, <1>2, <1>4, <1>7
  <2>2. Base(Applied(view, w), n, f) = u[f]
    BY <2>1 DEF Base
  <2>3. CASE f \in w.mask
    BY <1>5, <1>7, <2>2, <2>3 DEF Touches
  <2>4. CASE f \notin w.mask
    <3>1. view[n] # NoDoc
      BY <1>1, <1>3, <1>6, <1>7, <2>4
    <3>2. Base(view, n, f) = view[n][f]
      BY <3>1 DEF Base
    <3>3. QED
      BY <1>5, <1>7, <2>1, <2>2, <2>4, <3>1, <3>2 DEF Touches
  <2>5. QED
    BY <2>3, <2>4
<1>8. CASE w.doc # n
  <2>1. Applied(view, w)[n] = view[n]
    BY <1>1, <1>2, <1>8
  <2>2. QED
    BY <1>8, <2>1 DEF Base, Touches
<1>9. QED
  BY <1>7, <1>8

\* What a query finds.
LEMMA OverlayField ==
    ASSUME NEW view, NEW ws, NEW n \in Names, NEW f \in Fields,
           Overlay(view, ws)[n] # NoDoc
    PROVE  /\ Exists(view, ws, n)
           /\ Overlay(view, ws)[n][f] = Latest(Base(view, n, f), ws, n, f)
<1>1. Exists(view, ws, n) /\ Overlay(view, ws)[n] = Overlaid(view, ws, n)
  BY DEF Overlay
<1>2. Source(view, ws, n, f)[f] = Latest(Base(view, n, f), ws, n, f)
  BY DEF Source, Latest, Base
<1>3. Overlaid(view, ws, n)[f] = Source(view, ws, n, f)[f]
  <2>1. CASE f = "password"
    BY <2>1 DEF Overlaid
  <2>2. CASE f = "balance"
    BY <2>2 DEF Overlaid
  <2>3. CASE f = "investmentBalance"
    BY <2>3 DEF Overlaid
  <2>4. CASE f = "friends"
    BY <2>4 DEF Overlaid
  <2>5. CASE f = "cards"
    BY <2>5 DEF Overlaid
  <2>6. CASE f = "stock"
    BY <2>6 DEF Overlaid
  <2>7. QED
    BY <2>1, <2>2, <2>3, <2>4, <2>5, <2>6 DEF Fields
<1>4. QED
  BY <1>1, <1>2, <1>3

\* Where an account has been created, its fields do not depend on the base.
LEMMA CreatedIndependent ==
    ASSUME NEW ws \in Seq(WritesOf(User)), NEW n, NEW f \in Fields,
           NEW i \in DOMAIN ws, ws[i].doc = n, ws[i].mask = Fields, NEW b, NEW c
    PROVE  Latest(b, ws, n, f) = Latest(c, ws, n, f)
<1>1. Touches(ws[i], n, f)
  BY DEF Touches
<1>2. PICK j \in DOMAIN ws :
          /\ Touches(ws[j], n, f)
          /\ \A k \in DOMAIN ws : k > j => ~Touches(ws[k], n, f)
  BY <1>1, LatestCases
<1>3. QED
  BY <1>2, LatestCases

\* Two sequences of writes, one after the other.
LEMMA LatestConcat ==
    ASSUME NEW W, NEW ws \in Seq(W), NEW more \in Seq(W), NEW n, NEW f, NEW b
    PROVE  Latest(b, ws \o more, n, f)
           = Latest(Latest(b, ws, n, f), more, n, f)
<1> DEFINE all == ws \o more
<1>1. /\ DOMAIN ws = 1..Len(ws) /\ Len(ws) \in Nat
      /\ DOMAIN more = 1..Len(more) /\ Len(more) \in Nat
      /\ all \in Seq(W) /\ DOMAIN all = 1..(Len(ws) + Len(more))
      /\ \A i \in 1..Len(ws) : all[i] = ws[i]
      /\ \A i \in 1..Len(more) : all[Len(ws) + i] = more[i]
  OBVIOUS
<1>0. all \in Seq(W)
  BY <1>1
<1> HIDE DEF all
<1>2. ASSUME NEW j \in DOMAIN all, j > Len(ws)
      PROVE  j - Len(ws) \in DOMAIN more /\ all[j] = more[j - Len(ws)]
  <2>1. j - Len(ws) \in 1..Len(more) /\ Len(ws) + (j - Len(ws)) = j
    BY <1>1, <1>2
  <2>2. QED
    BY <1>1, <2>1
<1>3. CASE \A j \in DOMAIN more : ~Touches(more[j], n, f)
  <2>1. \A a : Latest(a, more, n, f) = a
    BY <1>3, LatestCases
  <2>2. \A j \in DOMAIN all : j > Len(ws) => ~Touches(all[j], n, f)
    BY <1>2, <1>3
  <2>3. CASE \A j \in DOMAIN ws : ~Touches(ws[j], n, f)
    <3>1. \A j \in DOMAIN all : ~Touches(all[j], n, f)
      BY <1>1, <2>2, <2>3
    <3>2. Latest(b, all, n, f) = b
      BY <1>0, <3>1, LatestCases
    <3>3. Latest(b, ws, n, f) = b
      BY <2>3, LatestCases
    <3>4. QED
      BY <2>1, <3>2, <3>3 DEF all
  <2>4. CASE ~\A j \in DOMAIN ws : ~Touches(ws[j], n, f)
    <3>1. PICK i \in DOMAIN ws :
              /\ Touches(ws[i], n, f)
              /\ \A j \in DOMAIN ws : j > i => ~Touches(ws[j], n, f)
      BY <2>4, LatestCases
    <3>2. /\ i \in DOMAIN all /\ all[i] = ws[i]
          /\ \A j \in DOMAIN all : j > i => ~Touches(all[j], n, f)
      BY <1>1, <2>2, <3>1
    <3>3. Latest(b, all, n, f) = all[i].value[f]
      <4>1. Touches(all[i], n, f)
        BY <3>1, <3>2
      <4>2. QED
        BY <1>0, <3>2, <4>1, LatestCases
    <3>4. Latest(b, ws, n, f) = ws[i].value[f]
      BY <3>1, LatestCases
    <3>5. QED
      BY <2>1, <3>2, <3>3, <3>4 DEF all
  <2>5. QED
    BY <2>3, <2>4
<1>4. CASE ~\A j \in DOMAIN more : ~Touches(more[j], n, f)
  <2>1. PICK i \in DOMAIN more :
            /\ Touches(more[i], n, f)
            /\ \A j \in DOMAIN more : j > i => ~Touches(more[j], n, f)
    BY <1>4, LatestCases
  <2>2. \A a : Latest(a, more, n, f) = more[i].value[f]
    BY <2>1, LatestCases
  <2>3. PICK k : k = Len(ws) + i
    OBVIOUS
  <2>4. k \in DOMAIN all /\ all[k] = more[i] /\ k > Len(ws)
    BY <1>1, <2>3
  <2>5. ASSUME NEW j \in DOMAIN all, j > k
        PROVE  ~Touches(all[j], n, f)
    <3>1. j > Len(ws) /\ j - Len(ws) > i
      BY <1>1, <2>3, <2>4, <2>5
    <3>2. QED
      BY <1>2, <2>1, <3>1
  <2>6. Latest(b, all, n, f) = all[k].value[f]
    <3>1. Touches(all[k], n, f)
      BY <2>1, <2>4
    <3>2. QED
      BY <1>0, <2>4, <2>5, <3>1, LatestCases
  <2>7. QED
    BY <2>2, <2>4, <2>6 DEF all
<1>5. QED
  BY <1>3, <1>4

\* Two writes and perhaps a third, as a payment makes them.
LEMMA LatestOfFew ==
    ASSUME NEW W, NEW ws \in Seq(W), NEW n, NEW f, NEW b
    PROVE  /\ Len(ws) = 1 =>
                 Latest(b, ws, n, f) =
                    IF Touches(ws[1], n, f) THEN ws[1].value[f] ELSE b
           /\ Len(ws) = 2 =>
                 Latest(b, ws, n, f) =
                    IF Touches(ws[2], n, f) THEN ws[2].value[f]
                    ELSE IF Touches(ws[1], n, f) THEN ws[1].value[f] ELSE b
           /\ Len(ws) = 3 =>
                 Latest(b, ws, n, f) =
                    IF Touches(ws[3], n, f) THEN ws[3].value[f]
                    ELSE IF Touches(ws[2], n, f) THEN ws[2].value[f]
                    ELSE IF Touches(ws[1], n, f) THEN ws[1].value[f] ELSE b
<1>1. DOMAIN ws = 1..Len(ws) /\ Len(ws) \in Nat
  OBVIOUS
<1>2. \/ \A j \in DOMAIN ws : ~Touches(ws[j], n, f)
      \/ \E i \in DOMAIN ws :
            /\ Touches(ws[i], n, f)
            /\ \A j \in DOMAIN ws : j > i => ~Touches(ws[j], n, f)
  BY LatestCases
<1>3. CASE \A j \in DOMAIN ws : ~Touches(ws[j], n, f)
  <2>1. Latest(b, ws, n, f) = b
    BY <1>3, LatestCases
  <2>2. QED
    BY <1>1, <1>3, <2>1
<1>4. CASE ~\A j \in DOMAIN ws : ~Touches(ws[j], n, f)
  <2>1. PICK i \in DOMAIN ws :
            /\ Touches(ws[i], n, f)
            /\ \A j \in DOMAIN ws : j > i => ~Touches(ws[j], n, f)
    BY <1>2, <1>4
  <2>2. Latest(b, ws, n, f) = ws[i].value[f]
    BY <2>1, LatestCases
  <2>3. ASSUME Len(ws) \in {1, 2, 3}
        PROVE  i = 1 \/ (i = 2 /\ Len(ws) >= 2) \/ (i = 3 /\ Len(ws) = 3)
    BY <1>1, <2>3
  <2>4. QED
    BY <1>1, <2>1, <2>2, <2>3
<1>5. QED
  BY <1>3, <1>4

\* Where a write touches a field, its value does not depend on the base.
LEMMA TouchedIndependent ==
    ASSUME NEW W, NEW ws \in Seq(W), NEW n, NEW f,
           NEW i \in DOMAIN ws, Touches(ws[i], n, f), NEW b, NEW c
    PROVE  Latest(b, ws, n, f) = Latest(c, ws, n, f)
<1>1. PICK j \in DOMAIN ws :
          /\ Touches(ws[j], n, f)
          /\ \A k \in DOMAIN ws : k > j => ~Touches(ws[k], n, f)
  BY LatestCases
<1>2. QED
  BY <1>1, LatestCases

--------------------------------------------------------------------------------
(* The steps of the phone's own SDK.                                          *)

\* The positions and the queue, with the names the steps below use.
LEMMA Queue ==
    ASSUME Inv(User), NEW d \in Devices
    PROVE  /\ queue[d] \in Seq(WritesOf(User))
           /\ applied[d] \in 0..Len(queue[d])
           /\ covered[d] \in 0..Len(queue[d])
           /\ durable[d] \in 0..Len(queue[d])
           /\ loads[d] \in Seq(LoadsOf(User))
           /\ DOMAIN loads[d] = 1..Len(loads[d]) /\ Len(loads[d]) \in Nat
  BY Types, Positions

LEMMA PersistCurrent ==
    ASSUME Inv(User), NEW d \in Devices, Persist(d), UNCHANGED appVars,
           ReadsWait(d)
    PROVE  /\ ReadsWait(d)' /\ DOMAIN loads'[d] = DOMAIN loads[d]
           /\ \A n \in Names, f \in Fields :
                  Current(d, n, f) => Current(d, n, f)'
<1> DEFINE ws == queue[d]
           moved(i) == MovedUp(loads[d][i])
<1>1. /\ durable[d] < Len(ws) /\ durable'[d] = durable[d] + 1
      /\ loads'[d] = [i \in DOMAIN loads[d] |-> moved(i)]
      /\ UNCHANGED <<docs, cache, queue, applied, covered, userDatabase>>
  BY Types DEF Persist, appVars
<1>2. /\ ws \in Seq(WritesOf(User)) /\ durable[d] \in 0..Len(ws)
      /\ Len(ws) \in Nat
  BY Queue
<1>3. ASSUME NEW i \in DOMAIN loads[d]
      PROVE  /\ moved(i).ready = loads[d][i].ready
             /\ moved(i).view = loads[d][i].view
             /\ moved(i).behind = Len(ws) - durable'[d]
             /\ ~loads[d][i].ready
  <2>1. loads[d][i] \in LoadsOf(User)
    BY Queue
  <2>2. loads[d][i].behind = Len(ws) - durable[d]
    BY DEF ReadsWait
  <2>3. loads[d][i].ready => loads[d][i].behind = 0
    BY DEF ReadsWait
  <2>4. QED
    BY <1>1, <1>2, <2>1, <2>2, <2>3 DEF MovedUp, LoadsOf
<1> HIDE DEF moved
<1>4. DOMAIN loads'[d] = DOMAIN loads[d]
  BY <1>1
<1>5. ReadsWait(d)'
  BY <1>1, <1>3, <1>4 DEF ReadsWait
<1>6. ASSUME NEW n \in Names, NEW f \in Fields, Current(d, n, f)
      PROVE  Current(d, n, f)'
  <2>1. PICK s, c : s = Base(docs, n, f) /\ c = Base(cache[d], n, f)
    OBVIOUS
  <2>2. ASSUME cache[d][n] # NoDoc
        PROVE  Latest(c, SubSeq(ws, 1, durable[d] + 1), n, f)
               = Latest(s, SubSeq(ws, 1, durable[d] + 1), n, f)
    <3>1. Latest(c, SubSeq(ws, 1, durable[d]), n, f)
          = Latest(s, SubSeq(ws, 1, durable[d]), n, f)
      BY <1>6, <2>1, <2>2 DEF Current, StoreCurrent, Before
    <3>2. PICK more : more = SubSeq(ws, 1, durable[d] + 1)
      OBVIOUS
    <3>3. durable[d] + 1 \in 0..Len(ws)
      BY <1>1, <1>2
    <3>4. /\ more \in Seq(WritesOf(User)) /\ Len(more) = durable[d] + 1
          /\ \A i \in 1..durable[d] : more[i] = ws[i]
      BY <1>2, <3>2, <3>3, PrefixIs
    <3>5. Len(more) >= durable[d]
      BY <1>2, <3>4
    <3>6. Latest(c, more, n, f) = Latest(s, more, n, f)
      <4>1. PICK k, q : k = durable[d] /\ q = ws
        OBVIOUS
      <4>2. /\ q \in Seq(WritesOf(User)) /\ k \in 0..Len(q)
            /\ Len(more) >= k /\ \A i \in 1..k : more[i] = q[i]
            /\ Latest(c, SubSeq(q, 1, k), n, f)
               = Latest(s, SubSeq(q, 1, k), n, f)
        BY <1>2, <3>1, <3>4, <3>5, <4>1
      <4>3. QED
        BY <3>4, <4>2, LatestExtends
    <3>7. QED
      BY <3>2, <3>6
  <2>3. StoreCurrent(d, n, f)'
    BY <1>1, <1>6, <2>1, <2>2 DEF Current, StoreCurrent, Before, Base
  <2>4. ReadsCurrent(d, n, f)'
    BY <1>1, <1>3, <1>4, <1>6 DEF Current, ReadsCurrent, Base
  <2>5. ListCurrent(d, n, f)'
    <3>1. loads'[d] = <<>> => loads[d] = <<>>
      BY <1>4, Queue
    <3>2. QED
      BY <1>1, <1>6, <3>1 DEF Current, ListCurrent, Base
  <2>6. QED
    BY <2>3, <2>4, <2>5 DEF Current
<1>7. QED
  BY <1>4, <1>5, <1>6

\* A write the server applies: over its document the pending writes lead where
\* they led before.
LEMMA CommitCurrent ==
    ASSUME Inv(User), StoreBacked, NEW d \in Devices, Commit(d),
           UNCHANGED appVars, ReadsWait(d)
    PROVE  /\ ReadsWait(d)'
           /\ \A n \in Names, f \in Fields :
                  Current(d, n, f) => Current(d, n, f)'
<1> DEFINE w == queue[d][applied[d] + 1]
<1>1. /\ applied[d] < durable[d] /\ applied'[d] = applied[d] + 1
      /\ Accepts(docs, w) /\ docs' = Applied(docs, w)
      /\ UNCHANGED <<cache, queue, durable, covered, loads, userDatabase>>
  BY Types DEF Commit, appVars
<1>2. PICK q, a, k : q = queue[d] /\ a = applied[d] /\ k = durable[d]
  OBVIOUS
<1>3. /\ q \in Seq(WritesOf(User)) /\ a \in 0..Len(q) /\ k \in 0..Len(q)
      /\ a < k /\ DOMAIN q = 1..Len(q) /\ Len(q) \in Nat
  BY <1>1, <1>2, Queue
<1>4. a + 1 \in DOMAIN q /\ w = q[a + 1] /\ a + 1 \in 0..Len(q)
  BY <1>2, <1>3
<1>5. w \in WritesOf(User) /\ (w.set => w.mask = Fields)
  BY <1>2, <1>3, <1>4, WriteType DEF StoreBacked, QueueBacked, WriteBacked
<1>6. docs \in ViewsOf(User)
  BY Types
<1> HIDE DEF w
<1>7. ReadsWait(d)'
  BY <1>1 DEF ReadsWait
<1>8. ASSUME NEW n \in Names, NEW f \in Fields, Current(d, n, f)
      PROVE  Current(d, n, f)'
  <2>1. PICK s, t, c : /\ s = Base(docs, n, f) /\ t = Base(docs', n, f)
                       /\ c = Base(cache[d], n, f)
    OBVIOUS
  <2>2. t = IF Touches(w, n, f) THEN w.value[f] ELSE s
    BY <1>1, <1>5, <1>6, <2>1, BaseApplied
  <2>3. Latest(s, SubSeq(q, 1, a), n, f) = s
    BY <1>2, <1>8, <2>1 DEF Current, StoreCurrent, Before
  <2>4. PICK some, more : some = SubSeq(q, 1, a) /\ more = SubSeq(q, 1, a + 1)
    OBVIOUS
  <2>5. /\ some \in Seq(WritesOf(User)) /\ Len(some) = a
        /\ \A i \in 1..a : some[i] = q[i]
    BY <1>3, <2>4, PrefixIs
  <2>6. /\ more \in Seq(WritesOf(User)) /\ Len(more) = a + 1
        /\ \A i \in 1..(a + 1) : more[i] = q[i]
    BY <1>3, <1>4, <2>4, PrefixIs
  <2>7. /\ Len(more) = Len(some) + 1 /\ more[Len(more)] = w
        /\ \A i \in 1..Len(some) : more[i] = some[i]
    BY <1>3, <1>4, <2>5, <2>6
  <2>8. \A b : Latest(b, more, n, f) =
                   IF Touches(w, n, f) THEN w.value[f]
                   ELSE Latest(b, some, n, f)
    BY <2>5, <2>6, <2>7, LatestAppended
  <2>9. Latest(s, more, n, f) = t /\ Latest(t, more, n, f) = t
    BY <2>2, <2>3, <2>4, <2>8
  <2>10. Latest(t, SubSeq(q, 1, a + 1), n, f)
         = Latest(s, SubSeq(q, 1, a + 1), n, f)
    BY <2>4, <2>9
  <2>11. Latest(t, q, n, f) = Latest(s, q, n, f)
    BY <1>3, <1>4, <2>10, LatestExtends
  <2>12. Latest(t, SubSeq(q, 1, k), n, f) = Latest(s, SubSeq(q, 1, k), n, f)
    <3>1. PICK stored : stored = SubSeq(q, 1, k)
      OBVIOUS
    <3>2. /\ stored \in Seq(WritesOf(User)) /\ Len(stored) = k
          /\ \A i \in 1..k : stored[i] = q[i]
      BY <1>3, <3>1, PrefixIs
    <3>3. Len(stored) >= a + 1 /\ \A i \in 1..(a + 1) : stored[i] = q[i]
      BY <1>3, <3>2
    <3>4. Latest(t, stored, n, f) = Latest(s, stored, n, f)
      BY <1>3, <1>4, <2>10, <3>2, <3>3, LatestExtends
    <3>5. QED
      BY <3>1, <3>4
  <2>13. StoreCurrent(d, n, f)'
    <3>1. Latest(t, SubSeq(q, 1, a + 1), n, f) = t
      BY <2>4, <2>9
    <3>2. Latest(c, SubSeq(q, 1, covered[d]), n, f) = c
      BY <1>2, <1>8, <2>1 DEF Current, StoreCurrent, Before
    <3>3. cache[d][n] # NoDoc =>
              Latest(c, SubSeq(q, 1, k), n, f) = Latest(s, SubSeq(q, 1, k), n, f)
      BY <1>2, <1>8, <2>1 DEF Current, StoreCurrent, Before
    <3>4. /\ Base(docs, n, f)' = t /\ Base(cache[d], n, f)' = c
          /\ Before(d, applied[d])' = SubSeq(q, 1, a + 1)
          /\ Before(d, covered[d])' = SubSeq(q, 1, covered[d])
          /\ Before(d, durable[d])' = SubSeq(q, 1, k)
      BY <1>1, <1>2, <2>1 DEF Base, Before
    <3>5. QED
      BY <1>1, <2>12, <3>1, <3>2, <3>3, <3>4 DEF StoreCurrent
  <2>14. Latest(Base(docs, n, f), queue[d], n, f)'
         = Latest(Base(docs, n, f), queue[d], n, f)
    BY <1>1, <1>2, <2>1, <2>11 DEF Base
  <2>15. ReadsCurrent(d, n, f)' /\ ListCurrent(d, n, f)'
    BY <1>1, <1>8, <2>14 DEF Current, ReadsCurrent, ListCurrent
  <2>16. QED
    BY <2>13, <2>15 DEF Current
<1>9. QED
  BY <1>7, <1>8

\* A break: all is sent again, over documents that have some of it already.
LEMMA BreakCurrent ==
    ASSUME Inv(User), NEW d \in Devices, Break(d), UNCHANGED appVars,
           ReadsWait(d)
    PROVE  /\ ReadsWait(d)'
           /\ \A n \in Names, f \in Fields :
                  Current(d, n, f) => Current(d, n, f)'
<1>1. /\ applied'[d] = 0 /\ covered'[d] = 0
      /\ UNCHANGED <<docs, cache, queue, durable, loads, userDatabase>>
  BY Types DEF Break, appVars
<1>2. ReadsWait(d)'
  BY <1>1 DEF ReadsWait
<1>3. ASSUME NEW n \in Names, NEW f \in Fields, Current(d, n, f)
      PROVE  Current(d, n, f)'
  <2>1. \A b : Latest(b, SubSeq(queue[d], 1, 0), n, f) = b
    BY LatestOfNone
  <2>2. StoreCurrent(d, n, f)'
    BY <1>1, <1>3, <2>1 DEF Current, StoreCurrent, Before, Base
  <2>3. ReadsCurrent(d, n, f)' /\ ListCurrent(d, n, f)'
    BY <1>1, <1>3 DEF Current, ReadsCurrent, ListCurrent, Base
  <2>4. QED
    BY <2>2, <2>3 DEF Current
<1>4. QED
  BY <1>2, <1>3

\* An answer takes the first write off the queue and, unless a read brought it
\* already, into the cache.
LEMMA AckCurrent ==
    ASSUME Inv(User), StoreBacked, NEW d \in Devices, Ack(d),
           UNCHANGED appVars, ReadsWait(d)
    PROVE  /\ ReadsWait(d)'
           /\ \A n \in Names, f \in Fields :
                  Current(d, n, f) => Current(d, n, f)'
<1>1. PICK q, a, k, v, w : /\ q = queue[d] /\ a = applied[d] /\ k = durable[d]
                           /\ v = covered[d] /\ w = q[1]
  OBVIOUS
<1>2. /\ a > 0 /\ applied'[d] = a - 1 /\ durable'[d] = k - 1
      /\ covered'[d] = IF v > 0 THEN v - 1 ELSE v
      /\ cache'[d] = IF v > 0 THEN cache[d] ELSE Applied(cache[d], w)
      /\ queue'[d] = Tail(q)
      /\ UNCHANGED <<docs, loads, userDatabase>>
  BY <1>1, Types DEF Ack, appVars
<1>3. /\ q \in Seq(WritesOf(User)) /\ a \in 1..Len(q) /\ k \in 1..Len(q)
      /\ v \in 0..a /\ a <= k /\ k \in Nat /\ a \in Nat /\ v \in Nat
      /\ Len(q) \in Nat
      /\ q # <<>> /\ 1 \in DOMAIN q
  BY <1>1, <1>2, Queue, Positions
<1>4. /\ w \in WritesOf(User) /\ (w.set => w.mask = Fields)
      /\ ~w.set => w.doc \in KnownBefore(d, 1)
  BY <1>1, <1>3, WriteType DEF StoreBacked, QueueBacked, WriteBacked
<1>5. cache[d] \in ViewsOf(User) /\ Accepts(cache[d], w)
  <2>1. CreatedBefore(queue[d], 1) = {}
    BY <1>1, <1>3 DEF CreatedBefore
  <2>2. QED
    BY <1>4, <2>1, Types DEF Accepts, KnownBefore, Present
<1>6. ReadsWait(d)'
  <2>1. Len(Tail(q)) = Len(q) - 1
    BY <1>3
  <2>2. Len(Tail(q)) - (k - 1) = Len(q) - k
    BY <1>3, <2>1
  <2>3. QED
    BY <1>1, <1>2, <2>2 DEF ReadsWait
<1>7. ASSUME NEW n \in Names, NEW f \in Fields, Current(d, n, f)
      PROVE  Current(d, n, f)'
  <2>1. PICK s, c, x : /\ s = Base(docs, n, f) /\ c = Base(cache[d], n, f)
                       /\ x = Base(cache'[d], n, f)
    OBVIOUS
  <2>2. /\ Latest(s, SubSeq(q, 1, a), n, f) = s
        /\ Latest(c, SubSeq(q, 1, v), n, f) = c
        /\ cache[d][n] # NoDoc =>
               Latest(c, SubSeq(q, 1, k), n, f)
               = Latest(s, SubSeq(q, 1, k), n, f)
    BY <1>1, <1>7, <2>1 DEF Current, StoreCurrent, Before
  <2>3. Latest(s, SubSeq(Tail(q), 1, a - 1), n, f) = s
    <3>1. a \in 1..a
      BY <1>3
    <3>2. QED
      BY <1>3, <2>2, <3>1, PrefixDropped
  <2>4. Latest(s, Tail(q), n, f) = Latest(s, q, n, f)
    BY <1>3, <2>2, LatestDropped
  <2>5. Latest(s, SubSeq(Tail(q), 1, k - 1), n, f)
        = Latest(s, SubSeq(q, 1, k), n, f)
    <3>1. a \in 1..k
      BY <1>3
    <3>2. QED
      BY <1>3, <2>2, <3>1, PrefixDropped
  <2>6. /\ Latest(x, SubSeq(Tail(q), 1, covered'[d]), n, f) = x
        /\ cache'[d][n] # NoDoc =>
               Latest(x, SubSeq(Tail(q), 1, k - 1), n, f)
               = Latest(s, SubSeq(q, 1, k), n, f)
    <3>1. CASE v > 0
      <4>1. x = c /\ covered'[d] = v - 1 /\ cache'[d] = cache[d]
        BY <1>2, <2>1, <3>1
      <4>2. /\ v \in 1..Len(q) /\ v \in 1..v /\ v \in 1..k
        BY <1>3, <3>1
      <4>3. Latest(c, SubSeq(Tail(q), 1, v - 1), n, f) = c
        <5>1. Latest(c, SubSeq(Tail(q), 1, v - 1), n, f)
              = Latest(c, SubSeq(q, 1, v), n, f)
          BY <1>3, <2>2, <4>2, PrefixDropped
        <5>2. QED
          BY <2>2, <5>1
      <4>4. Latest(c, SubSeq(Tail(q), 1, k - 1), n, f)
            = Latest(c, SubSeq(q, 1, k), n, f)
        BY <1>3, <2>2, <4>2, PrefixDropped
      <4>5. QED
        BY <2>2, <4>1, <4>3, <4>4
    <3>2. CASE ~(v > 0)
      <4>1. covered'[d] = 0 /\ cache'[d] = Applied(cache[d], w)
        BY <1>2, <1>3, <3>2
      <4>2. Latest(x, SubSeq(Tail(q), 1, 0), n, f) = x
        BY LatestOfNone
      <4>3. /\ x = IF Touches(w, n, f) THEN w.value[f] ELSE c
            /\ ~Touches(w, n, f) =>
                   (cache'[d][n] = NoDoc <=> cache[d][n] = NoDoc)
        BY <1>4, <1>5, <2>1, <4>1, BaseApplied
      <4>4. Latest(c, SubSeq(q, 1, k), n, f)
            = Latest(x, SubSeq(Tail(q), 1, k - 1), n, f)
        <5>1. Latest(c, SubSeq(q, 1, k), n, f) =
                  Latest(IF Touches(q[1], n, f) THEN q[1].value[f] ELSE c,
                         SubSeq(Tail(q), 1, k - 1), n, f)
          BY <1>3, PrefixDropped
        <5>2. QED
          BY <1>1, <4>3, <5>1
      <4>5. CASE Touches(w, n, f)
        <5>1. PICK stored : stored = SubSeq(q, 1, k)
          OBVIOUS
        <5>2. k \in 0..Len(q)
          BY <1>3
        <5>3. /\ stored \in Seq(WritesOf(User)) /\ 1 \in DOMAIN stored
              /\ stored[1] = w
          BY <1>1, <1>3, <5>1, <5>2, PrefixIs
        <5>4. Latest(c, stored, n, f) = Latest(s, stored, n, f)
          BY <4>5, <5>3, TouchedIndependent
        <5>5. QED
          BY <4>1, <4>2, <4>4, <5>1, <5>4
      <4>6. CASE ~Touches(w, n, f)
        BY <2>2, <4>1, <4>2, <4>3, <4>4, <4>6
      <4>7. QED
        BY <4>5, <4>6
    <3>3. QED
      BY <3>1, <3>2
  <2>7. /\ Base(docs, n, f)' = s /\ Base(cache[d], n, f)' = x
        /\ Before(d, applied[d])' = SubSeq(Tail(q), 1, a - 1)
        /\ Before(d, covered[d])' = SubSeq(Tail(q), 1, covered'[d])
        /\ Before(d, durable[d])' = SubSeq(Tail(q), 1, k - 1)
    BY <1>2, <2>1 DEF Base, Before
  <2>8. StoreCurrent(d, n, f)'
    BY <2>3, <2>5, <2>6, <2>7 DEF StoreCurrent
  <2>9. Latest(Base(docs, n, f), queue[d], n, f)'
        = Latest(Base(docs, n, f), queue[d], n, f)
    BY <1>1, <1>2, <2>1, <2>4, <2>7
  <2>10. ReadsCurrent(d, n, f)' /\ ListCurrent(d, n, f)'
    BY <1>2, <1>7, <2>9 DEF Current, ReadsCurrent, ListCurrent
  <2>11. QED
    BY <2>8, <2>10 DEF Current
<1>8. QED
  BY <1>6, <1>7

\* A read that is answered waits for nothing: all pending writes are stored.
LEMMA AnsweredReads ==
    ASSUME Inv(User), NEW d \in Devices, ReadsWait(d),
           NEW i \in DOMAIN loads[d], NEW view, Answered(d, i, view)
    PROVE  /\ Persisted(d) = queue[d]
           /\ Before(d, durable[d]) = queue[d]
           /\ loads'[d] # <<>>
           /\ DOMAIN loads'[d] = DOMAIN loads[d]
           /\ \A j \in DOMAIN loads[d] :
                  /\ loads'[d][j].behind = loads[d][j].behind
                  /\ loads'[d][j].behind = 0
                  /\ loads'[d][j].ready /\ ~loads[d][j].ready => j = i
                  /\ j # i => loads'[d][j] = loads[d][j]
                  /\ j = i => loads'[d][j].view = Overlay(view, Persisted(d))
<1>1. PICK r : r = [[loads[d][i] EXCEPT !.ready = TRUE]
                      EXCEPT !.view = Overlay(view, Persisted(d))]
  OBVIOUS
<1>2. /\ loads[d] \in Seq(LoadsOf(User)) /\ loads[d][i] \in LoadsOf(User)
      /\ DOMAIN loads[d] = 1..Len(loads[d]) /\ Len(loads[d]) \in Nat
  BY Queue
<1>3. loads'[d] = [loads[d] EXCEPT ![i] = r]
  BY <1>1, <1>2, Types DEF Answered
<1>4. /\ r.behind = loads[d][i].behind /\ r.ready
      /\ r.view = Overlay(view, Persisted(d))
  BY <1>1, <1>2 DEF LoadsOf
<1>5. /\ loads[d][i].behind = 0
      /\ \A j \in DOMAIN loads[d] :
             loads[d][j].behind = Len(queue[d]) - durable[d]
  BY DEF Answered, ReadsWait
<1>6. Len(queue[d]) = durable[d]
  BY <1>5, Positions
<1>7. SubSeq(queue[d], 1, durable[d]) = queue[d]
  BY <1>6, Queue
<1>8. /\ DOMAIN loads'[d] = DOMAIN loads[d]
      /\ \A j \in DOMAIN loads[d] :
             loads'[d][j] = IF j = i THEN r ELSE loads[d][j]
  BY <1>2, <1>3
<1>9. loads'[d] # <<>>
  BY <1>2, <1>8
<1>10. QED
  BY <1>4, <1>5, <1>7, <1>8, <1>9 DEF Persisted, Before

\* A read answered from a view that, with all pending writes on top, shows what
\* the server will have.
LEMMA AnswerCurrent ==
    ASSUME Inv(User), NEW d \in Devices, ReadsWait(d),
           NEW i \in DOMAIN loads[d], NEW view, Answered(d, i, view),
           UNCHANGED <<docs, queue, durable>>
    PROVE  /\ ReadsWait(d)'
           /\ \A n \in Names, f \in Fields :
                  /\ ReadsCurrent(d, n, f)
                  /\ Exists(view, queue[d], n) =>
                         Latest(Base(view, n, f), queue[d], n, f)
                         = Latest(Base(docs, n, f), queue[d], n, f)
                  => ReadsCurrent(d, n, f)' /\ ListCurrent(d, n, f)'
<1>1. /\ Persisted(d) = queue[d] /\ Before(d, durable[d]) = queue[d]
      /\ loads'[d] # <<>> /\ DOMAIN loads'[d] = DOMAIN loads[d]
      /\ \A j \in DOMAIN loads[d] :
             /\ loads'[d][j].behind = loads[d][j].behind
             /\ loads'[d][j].behind = 0
             /\ j # i => loads'[d][j] = loads[d][j]
             /\ j = i => loads'[d][j].view = Overlay(view, Persisted(d))
  BY AnsweredReads
<1>2. ReadsWait(d)'
  BY <1>1 DEF ReadsWait
<1>3. ASSUME NEW n \in Names, NEW f \in Fields, ReadsCurrent(d, n, f),
             Exists(view, queue[d], n) =>
                 Latest(Base(view, n, f), queue[d], n, f)
                 = Latest(Base(docs, n, f), queue[d], n, f)
      PROVE  ReadsCurrent(d, n, f)' /\ ListCurrent(d, n, f)'
  <2>1. PICK now : now = Latest(Base(docs, n, f), queue[d], n, f)
    OBVIOUS
  <2>2. Latest(Base(docs, n, f), queue[d], n, f)' = now
    BY <2>1 DEF Base
  <2>3. ASSUME NEW j \in DOMAIN loads[d], loads'[d][j].ready,
               loads'[d][j].view[n] # NoDoc
        PROVE  loads'[d][j].view[n][f] = now
    <3>1. CASE j = i
      <4>1. PICK shown : shown = Overlay(view, queue[d])
        OBVIOUS
      <4>2. loads'[d][j].view = shown
        BY <1>1, <3>1, <4>1
      <4>3. Overlay(view, queue[d])[n] # NoDoc
        BY <2>3, <4>1, <4>2
      <4>4. /\ Exists(view, queue[d], n)
            /\ shown[n][f] = Latest(Base(view, n, f), queue[d], n, f)
        BY <4>1, <4>3, OverlayField
      <4>5. QED
        BY <1>3, <2>1, <4>2, <4>4
    <3>2. CASE j # i
      <4>1. loads'[d][j] = loads[d][j]
        BY <1>1, <3>2
      <4>2. QED
        BY <1>3, <2>1, <2>3, <4>1 DEF ReadsCurrent
    <3>3. QED
      BY <3>1, <3>2
  <2>4. ReadsCurrent(d, n, f)'
    BY <1>1, <2>2, <2>3 DEF ReadsCurrent
  <2>5. ListCurrent(d, n, f)'
    BY <1>1 DEF ListCurrent
  <2>6. QED
    BY <2>4, <2>5
<1>4. QED
  BY <1>2, <1>3

LEMMA RaiseCurrent ==
    ASSUME Inv(User), NEW d \in Devices, Raise(d), UNCHANGED appVars,
           ReadsWait(d)
    PROVE  /\ ReadsWait(d)'
           /\ \A n \in Names, f \in Fields :
                  Current(d, n, f) => Current(d, n, f)'
<1>1. /\ cache'[d] = docs /\ covered'[d] = applied[d]
      /\ UNCHANGED <<docs, queue, durable, applied>>
  BY Types DEF Raise
<1>2. PICK i \in DOMAIN loads[d] : Answered(d, i, docs)
  BY DEF Raise
<1>3. ReadsWait(d)'
  BY <1>1, <1>2, AnswerCurrent
<1>4. ASSUME NEW n \in Names, NEW f \in Fields, Current(d, n, f)
      PROVE  Current(d, n, f)'
  <2>1. ReadsCurrent(d, n, f)' /\ ListCurrent(d, n, f)'
    BY <1>1, <1>2, <1>4, AnswerCurrent DEF Current
  <2>2. StoreCurrent(d, n, f)'
    BY <1>1, <1>4 DEF Current, StoreCurrent, Base, Before
  <2>3. QED
    BY <2>1, <2>2 DEF Current
<1>5. QED
  BY <1>3, <1>4

LEMMA RaiseFromCacheCurrent ==
    ASSUME Inv(User), StoreBacked, NEW d \in Devices, RaiseFromCache(d),
           UNCHANGED appVars, ReadsWait(d)
    PROVE  /\ ReadsWait(d)'
           /\ \A n \in Names, f \in Fields :
                  Current(d, n, f) => Current(d, n, f)'
<1>1. UNCHANGED <<docs, cache, queue, durable, applied, covered>>
  BY DEF RaiseFromCache
<1>2. PICK i \in DOMAIN loads[d] : Answered(d, i, cache[d])
  BY DEF RaiseFromCache
<1>3. ReadsWait(d)' /\ Before(d, durable[d]) = queue[d]
  BY <1>1, <1>2, AnswerCurrent, AnsweredReads
<1>4. ASSUME NEW n \in Names, NEW f \in Fields, Current(d, n, f)
      PROVE  Current(d, n, f)'
  <2>1. ASSUME Exists(cache[d], queue[d], n)
        PROVE  Latest(Base(cache[d], n, f), queue[d], n, f)
               = Latest(Base(docs, n, f), queue[d], n, f)
    <3>1. CASE cache[d][n] # NoDoc
      BY <1>3, <1>4, <3>1 DEF Current, StoreCurrent
    <3>2. CASE cache[d][n] = NoDoc
      <4>1. PICK j \in DOMAIN queue[d] :
                queue[d][j].doc = n /\ queue[d][j].set
        BY <2>1, <3>2 DEF Exists
      <4>2. queue[d][j].mask = Fields
        BY <4>1 DEF StoreBacked, QueueBacked, WriteBacked
      <4>3. QED
        BY <4>1, <4>2, Queue, CreatedIndependent
    <3>3. QED
      BY <3>1, <3>2
  <2>2. ReadsCurrent(d, n, f)' /\ ListCurrent(d, n, f)'
    BY <1>1, <1>2, <1>4, <2>1, AnswerCurrent DEF Current
  <2>3. StoreCurrent(d, n, f)'
    BY <1>1, <1>4 DEF Current, StoreCurrent, Base, Before
  <2>4. QED
    BY <2>2, <2>3 DEF Current
<1>5. QED
  BY <1>3, <1>4

--------------------------------------------------------------------------------
(* The steps of the app.                                                      *)

\* What the app shows changes together with what it has issued.
LEMMA HandlerCurrent ==
    ASSUME Inv(User), NEW d \in Devices, loads[d] = <<>>, ReadsWait(d),
           NEW ws \in Seq(WritesOf(User)), Issue(d, ws),
           NEW n \in Names, NEW f \in Fields, StoreCurrent(d, n, f),
           userDatabase'[d][n] # NoDoc =>
               userDatabase'[d][n][f] =
                   Latest(Latest(Base(docs, n, f), queue[d], n, f), ws, n, f)
    PROVE  ReadsWait(d)' /\ Current(d, n, f)'
<1>1. PICK q, more : q = queue[d] /\ more = q \o ws
  OBVIOUS
<1>2. /\ queue'[d] = more
      /\ UNCHANGED <<docs, cache, durable, applied, covered, loads>>
  BY <1>1, Types DEF Issue
<1>3. q \in Seq(WritesOf(User))
  BY <1>1, Queue
<1>4. ASSUME NEW k \in 0..Len(q)
      PROVE  SubSeq(more, 1, k) = SubSeq(q, 1, k)
  <2>1. /\ more \in Seq(WritesOf(User)) /\ Len(more) = Len(q) + Len(ws)
        /\ \A i \in 1..Len(q) : more[i] = q[i]
        /\ Len(ws) \in Nat /\ Len(q) \in Nat
    BY <1>1, <1>3
  <2>2. k \in 0..Len(more)
    BY <2>1
  <2>3. PICK a, b : a = SubSeq(more, 1, k) /\ b = SubSeq(q, 1, k)
    OBVIOUS
  <2>4. /\ a \in Seq(WritesOf(User)) /\ Len(a) = k
        /\ \A i \in 1..k : a[i] = more[i]
    BY <2>1, <2>2, <2>3, PrefixIs
  <2>5. /\ b \in Seq(WritesOf(User)) /\ Len(b) = k
        /\ \A i \in 1..k : b[i] = q[i]
    BY <1>3, <2>3, PrefixIs
  <2>6. \A i \in 1..k : a[i] = b[i]
    BY <2>1, <2>4, <2>5
  <2>7. a = b
    BY <2>4, <2>5, <2>6
  <2>8. QED
    BY <2>3, <2>7
<1>5. ReadsWait(d)' /\ ReadsCurrent(d, n, f)'
  BY <1>2 DEF ReadsWait, ReadsCurrent
<1>6. StoreCurrent(d, n, f)'
  <2>1. /\ Before(d, applied[d])' = Before(d, applied[d])
        /\ Before(d, covered[d])' = Before(d, covered[d])
        /\ Before(d, durable[d])' = Before(d, durable[d])
    BY <1>1, <1>2, <1>4, Queue DEF Before
  <2>2. QED
    BY <1>2, <2>1 DEF StoreCurrent, Base
<1>7. ListCurrent(d, n, f)'
  <2>1. Latest(Base(docs, n, f), more, n, f)
        = Latest(Latest(Base(docs, n, f), q, n, f), ws, n, f)
    BY <1>1, <1>3, LatestConcat
  <2>2. Latest(Base(docs, n, f), queue[d], n, f)'
        = Latest(Base(docs, n, f), more, n, f)
    BY <1>2 DEF Base
  <2>3. QED
    BY <1>1, <2>1, <2>2 DEF ListCurrent
<1>8. QED
  BY <1>5, <1>6, <1>7 DEF Current

\* A read's completion: the app shows what the read has.
LEMMA DeliverCurrent ==
    ASSUME Inv(User), NEW d \in Devices, Deliver(d), ReadsWait(d)
    PROVE  /\ ReadsWait(d)'
           /\ \A n \in Names, f \in Fields :
                  Current(d, n, f) => Current(d, n, f)'
<1>1. PICK reads : reads = loads[d]
  OBVIOUS
<1>2. /\ reads # <<>> /\ Head(reads).ready
      /\ loads'[d] = Tail(reads) /\ userDatabase'[d] = Head(reads).view
      /\ UNCHANGED <<docs, cache, queue, durable, applied, covered>>
  BY <1>1, Types DEF Deliver
<1>3. reads \in Seq(LoadsOf(User))
  BY <1>1, Queue
<1>4. /\ DOMAIN reads = 1..Len(reads) /\ Len(reads) \in Nat
      /\ 1 \in DOMAIN reads /\ Head(reads) = reads[1]
      /\ DOMAIN Tail(reads) = 1..(Len(reads) - 1)
      /\ \A i \in DOMAIN Tail(reads) :
             i + 1 \in DOMAIN reads /\ Tail(reads)[i] = reads[i + 1]
  BY <1>2, <1>3
<1>5. ReadsWait(d)'
  BY <1>1, <1>2, <1>4 DEF ReadsWait
<1>6. ASSUME NEW n \in Names, NEW f \in Fields, Current(d, n, f)
      PROVE  Current(d, n, f)'
  <2>1. Latest(Base(docs, n, f), queue[d], n, f)'
        = Latest(Base(docs, n, f), queue[d], n, f)
    BY <1>2 DEF Base
  <2>2. \A i \in DOMAIN reads :
            reads[i].ready /\ reads[i].view[n] # NoDoc =>
                reads[i].view[n][f]
                = Latest(Base(docs, n, f), queue[d], n, f)
    BY <1>1, <1>6 DEF Current, ReadsCurrent
  <2>3. ReadsCurrent(d, n, f)'
    BY <1>2, <1>4, <2>1, <2>2 DEF ReadsCurrent
  <2>4. ListCurrent(d, n, f)'
    BY <1>2, <1>4, <2>1, <2>2 DEF ListCurrent
  <2>5. StoreCurrent(d, n, f)'
    BY <1>2, <1>6 DEF Current, StoreCurrent, Base, Before
  <2>6. QED
    BY <2>3, <2>4, <2>5 DEF Current
<1>7. QED
  BY <1>5, <1>6

\* A new login screen: a read is under way, whatever the app still shows.
LEMMA AskCurrent ==
    ASSUME Inv(User), NEW d \in Devices, AskForUsers(d), ReadsWait(d)
    PROVE  /\ ReadsWait(d)'
           /\ \A n \in Names, f \in Fields :
                  Current(d, n, f) => Current(d, n, f)'
<1>1. PICK reads, load : reads = loads[d] /\ load = NewLoad(d)
  OBVIOUS
<1>2. /\ loads'[d] = Append(reads, load)
      /\ UNCHANGED <<docs, cache, queue, durable, applied, covered>>
  BY <1>1, Types DEF AskForUsers
<1>3. reads \in Seq(LoadsOf(User))
  BY <1>1, Queue
<1>4. ~load.ready /\ load.behind = Len(queue[d]) - durable[d]
  BY <1>1 DEF NewLoad
<1>5. /\ DOMAIN reads = 1..Len(reads) /\ Len(reads) \in Nat
      /\ loads'[d] # <<>> /\ DOMAIN loads'[d] = 1..(Len(reads) + 1)
      /\ \A i \in DOMAIN loads'[d] :
             \/ i \in DOMAIN reads /\ loads'[d][i] = reads[i]
             \/ loads'[d][i] = load
  BY <1>2, <1>3
<1>6. ReadsWait(d)'
  BY <1>1, <1>2, <1>4, <1>5 DEF ReadsWait
<1>7. ASSUME NEW n \in Names, NEW f \in Fields, Current(d, n, f)
      PROVE  Current(d, n, f)'
  <2>1. Latest(Base(docs, n, f), queue[d], n, f)'
        = Latest(Base(docs, n, f), queue[d], n, f)
    BY <1>2 DEF Base
  <2>2. ReadsCurrent(d, n, f)'
    BY <1>1, <1>4, <1>5, <1>7, <2>1 DEF Current, ReadsCurrent
  <2>3. ListCurrent(d, n, f)'
    BY <1>5 DEF ListCurrent
  <2>4. StoreCurrent(d, n, f)'
    BY <1>2, <1>7 DEF Current, StoreCurrent, Base, Before
  <2>5. QED
    BY <2>2, <2>3, <2>4 DEF Current
<1>8. QED
  BY <1>6, <1>7

\* The app starts again, with the writes that were stored.
LEMMA ReopenCurrent ==
    ASSUME Inv(User), NEW d \in Devices, NEW kept \in Seq(WritesOf(User)),
           Reopen(d, kept), Len(kept) >= durable[d],
           \A i \in 1..durable[d] : kept[i] = queue[d][i]
    PROVE  /\ ReadsWait(d)'
           /\ \A n \in Names, f \in Fields :
                  Current(d, n, f) => Current(d, n, f)'
<1>1. PICK q, k, load :
          /\ q = queue[d] /\ k = durable[d]
          /\ load = [behind |-> 0, ready |-> FALSE, view |-> EmptyView]
  OBVIOUS
<1>2. /\ queue'[d] = kept /\ durable'[d] = Len(kept)
      /\ applied'[d] = 0 /\ covered'[d] = 0 /\ loads'[d] = <<load>>
      /\ UNCHANGED <<docs, cache>>
  BY <1>1, Types DEF Reopen
<1>3. /\ q \in Seq(WritesOf(User)) /\ k \in 0..Len(q) /\ Len(kept) >= k
      /\ \A i \in 1..k : kept[i] = q[i]
  BY <1>1, Queue
<1>4. /\ ~load.ready /\ load.behind = 0 /\ loads'[d] # <<>>
      /\ \A i \in DOMAIN loads'[d] : loads'[d][i] = load
  <2>1. ~load.ready /\ load.behind = 0
    BY <1>1
  <2>2. <<load>> # <<>> /\ \A i \in DOMAIN <<load>> : <<load>>[i] = load
    OBVIOUS
  <2>3. QED
    BY <1>2, <2>1, <2>2
<1>5. ReadsWait(d)'
  BY <1>2, <1>4 DEF ReadsWait
<1>6. ASSUME NEW n \in Names, NEW f \in Fields, Current(d, n, f)
      PROVE  Current(d, n, f)'
  <2>1. ReadsCurrent(d, n, f)' /\ ListCurrent(d, n, f)'
    BY <1>4 DEF ReadsCurrent, ListCurrent
  <2>2. PICK s, c : s = Base(docs, n, f) /\ c = Base(cache[d], n, f)
    OBVIOUS
  <2>3. SubSeq(kept, 1, Len(kept)) = kept
    OBVIOUS
  <2>4. \A b : Latest(b, SubSeq(kept, 1, 0), n, f) = b
    BY LatestOfNone
  <2>5. cache[d][n] # NoDoc => Latest(c, kept, n, f) = Latest(s, kept, n, f)
    <3>1. SUFFICES ASSUME cache[d][n] # NoDoc
                   PROVE  Latest(c, kept, n, f) = Latest(s, kept, n, f)
      OBVIOUS
    <3>2. Latest(c, SubSeq(q, 1, k), n, f) = Latest(s, SubSeq(q, 1, k), n, f)
      BY <1>1, <1>6, <2>2, <3>1 DEF Current, StoreCurrent, Before
    <3>3. QED
      BY <1>3, <3>2, LatestExtends
  <2>6. /\ Base(docs, n, f)' = s /\ Base(cache[d], n, f)' = c
        /\ Before(d, applied[d])' = SubSeq(kept, 1, 0)
        /\ Before(d, covered[d])' = SubSeq(kept, 1, 0)
        /\ Before(d, durable[d])' = kept
    BY <1>2, <2>2, <2>3 DEF Base, Before
  <2>7. StoreCurrent(d, n, f)'
    BY <1>2, <2>4, <2>5, <2>6 DEF StoreCurrent
  <2>8. QED
    BY <2>1, <2>7 DEF Current
<1>7. QED
  BY <1>5, <1>6

\* A step that leaves all this alone.
LEMMA QuietCurrent ==
    ASSUME NEW d \in Devices, ReadsWait(d),
           UNCHANGED <<storeVars, userDatabase>>
    PROVE  /\ ReadsWait(d)'
           /\ \A n \in Names, f \in Fields :
                  Current(d, n, f) => Current(d, n, f)'
  BY DEF storeVars, ReadsWait, Current, StoreCurrent, ReadsCurrent, ListCurrent,
         Base, Before

--------------------------------------------------------------------------------
(* The fields the handlers write.                                             *)

\* The value a sign-up or an update carries for a field.
LEMMA CreatedField ==
    ASSUME NEW n, NEW u, NEW m, NEW f \in Fields
    PROVE  LET w == Create(n, u)
           IN (Touches(w, m, f) <=> m = n) /\ w.value[f] = u[f]
  BY DEF Touches, Create

LEMMA UpdatedField ==
    ASSUME NEW n, NEW fields \in SUBSET Fields, NEW u, NEW m, NEW f \in Fields,
           NEW w, w = Update(n, fields, u)
    PROVE  /\ Touches(w, m, f) <=> m = n /\ f \in fields
           /\ f \in fields => w.value[f] = u[f]
<1>1. f \in fields => Patched(BlankUser, fields, u)[f] = u[f]
  BY PatchedField
<1>2. QED
  BY <1>1 DEF Touches, Update

LEMMA LatestOfOne ==
    ASSUME NEW W, NEW w \in W, NEW n, NEW f, NEW b
    PROVE  Latest(b, <<w>>, n, f) = IF Touches(w, n, f) THEN w.value[f] ELSE b
<1>1. PICK ws : ws = <<w>>
  OBVIOUS
<1>2. ws \in Seq(W) /\ Len(ws) = 1 /\ ws[1] = w
  BY <1>1
<1>3. Latest(b, ws, n, f) = IF Touches(ws[1], n, f) THEN ws[1].value[f] ELSE b
  BY <1>2, LatestOfFew
<1>4. QED
  BY <1>1, <1>2, <1>3

\* A handler that changes some fields of the user and issues just these.
LEMMA ChangeCurrent ==
    ASSUME Inv(User), AllBacked, Patient, NEW d \in Devices, NEW u \in User,
           NEW fields \in SUBSET Fields,
           screen[d].at # "login", ChangeCurrUser(d, u),
           Issue(d, <<Update(session[d], fields, u)>>),
           \A f \in Fields \ fields : u[f] = CurrUser(d)[f],
           ReadsWait(d)
    PROVE  /\ ReadsWait(d)'
           /\ \A n \in Names, f \in Fields :
                  Current(d, n, f) => Current(d, n, f)'
<1>1. PICK me, w, view : /\ me = session[d] /\ w = Update(me, fields, u)
                         /\ view = [userDatabase[d] EXCEPT ![me] = u]
  OBVIOUS
<1>2. own[d] = NoDoc /\ loads[d] = <<>>
  BY SessionFacts DEF SessionBacked, Waited
<1>3. /\ userDatabase' = [userDatabase EXCEPT ![d] = view]
      /\ me \in Names /\ userDatabase[d][me] # NoDoc
  BY <1>1, <1>2, ChangedUser
<1>4. /\ userDatabase'[d] = view /\ userDatabase[d] \in ViewsOf(User)
      /\ CurrUser(d) = userDatabase[d][me]
      /\ \A n \in Names : view[n] = IF n = me THEN u ELSE userDatabase[d][n]
  BY <1>1, <1>2, <1>3, Types DEF CurrUser, ViewsOf
<1>5. w \in WritesOf(User) /\ <<w>> \in Seq(WritesOf(User)) /\ Len(<<w>>) = 1
  <2>1. Patched(BlankUser, fields, u) \in User
    BY BlankAmong, UserClosed, PatchedIn DEF Closed
  <2>2. w \in WritesOf(User)
    BY <1>1, <1>3, <2>1 DEF Update, WritesOf
  <2>3. QED
    BY <2>2
<1>6. ASSUME NEW n \in Names, NEW f \in Fields, Current(d, n, f)
      PROVE  ReadsWait(d)' /\ Current(d, n, f)'
  <2>1. PICK b : b = Latest(Base(docs, n, f), queue[d], n, f)
    OBVIOUS
  <2>2. userDatabase[d][n] # NoDoc => userDatabase[d][n][f] = b
    BY <1>2, <1>6, <2>1 DEF Current, ListCurrent
  <2>3. Latest(b, <<w>>, n, f) =
            IF Touches(w, n, f) THEN w.value[f] ELSE b
    BY <1>5, LatestOfOne
  <2>4. /\ Touches(w, n, f) <=> n = me /\ f \in fields
        /\ f \in fields => w.value[f] = u[f]
    BY <1>1, UpdatedField
  <2>5. view[n] # NoDoc => view[n][f] = Latest(b, <<w>>, n, f)
    <3>1. CASE n = me /\ f \in fields
      BY <1>4, <2>3, <2>4, <3>1
    <3>2. CASE n = me /\ f \notin fields
      <4>1. u[f] = userDatabase[d][n][f]
        BY <1>4, <3>2
      <4>2. QED
        BY <1>3, <1>4, <2>2, <2>3, <2>4, <3>2, <4>1
    <3>3. CASE n # me
      BY <1>4, <2>2, <2>3, <2>4, <3>3
    <3>4. QED
      BY <3>1, <3>2, <3>3
  <2>6. QED
    BY <1>1, <1>2, <1>4, <1>5, <1>6, <2>1, <2>5, HandlerCurrent DEF Current
<1>7. ReadsWait(d)'
  BY <1>2, Types DEF Issue, ReadsWait
<1>8. QED
  BY <1>6, <1>7

\* A sign-up: the account is new here and in the queue.
LEMMA SignUpCurrent ==
    ASSUME Inv(User), Patient, NEW d \in Devices, NEW n \in Newcomers[d],
           NEW password \in Passwords, VeryfySignUp(d, n, password),
           ReadsWait(d)
    PROVE  /\ ReadsWait(d)'
           /\ \A m \in Names, f \in Fields :
                  Current(d, m, f) => Current(d, m, f)'
<1>1. PICK u, w, view : /\ u = [BlankUser EXCEPT !.password = password]
                        /\ w = Create(n, u)
                        /\ view = [userDatabase[d] EXCEPT ![n] = u]
  OBVIOUS
<1>2. n \in Names /\ u \in User
  <2>1. n \in Names /\ BlankUser \in User
    BY SessionAssumption, BlankAmong
  <2>2. QED
    BY <1>1, <2>1, UserClosed DEF Closed
<1>3. /\ loads[d] = <<>> /\ Issue(d, <<w>>)
      /\ userDatabase' = [userDatabase EXCEPT ![d][n] = u]
  BY <1>1 DEF VeryfySignUp, Ready
<1>4. userDatabase[d] \in ViewsOf(User)
  BY Types
<1>5. /\ userDatabase'[d] = view
      /\ \A m \in Names : view[m] = IF m = n THEN u ELSE userDatabase[d][m]
  BY <1>1, <1>2, <1>3, <1>4, Types DEF ViewsOf
<1>6. w \in WritesOf(User) /\ <<w>> \in Seq(WritesOf(User))
  BY <1>1, <1>2 DEF Create, WritesOf
<1>7. ASSUME NEW m \in Names, NEW f \in Fields, Current(d, m, f)
      PROVE  Current(d, m, f)'
  <2>1. PICK b : b = Latest(Base(docs, m, f), queue[d], m, f)
    OBVIOUS
  <2>2. userDatabase[d][m] # NoDoc => userDatabase[d][m][f] = b
    BY <1>3, <1>7, <2>1 DEF Current, ListCurrent
  <2>3. Latest(b, <<w>>, m, f) =
            IF Touches(w, m, f) THEN w.value[f] ELSE b
    BY <1>6, LatestOfOne
  <2>4. (Touches(w, m, f) <=> m = n) /\ w.value[f] = u[f]
    BY <1>1, CreatedField
  <2>5. view[m] # NoDoc => view[m][f] = Latest(b, <<w>>, m, f)
    BY <1>5, <2>2, <2>3, <2>4
  <2>6. QED
    BY <1>3, <1>5, <1>6, <1>7, <2>1, <2>5, HandlerCurrent DEF Current
<1>8. ReadsWait(d)'
  BY <1>3, Types DEF Issue, ReadsWait
<1>9. QED
  BY <1>7, <1>8

\* The balances after a payment: the payer is debited, the payee credited, the
\* payer's object has what the list shows, and no other balance changes.
LEMMA PaymentBalances ==
    ASSUME Inv(User), NEW d \in Devices, own[d] = NoDoc,
           screen[d].at = "confirm", screen[d].who \in Names
    PROVE  LET me == session[d] IN
           /\ \A n \in Names \ {me, screen[d].who} :
                  Credited(d)[n] = userDatabase[d][n]
           /\ me # screen[d].who =>
                  Credited(d)[me].balance = CurrUser(d).balance - screen[d].amount
           /\ Invested(d).balance = Credited(d)[me].balance
           /\ ~screen[d].invest => Invested(d) = Credited(d)[me]
           /\ Credited(d)[me] \in User
<1> DEFINE a == screen[d].amount
           n == screen[d].who
           me == session[d]
           users == userDatabase[d]
           less(u) == [u EXCEPT !.balance = @ - a]
           more(u) == [u EXCEPT !.balance = @ + a]
<1>1. /\ users \in [Names -> User \cup {NoDoc}] /\ NoDoc \notin User
      /\ a \in Int /\ n \in Names /\ me \in Names /\ users[me] \in User
      /\ CurrUser(d) = users[me]
  <2>1. me \in Names /\ CurrUser(d) \in User /\ users[me] = CurrUser(d)
    BY CurrUserIn, UserClosed DEF Closed, CurrUser
  <2>2. screen[d] \in Screen
    BY Types
  <2>3. QED
    BY <2>1, <2>2, Types, SessionAssumption DEF Screen, ViewsOf
<1>2. \A u \in User : u.balance \in Int
  BY DEF User
<1>3. \A u \in User : /\ less(u) \in User /\ less(u).balance = u.balance - a
                      /\ more(u) \in User
  <2>1. ASSUME NEW u \in User
        PROVE  /\ u.balance - a \in Int /\ u.balance + a \in Int
               /\ less(u) = [u EXCEPT !.balance = u.balance - a]
               /\ more(u) = [u EXCEPT !.balance = u.balance + a]
    BY <1>1, <1>2
  <2>2. QED
    BY <2>1, BalanceOnly
<1>4. /\ Debited(d) = [users EXCEPT ![me] = less(users[me])]
      /\ Debited(d)[n] = NoDoc => Credited(d) = Debited(d)
      /\ Debited(d)[n] # NoDoc =>
             Credited(d) = [Debited(d) EXCEPT ![n] = more(Debited(d)[n])]
      /\ Payer(d) = Credited(d)[me]
  BY <1>1 DEF Debited, Credited, Payer
<1> HIDE DEF less, more
<1>5. PICK paid, shown : paid = Debited(d) /\ shown = Credited(d)
  OBVIOUS
<1>6. /\ paid \in [Names -> User \cup {NoDoc}]
      /\ paid[me] = less(users[me])
      /\ \A m \in Names \ {me} : paid[m] = users[m]
  BY <1>1, <1>3, <1>4, <1>5
<1>7. /\ \A m \in Names \ {n} : shown[m] = paid[m]
      /\ shown[n] = IF paid[n] = NoDoc THEN NoDoc ELSE more(paid[n])
  BY <1>1, <1>4, <1>5, <1>6
<1>8. /\ shown[me] \in User
      /\ me # n => shown[me].balance = users[me].balance - a
  <2>1. paid[me] \in User /\ paid[me].balance = users[me].balance - a
    BY <1>1, <1>3, <1>6
  <2>2. CASE me = n
    BY <1>1, <1>3, <1>7, <2>1, <2>2
  <2>3. CASE me # n
    BY <1>1, <1>7, <2>1, <2>3
  <2>4. QED
    BY <2>2, <2>3
<1>9. /\ Invested(d).balance = shown[me].balance
      /\ ~screen[d].invest => Invested(d) = shown[me]
  <2>1. Payer(d) = shown[me]
    BY <1>4, <1>5
  <2>2. CASE screen[d].invest
    BY <1>8, <2>1, <2>2 DEF Invested, User
  <2>3. CASE ~screen[d].invest
    BY <2>1, <2>3 DEF Invested
  <2>4. QED
    BY <2>2, <2>3
<1>10. \A m \in Names \ {me, n} : shown[m] = users[m]
  BY <1>6, <1>7
<1>11. QED
  BY <1>1, <1>5, <1>8, <1>9, <1>10

\* A payment: what it shows is what it sends.
LEMMA ConfirmCurrent ==
    ASSUME Inv(User), AllBacked, Patient, NEW d \in Devices, DidConfirmPay(d),
           ReadsWait(d)
    PROVE  /\ ReadsWait(d)'
           /\ \A n \in Names, f \in Fields :
                  Current(d, n, f) => Current(d, n, f)'
<1>0. /\ screen[d].at = "confirm" /\ screen[d].who \in Names
      /\ screen[d].at # "login" /\ own[d] = NoDoc
      /\ loads[d] = <<>> /\ Issue(d, PaymentWrites(d))
      /\ userDatabase' = [userDatabase EXCEPT ![d] =
                            [Credited(d) EXCEPT ![session[d]] = Invested(d)]]
  <2>1. screen[d].at = "confirm" /\ screen[d].who \in Names
    BY DEF DidConfirmPay
  <2>2. screen[d].at # "login"
    BY <2>1
  <2>3. own[d] = NoDoc /\ loads[d] = <<>>
    BY <2>2, SessionFacts DEF SessionBacked, Waited
  <2>4. QED
    BY <2>1, <2>2, <2>3 DEF DidConfirmPay
<1>1. PICK me, who, users, shown, mine, object, debited, ws, invest :
          /\ me = session[d] /\ who = screen[d].who
          /\ users = userDatabase[d] /\ shown = Credited(d)
          /\ mine = CurrUser(d) /\ object = Invested(d)
          /\ debited = [mine EXCEPT !.balance = @ - screen[d].amount]
          /\ ws = PaymentWrites(d) /\ invest = screen[d].invest
  OBVIOUS
<1>2. /\ users \in [Names -> User \cup {NoDoc}] /\ NoDoc \notin User
      /\ me \in Names /\ mine \in User /\ users[me] = mine
      /\ screen[d].amount \in Int /\ invest \in BOOLEAN
  <2>1. screen[d] \in Screen
    BY Types
  <2>2. QED
    BY <1>0, <1>1, <2>1, SessionFacts, Types, SessionAssumption
       DEF CurrUser, ViewsOf, Screen
<1>3. /\ shown \in [Names -> User \cup {NoDoc}] /\ object \in User
      /\ \A n \in Names :
             /\ shown[n] = NoDoc <=> users[n] = NoDoc
             /\ users[n] # NoDoc => \A f \in Fields \ {"balance"} :
                                        shown[n][f] = users[n][f]
      /\ \A f \in Fields \ {"balance", "investmentBalance"} :
             object[f] = mine[f]
  BY <1>0, <1>1, PaymentObjects DEF ViewsOf
<1>4. /\ \A n \in Names \ {me, who} : shown[n] = users[n]
      /\ me # who => shown[me].balance = debited.balance
      /\ object.balance = shown[me].balance
      /\ ~invest => object = shown[me]
  <2>1. debited.balance = mine.balance - screen[d].amount
    <3>1. mine.balance \in Int
      BY <1>2 DEF User
    <3>2. debited = [mine EXCEPT !.balance = mine.balance - screen[d].amount]
      BY <1>1, <1>2
    <3>3. QED
      BY <1>2, <3>1, <3>2, BalanceOnly
  <2>2. QED
    BY <1>0, <1>1, <2>1, PaymentBalances
<1>5. PICK payee : payee = IF shown[who] = NoDoc THEN BlankUser ELSE shown[who]
  OBVIOUS
<1>6. /\ ws \in Seq(WritesOf(User))
      /\ Len(ws) = IF invest THEN 3 ELSE 2
      /\ ws[1] = Update(me, {"balance"}, debited)
      /\ ws[2] = Update(who, {"balance"}, payee)
      /\ invest => ws[3] = Update(me, {"investmentBalance"}, object)
  <2>1. /\ ws \in Seq(WritesOf(User))
        /\ DOMAIN ws = IF invest THEN 1..3 ELSE 1..2
        /\ ws[1] = Update(me, {"balance"}, debited)
        /\ ws[2] = Update(who, {"balance"}, payee)
        /\ invest => ws[3] = Update(me, {"investmentBalance"}, object)
    BY <1>0, <1>1, <1>5, PaymentWritesAre
  <2>2. Len(ws) = IF invest THEN 3 ELSE 2
    <3>1. DOMAIN ws = 1..Len(ws) /\ Len(ws) \in Nat
      BY <2>1
    <3>2. CASE invest
      BY <2>1, <3>1, <3>2
    <3>3. CASE ~invest
      BY <2>1, <3>1, <3>3
    <3>4. QED
      BY <3>2, <3>3
  <2>3. QED
    BY <2>1, <2>2
<1>7. /\ Issue(d, ws) /\ userDatabase[d] = users
      /\ \A n \in Names :
             userDatabase'[d][n] = IF n = me THEN object ELSE shown[n]
  BY <1>0, <1>1, <1>2, <1>3, Types
<1>8. ASSUME NEW n \in Names, NEW f \in Fields, Current(d, n, f)
      PROVE  Current(d, n, f)'
  <2>1. PICK b : b = Latest(Base(docs, n, f), queue[d], n, f)
    OBVIOUS
  <2>2. users[n] # NoDoc => users[n][f] = b
    BY <1>0, <1>1, <1>8, <2>1 DEF Current, ListCurrent
  <2>3. /\ Touches(ws[1], n, f) <=> n = me /\ f = "balance"
        /\ f = "balance" => ws[1].value[f] = debited[f]
        /\ Touches(ws[2], n, f) <=> n = who /\ f = "balance"
        /\ f = "balance" => ws[2].value[f] = payee[f]
    <3>1. PICK fields, one, two :
              fields = {"balance"} /\ one = ws[1] /\ two = ws[2]
      OBVIOUS
    <3>2. fields \in SUBSET Fields
      BY <3>1 DEF Fields
    <3>3. one = Update(me, fields, debited)
      BY <1>6, <3>1
    <3>4. two = Update(who, fields, payee)
      BY <1>6, <3>1
    <3>5. /\ Touches(one, n, f) <=> n = me /\ f \in fields
          /\ f \in fields => one.value[f] = debited[f]
      <4>1. Touches(one, n, f) <=> n = me /\ f \in fields
        BY <3>3 DEF Touches, Update
      <4>2. one.value = Patched(BlankUser, fields, debited)
        BY <3>3 DEF Update
      <4>3. QED
        BY <3>2, <4>1, <4>2, PatchedField
    <3>6. /\ Touches(two, n, f) <=> n = who /\ f \in fields
          /\ f \in fields => two.value[f] = payee[f]
      <4>1. Touches(two, n, f) <=> n = who /\ f \in fields
        BY <3>4 DEF Touches, Update
      <4>2. two.value = Patched(BlankUser, fields, payee)
        BY <3>4 DEF Update
      <4>3. QED
        BY <3>2, <4>1, <4>2, PatchedField
    <3>7. QED
      BY <3>1, <3>5, <3>6
  <2>4. invest =>
            /\ Touches(ws[3], n, f) <=> n = me /\ f = "investmentBalance"
            /\ f = "investmentBalance" => ws[3].value[f] = object[f]
    <3>1. PICK fields, three :
              fields = {"investmentBalance"} /\ three = ws[3]
      OBVIOUS
    <3>2. fields \in SUBSET Fields
      BY <3>1 DEF Fields
    <3>3. ASSUME invest
          PROVE  /\ Touches(three, n, f) <=> n = me /\ f \in fields
                 /\ f \in fields => three.value[f] = object[f]
      <4>1. three = Update(me, fields, object)
        BY <1>6, <3>1, <3>3
      <4>2. Touches(three, n, f) <=> n = me /\ f \in fields
        BY <4>1 DEF Touches, Update
      <4>3. three.value = Patched(BlankUser, fields, object)
        BY <4>1 DEF Update
      <4>4. QED
        BY <3>2, <4>2, <4>3, PatchedField
    <3>4. QED
      BY <3>1, <3>3
  <2>5. PICK after : after = Latest(b, ws, n, f)
    OBVIOUS
  <2>6. /\ f = "balance" /\ n = who => after = payee.balance
        /\ f = "balance" /\ n = me /\ n # who => after = debited.balance
        /\ f = "balance" /\ n \notin {me, who} => after = b
        /\ f = "investmentBalance" /\ invest /\ n = me => after = object[f]
        /\ f = "investmentBalance" /\ ~(invest /\ n = me) => after = b
        /\ f \notin {"balance", "investmentBalance"} => after = b
    <3>1. CASE invest
      <4>1. after = IF Touches(ws[3], n, f) THEN ws[3].value[f]
                    ELSE IF Touches(ws[2], n, f) THEN ws[2].value[f]
                    ELSE IF Touches(ws[1], n, f) THEN ws[1].value[f] ELSE b
        BY <1>6, <2>5, <3>1, LatestOfFew
      <4>2. QED
        BY <2>3, <2>4, <3>1, <4>1
    <3>2. CASE ~invest
      <4>1. after = IF Touches(ws[2], n, f) THEN ws[2].value[f]
                    ELSE IF Touches(ws[1], n, f) THEN ws[1].value[f] ELSE b
        BY <1>6, <2>5, <3>2, LatestOfFew
      <4>2. QED
        BY <2>3, <3>2, <4>1
    <3>3. QED
      BY <1>2, <3>1, <3>2
  <2>7. ASSUME userDatabase'[d][n] # NoDoc
        PROVE  userDatabase'[d][n][f] = after
    <3>1. users[n] # NoDoc /\ users[n][f] = b
      BY <1>2, <1>3, <1>7, <2>2, <2>7
    <3>2. CASE f = "balance"
      <4>1. userDatabase'[d][n].balance = shown[n].balance
        BY <1>4, <1>7
      <4>2. CASE n = who
        BY <1>3, <1>5, <2>6, <3>1, <3>2, <4>1, <4>2
      <4>3. CASE n # who /\ n = me
        BY <1>4, <2>6, <3>2, <4>1, <4>3
      <4>4. CASE n # who /\ n # me
        BY <1>4, <2>6, <3>1, <3>2, <4>1, <4>4
      <4>5. QED
        BY <4>2, <4>3, <4>4
    <3>3. CASE f = "investmentBalance"
      <4>1. shown[n][f] = b
        BY <1>3, <3>1, <3>3
      <4>2. QED
        BY <1>4, <1>7, <2>6, <3>3, <4>1
    <3>4. CASE f \notin {"balance", "investmentBalance"}
      <4>1. shown[n][f] = b
        BY <1>3, <3>1, <3>4
      <4>2. n = me => object[f] = b
        BY <1>2, <1>3, <3>1, <3>4
      <4>3. QED
        BY <1>7, <2>6, <3>4, <4>1, <4>2
    <3>5. QED
      BY <3>2, <3>3, <3>4
  <2>8. QED
    BY <1>0, <1>6, <1>7, <1>8, <2>1, <2>5, <2>7, HandlerCurrent DEF Current
<1>9. ReadsWait(d)'
  BY <1>0, Types DEF Issue, ReadsWait
<1>10. QED
  BY <1>8, <1>9

--------------------------------------------------------------------------------
(* The phones together.                                                       *)

\* What a step of phone d leaves to the others.
OthersRest(d) ==
    \A e \in Devices \ {d} :
        /\ cache'[e] = cache[e] /\ queue'[e] = queue[e]
        /\ durable'[e] = durable[e] /\ applied'[e] = applied[e]
        /\ covered'[e] = covered[e] /\ loads'[e] = loads[e]
        /\ userDatabase'[e] = userDatabase[e] /\ session'[e] = session[e]

\* The values of d alone may be new.
LEMMA Rest ==
    ASSUME Inv(User), NEW d \in Devices,
           NEW c, NEW q, NEW k, NEW a, NEW v, NEW reads, NEW view, NEW n,
           cache' = [cache EXCEPT ![d] = c] \/ UNCHANGED cache,
           queue' = [queue EXCEPT ![d] = q] \/ UNCHANGED queue,
           durable' = [durable EXCEPT ![d] = k] \/ UNCHANGED durable,
           applied' = [applied EXCEPT ![d] = a] \/ UNCHANGED applied,
           covered' = [covered EXCEPT ![d] = v] \/ UNCHANGED covered,
           loads' = [loads EXCEPT ![d] = reads] \/ UNCHANGED loads,
           \/ userDatabase' = [userDatabase EXCEPT ![d] = view]
           \/ UNCHANGED userDatabase,
           session' = [session EXCEPT ![d] = n] \/ UNCHANGED session
    PROVE  OthersRest(d)
<1>1. \A e \in Devices \ {d} :
          /\ cache'[e] = cache[e] /\ queue'[e] = queue[e]
          /\ durable'[e] = durable[e] /\ applied'[e] = applied[e]
  BY Types
<1>2. \A e \in Devices \ {d} :
          /\ covered'[e] = covered[e] /\ loads'[e] = loads[e]
          /\ userDatabase'[e] = userDatabase[e] /\ session'[e] = session[e]
  BY Types
<1>3. QED
  BY <1>1, <1>2 DEF OthersRest

\* What phone d writes does not reach the fields that are another's alone.
LEMMA CommitElsewhere ==
    ASSUME Inv(User), StoreBacked, NEW d \in Devices, Commit(d), Homed(d),
           NEW e \in Devices \ {d}, NEW n \in Names, NEW f \in Fields,
           Solely(e, n, f)
    PROVE  Base(docs, n, f)' = Base(docs, n, f)
<1> DEFINE w == queue[d][applied[d] + 1]
<1>1. /\ applied[d] < durable[d] /\ Accepts(docs, w)
      /\ docs' = Applied(docs, w) /\ docs \in ViewsOf(User)
  BY Types DEF Commit
<1>2. applied[d] + 1 \in DOMAIN queue[d]
  BY <1>1, Positions
<1>3. /\ w \in WritesOf(User) /\ (w.set => w.mask = Fields)
      /\ HomedWrite(d, w)
  BY <1>2, Queue, WriteType DEF StoreBacked, QueueBacked, WriteBacked, Homed
<1> HIDE DEF w
<1>4. n \notin Users[d] \cup Newcomers[d] /\ f # "balance"
  BY DEF Solely, HomeOnly
<1>5. ~Touches(w, n, f)
  BY <1>3, <1>4 DEF Touches, HomedWrite
<1>6. Base(Applied(docs, w), n, f) = Base(docs, n, f)
  BY <1>1, <1>3, <1>5, BaseApplied
<1>7. QED
  BY <1>1, <1>6 DEF Base

\* The other phones' part of a step.
LEMMA OthersCurrent ==
    ASSUME Inv(User), StoreBacked, AllCurrent, NEW d \in Devices,
           OthersRest(d), UNCHANGED docs \/ Commit(d), PhoneCurrent(d)'
    PROVE  AllCurrent'
<1>1. ASSUME NEW e \in Devices \ {d}
      PROVE  PhoneCurrent(e)'
  <2>1. PhoneCurrent(e) /\ Homed(d)
    BY DEF AllCurrent, PhoneCurrent
  <2>2. /\ cache'[e] = cache[e] /\ queue'[e] = queue[e]
        /\ durable'[e] = durable[e] /\ applied'[e] = applied[e]
        /\ covered'[e] = covered[e] /\ loads'[e] = loads[e]
        /\ userDatabase'[e] = userDatabase[e] /\ session'[e] = session[e]
    BY DEF OthersRest
  <2>3. Homed(e)' /\ ReadsWait(e)'
    BY <2>1, <2>2 DEF PhoneCurrent, Homed, HomedWrite, ReadsWait
  <2>4. ASSUME NEW n \in Names, NEW f \in Fields, Solely(e, n, f)
        PROVE  Current(e, n, f)'
    <3>1. Current(e, n, f)
      BY <2>1, <2>4 DEF PhoneCurrent
    <3>2. Base(docs, n, f)' = Base(docs, n, f)
      <4>1. CASE UNCHANGED docs
        BY <4>1 DEF Base
      <4>2. CASE Commit(d)
        BY <2>1, <2>4, <4>2, CommitElsewhere
      <4>3. QED
        BY <4>1, <4>2
    <3>3. /\ Before(e, applied[e])' = Before(e, applied[e])
          /\ Before(e, covered[e])' = Before(e, covered[e])
          /\ Before(e, durable[e])' = Before(e, durable[e])
          /\ Base(cache[e], n, f)' = Base(cache[e], n, f)
      BY <2>2 DEF Before, Base
    <3>4. StoreCurrent(e, n, f)'
      BY <2>2, <3>1, <3>2, <3>3 DEF Current, StoreCurrent
    <3>5. Latest(Base(docs, n, f), queue[e], n, f)'
          = Latest(Base(docs, n, f), queue[e], n, f)
      BY <2>2, <3>2
    <3>6. ReadsCurrent(e, n, f)' /\ ListCurrent(e, n, f)'
      BY <2>2, <3>1, <3>5 DEF Current, ReadsCurrent, ListCurrent
    <3>7. QED
      BY <3>4, <3>6 DEF Current
  <2>5. QED
    BY <2>3, <2>4 DEF PhoneCurrent, Solely, HomeOnly
<1>2. QED
  BY <1>1 DEF AllCurrent

\* The phone's own part, from what the lemmas above show.
LEMMA OwnCurrent ==
    ASSUME Inv(User), NEW d \in Devices, PhoneCurrent(d), ReadsWait(d)',
           \A n \in Names, f \in Fields :
               Current(d, n, f) => Current(d, n, f)',
           session'[d] \in Users[d] \cup {NoName},
           NEW ws, ws = queue'[d],
           \A i \in DOMAIN ws :
               \/ \E j \in DOMAIN queue[d] : ws[i] = queue[d][j]
               \/ HomedWrite(d, ws[i])
    PROVE  PhoneCurrent(d)'
<1>1. \A i \in DOMAIN ws : HomedWrite(d, ws[i])
  BY DEF PhoneCurrent, Homed
<1>2. Homed(d)'
  BY <1>1 DEF Homed, HomedWrite
<1>3. \A n \in Names, f \in Fields : Solely(d, n, f) => Current(d, n, f)'
  BY DEF PhoneCurrent
<1>4. QED
  BY <1>2, <1>3 DEF PhoneCurrent, Solely, HomeOnly

--------------------------------------------------------------------------------
(* The steps.                                                                 *)

\* What the SDK does in the background.
LEMMA BackgroundCurrent ==
    ASSUME ~MayRefuse, Inv(User), AllBacked, AllCurrent, NEW d \in Devices,
           InBackground(d)
    PROVE  AllCurrent'
<1>1. /\ StoreBacked /\ PhoneCurrent(d) /\ ReadsWait(d)
      /\ session[d] \in Users[d] \cup {NoName}
  BY DEF AllBacked, AllCurrent, PhoneCurrent, Homed
<1>2. UNCHANGED appVars /\ UNCHANGED userDatabase /\ UNCHANGED session
  BY DEF InBackground, appVars
<1>3. UNCHANGED queue => /\ queue[d] = queue'[d]
                         /\ \A i \in DOMAIN queue'[d] :
                                \E j \in DOMAIN queue[d] :
                                    queue'[d][i] = queue[d][j]
  OBVIOUS
<1>4. ASSUME ReadsWait(d)', OthersRest(d), UNCHANGED docs \/ Commit(d),
             \A n \in Names, f \in Fields :
                 Current(d, n, f) => Current(d, n, f)',
             \A i \in DOMAIN queue'[d] :
                 \E j \in DOMAIN queue[d] : queue'[d][i] = queue[d][j]
      PROVE  AllCurrent'
  <2>1. PICK ws : ws = queue'[d]
    OBVIOUS
  <2>2. PhoneCurrent(d)'
    BY <1>1, <1>2, <1>4, <2>1, OwnCurrent
  <2>3. QED
    BY <1>1, <1>4, <2>2, OthersCurrent
<1>5. CASE Persist(d)
  <2>1. OthersRest(d) /\ UNCHANGED docs /\ UNCHANGED queue
    BY <1>2, <1>5, Rest DEF Persist
  <2>2. QED
    BY <1>1, <1>2, <1>3, <1>4, <1>5, <2>1, PersistCurrent
<1>6. CASE Commit(d)
  <2>1. OthersRest(d) /\ UNCHANGED queue
    BY <1>2, <1>6, Rest DEF Commit
  <2>2. QED
    BY <1>1, <1>2, <1>3, <1>4, <1>6, <2>1, CommitCurrent
<1>7. CASE Ack(d)
  <2>1. OthersRest(d) /\ UNCHANGED docs
    BY <1>2, <1>7, Rest DEF Ack
  <2>2. /\ queue'[d] = Tail(queue[d]) /\ queue[d] \in Seq(WritesOf(User))
        /\ queue[d] # <<>>
    BY <1>7, Types, Positions DEF Ack
  <2>3. \A i \in DOMAIN queue'[d] :
            \E j \in DOMAIN queue[d] : queue'[d][i] = queue[d][j]
    <3>1. PICK q : q = queue[d]
      OBVIOUS
    <3>2. ASSUME NEW i \in DOMAIN Tail(q)
          PROVE  i + 1 \in DOMAIN q /\ Tail(q)[i] = q[i + 1]
      BY <2>2, <3>1
    <3>3. QED
      BY <2>2, <3>1, <3>2
  <2>4. QED
    BY <1>1, <1>2, <1>4, <1>7, <2>1, <2>3, AckCurrent
<1>8. CASE Break(d)
  <2>1. OthersRest(d) /\ UNCHANGED docs /\ UNCHANGED queue
    BY <1>2, <1>8, Rest DEF Break
  <2>2. QED
    BY <1>1, <1>2, <1>3, <1>4, <1>8, <2>1, BreakCurrent
<1>9. ASSUME NEW i \in DOMAIN loads[d], NEW view, Answered(d, i, view)
      PROVE  \E reads : loads' = [loads EXCEPT ![d] = reads]
  <2>1. loads' = [loads EXCEPT ![d] =
                    [[loads[d] EXCEPT ![i].ready = TRUE]
                       EXCEPT ![i].view = Overlay(view, Persisted(d))]]
    BY <1>9, Types DEF Answered
  <2>2. QED
    BY <2>1
<1>10. CASE Raise(d)
  <2>1. PICK reads : loads' = [loads EXCEPT ![d] = reads]
    BY <1>9, <1>10 DEF Raise
  <2>2. OthersRest(d) /\ UNCHANGED docs /\ UNCHANGED queue
    BY <1>2, <1>10, <2>1, Rest DEF Raise
  <2>3. QED
    BY <1>1, <1>2, <1>3, <1>4, <1>10, <2>2, RaiseCurrent
<1>11. CASE RaiseFromCache(d)
  <2>1. PICK reads : loads' = [loads EXCEPT ![d] = reads]
    BY <1>9, <1>11 DEF RaiseFromCache
  <2>2. OthersRest(d) /\ UNCHANGED docs /\ UNCHANGED queue
    BY <1>2, <1>11, <2>1, Rest DEF RaiseFromCache
  <2>3. QED
    BY <1>1, <1>2, <1>3, <1>4, <1>11, <2>2, RaiseFromCacheCurrent
<1>12. ~Reject(d)
  BY <1>1, NothingRejected
<1>13. QED
  BY <1>5, <1>6, <1>7, <1>8, <1>10, <1>11, <1>12 DEF InBackground

\* A step that touches neither the store nor the list: the session may begin.
LEMMA LookCurrent ==
    ASSUME Inv(User), AllBacked, AllCurrent, NEW d \in Devices,
           UNCHANGED <<storeVars, userDatabase>>,
           NEW n \in Users[d] \cup {NoName},
           session' = [session EXCEPT ![d] = n] \/ UNCHANGED session
    PROVE  AllCurrent'
<1>1. /\ StoreBacked /\ PhoneCurrent(d) /\ ReadsWait(d)
      /\ session[d] \in Users[d] \cup {NoName}
  BY DEF AllBacked, AllCurrent, PhoneCurrent, Homed
<1>2. UNCHANGED docs /\ UNCHANGED queue /\ OthersRest(d)
  <2>1. /\ UNCHANGED docs /\ UNCHANGED queue /\ UNCHANGED cache
        /\ UNCHANGED durable /\ UNCHANGED applied /\ UNCHANGED covered
        /\ UNCHANGED loads /\ UNCHANGED userDatabase
    BY DEF storeVars
  <2>2. QED
    BY <2>1, Rest
<1>3. session'[d] \in Users[d] \cup {NoName}
  BY <1>1, Types
<1>4. PICK ws : ws = queue'[d]
  OBVIOUS
<1>5. PhoneCurrent(d)'
  BY <1>1, <1>2, <1>3, <1>4, QuietCurrent, OwnCurrent
<1>6. QED
  BY <1>1, <1>2, <1>5, OthersCurrent

\* The app ends and starts again.
LEMMA RestartCurrent ==
    ASSUME Inv(User), AllBacked, AllCurrent, NEW d \in Devices,
           NEW kept \in Seq(WritesOf(User)), Restart(d, kept),
           Len(kept) >= durable[d],
           \A i \in 1..durable[d] : kept[i] = queue[d][i],
           \A i \in DOMAIN kept :
               \/ \E j \in DOMAIN queue[d] : kept[i] = queue[d][j]
               \/ HomedWrite(d, kept[i])
    PROVE  AllCurrent'
<1>1. StoreBacked /\ PhoneCurrent(d)
  BY DEF AllBacked, AllCurrent
<1>2. Reopen(d, kept) /\ session' = [session EXCEPT ![d] = NoName]
  BY DEF Restart
<1>3. UNCHANGED docs /\ queue'[d] = kept /\ session'[d] = NoName
  BY <1>2, Types DEF Reopen
<1>4. OthersRest(d)
  BY Rest DEF Restart, Reopen
<1>5. PhoneCurrent(d)'
  BY <1>1, <1>2, <1>3, ReopenCurrent, OwnCurrent
<1>6. QED
  BY <1>1, <1>3, <1>4, <1>5, OthersCurrent

\* ... killed by the system, or by a text that is no number.
LEMMA KilledCurrent ==
    ASSUME Inv(User), AllBacked, AllCurrent, NEW d \in Devices,
           Restart(d, Persisted(d))
    PROVE  AllCurrent'
<1>1. PICK kept : kept = Persisted(d)
  OBVIOUS
<1>2. /\ kept \in Seq(WritesOf(User)) /\ Len(kept) = durable[d]
      /\ DOMAIN kept = 1..durable[d]
      /\ \A i \in 1..durable[d] : kept[i] = queue[d][i]
  BY <1>1, Queue, PrefixIs DEF Persisted
<1>3. \A i \in DOMAIN kept : i \in DOMAIN queue[d] /\ kept[i] = queue[d][i]
  BY <1>2, Positions
<1>4. Len(kept) >= durable[d]
  BY <1>2, Positions
<1>5. QED
  BY <1>1, <1>2, <1>3, <1>4, RestartCurrent

\* A handler that issues writes: for its own accounts, or of a balance alone.
LEMMA IssueCurrent ==
    ASSUME Inv(User), AllBacked, AllCurrent, NEW d \in Devices,
           NEW ws \in Seq(WritesOf(User)), Issue(d, ws),
           NEW view, userDatabase' = [userDatabase EXCEPT ![d] = view],
           UNCHANGED session, \A i \in DOMAIN ws : HomedWrite(d, ws[i]),
           ReadsWait(d)',
           \A n \in Names, f \in Fields : Current(d, n, f) => Current(d, n, f)'
    PROVE  AllCurrent'
<1>1. /\ StoreBacked /\ PhoneCurrent(d)
      /\ session'[d] \in Users[d] \cup {NoName}
  BY DEF AllBacked, AllCurrent, PhoneCurrent, Homed
<1>2. OthersRest(d) /\ UNCHANGED docs
  BY Rest DEF Issue
<1>3. PICK q, more : q = queue[d] /\ more = q \o ws
  OBVIOUS
<1>4. more = queue'[d] /\ q \in Seq(WritesOf(User))
  BY <1>3, Types DEF Issue
<1>5. ASSUME NEW i \in DOMAIN more
      PROVE  \/ \E j \in DOMAIN q : more[i] = q[j]
             \/ HomedWrite(d, more[i])
  <2>1. /\ DOMAIN q = 1..Len(q) /\ Len(q) \in Nat
        /\ DOMAIN ws = 1..Len(ws) /\ Len(ws) \in Nat
        /\ DOMAIN more = 1..(Len(q) + Len(ws))
        /\ \A j \in 1..Len(q) : more[j] = q[j]
        /\ \A j \in 1..Len(ws) : more[Len(q) + j] = ws[j]
    <3>1. q \in Seq(WritesOf(User))
      BY <1>4
    <3>2. q \o ws \in Seq(WritesOf(User)) /\ Len(q \o ws) = Len(q) + Len(ws)
      BY <3>1
    <3>3. /\ \A j \in 1..Len(q) : (q \o ws)[j] = q[j]
          /\ \A j \in 1..Len(ws) : (q \o ws)[Len(q) + j] = ws[j]
      BY <3>1
    <3>4. DOMAIN (q \o ws) = 1..(Len(q) + Len(ws))
      BY <3>2
    <3>5. QED
      BY <1>3, <3>1, <3>3, <3>4
  <2>2. CASE i \in 1..Len(q)
    BY <2>1, <2>2
  <2>3. CASE i \notin 1..Len(q)
    <3>1. i - Len(q) \in 1..Len(ws) /\ Len(q) + (i - Len(q)) = i
      BY <2>1, <2>3
    <3>2. more[i] = ws[i - Len(q)]
      BY <2>1, <3>1
    <3>3. QED
      BY <2>1, <3>1, <3>2
  <2>4. QED
    BY <2>2, <2>3
<1>6. PhoneCurrent(d)'
  BY <1>1, <1>3, <1>4, <1>5, OwnCurrent
<1>7. QED
  BY <1>1, <1>2, <1>6, OthersCurrent

\* The user who is logged in is one of this phone's.
LEMMA AtHome ==
    ASSUME Inv(User), AllBacked, AllCurrent, NEW d \in Devices,
           screen[d].at # "login", NEW fields, NEW u
    PROVE  session[d] \in Users[d] /\ HomedWrite(d, Update(session[d], fields, u))
<1>1. session[d] # NoName /\ session[d] \in Users[d] \cup {NoName}
  BY SessionFacts DEF AllCurrent, PhoneCurrent, Homed
<1>2. QED
  BY <1>1 DEF HomedWrite, Update

\* The login screen and the ends of a session.
LEMMA SessionCurrent ==
    ASSUME Patient, ~MayRefuse, Inv(User), AllBacked, AllCurrent,
           NEW d \in Devices, SessionStep(d)
    PROVE  AllCurrent'
<1>1. /\ StoreBacked /\ PhoneCurrent(d) /\ ReadsWait(d)
      /\ session[d] \in Users[d] \cup {NoName}
  BY DEF AllBacked, AllCurrent, PhoneCurrent, Homed
<1>2. PICK ws : ws = queue'[d]
  OBVIOUS
<1>3. CASE Deliver(d)
  <2>1. /\ OthersRest(d) /\ UNCHANGED docs /\ UNCHANGED queue
        /\ UNCHANGED session
    BY <1>3, Rest DEF Deliver
  <2>2. PhoneCurrent(d)'
    BY <1>1, <1>2, <1>3, <2>1, DeliverCurrent, OwnCurrent
  <2>3. QED
    BY <1>1, <2>1, <2>2, OthersCurrent
<1>4. ASSUME NEW n \in Users[d], NEW p \in Passwords, DidTapLogin(d, n, p)
      PROVE  AllCurrent'
  BY <1>4, LookCurrent DEF DidTapLogin
<1>5. CASE Dismiss(d)
  BY <1>5, LookCurrent DEF Dismiss
<1>6. ASSUME NEW n \in Newcomers[d], NEW p \in Passwords, VeryfySignUp(d, n, p)
      PROVE  AllCurrent'
  <2>1. PICK u, w : u = [BlankUser EXCEPT !.password = p] /\ w = Create(n, u)
    OBVIOUS
  <2>2. n \in Names /\ u \in User
    <3>1. n \in Names /\ BlankUser \in User
      BY SessionAssumption, BlankAmong
    <3>2. QED
      BY <2>1, <3>1, UserClosed DEF Closed
  <2>3. w \in WritesOf(User) /\ <<w>> \in Seq(WritesOf(User))
    BY <2>1, <2>2 DEF Create, WritesOf
  <2>4. HomedWrite(d, w)
    BY <2>1 DEF HomedWrite, Create
  <2>5. \A i \in DOMAIN <<w>> : HomedWrite(d, <<w>>[i])
    BY <2>4
  <2>6. PICK view : view = [userDatabase[d] EXCEPT ![n] = u]
    OBVIOUS
  <2>7. /\ Issue(d, <<w>>) /\ UNCHANGED session
        /\ userDatabase' = [userDatabase EXCEPT ![d] = view]
    BY <1>6, <2>1, <2>6, Types DEF VeryfySignUp
  <2>8. /\ ReadsWait(d)'
        /\ \A m \in Names, f \in Fields : Current(d, m, f) => Current(d, m, f)'
    BY <1>1, <1>6, SignUpCurrent
  <2>9. QED
    BY <2>3, <2>5, <2>7, <2>8, IssueCurrent
<1>7. CASE DidTapLogout(d)
  <2>1. /\ OthersRest(d) /\ UNCHANGED docs /\ UNCHANGED queue
        /\ session'[d] = NoName /\ AskForUsers(d)
    BY <1>7, Types, Rest DEF DidTapLogout, AskForUsers
  <2>2. PhoneCurrent(d)'
    BY <1>1, <1>2, <2>1, AskCurrent, OwnCurrent
  <2>3. QED
    BY <1>1, <2>1, <2>2, OthersCurrent
<1>8. CASE Crash(d)
  BY <1>8, KilledCurrent DEF Crash
<1>9. ~LoadFails(d) /\ ~DidTapTooEarly(d)
  BY DEF LoadFails, DidTapTooEarly
<1>10. QED
  BY <1>3, <1>4, <1>5, <1>6, <1>7, <1>8, <1>9 DEF SessionStep

\* A handler that changes some fields of the user and issues just these.
LEMMA ChangedCurrent ==
    ASSUME Patient, Inv(User), AllBacked, AllCurrent, NEW d \in Devices,
           NEW u \in User, NEW fields \in SUBSET Fields,
           screen[d].at # "login", ChangeCurrUser(d, u), UNCHANGED session,
           Issue(d, <<Update(session[d], fields, u)>>),
           \A f \in Fields \ fields : u[f] = CurrUser(d)[f]
    PROVE  AllCurrent'
<1>1. ReadsWait(d)
  BY DEF AllCurrent, PhoneCurrent
<1>2. PICK w : w = Update(session[d], fields, u)
  OBVIOUS
<1>3. w \in WritesOf(User) /\ HomedWrite(d, w)
  <2>1. session[d] \in Names /\ Patched(BlankUser, fields, u) \in User
    BY SessionFacts, BlankAmong, UserClosed, PatchedIn DEF Closed
  <2>2. w \in WritesOf(User)
    BY <1>2, <2>1 DEF Update, WritesOf
  <2>3. QED
    BY <1>2, <2>2, AtHome
<1>4. /\ <<w>> \in Seq(WritesOf(User))
      /\ \A i \in DOMAIN <<w>> : HomedWrite(d, <<w>>[i])
  BY <1>3
<1>5. PICK view : userDatabase' = [userDatabase EXCEPT ![d] = view]
  BY ChangedUser
<1>6. /\ ReadsWait(d)'
      /\ \A n \in Names, f \in Fields : Current(d, n, f) => Current(d, n, f)'
  BY <1>1, ChangeCurrent
<1>7. QED
  BY <1>2, <1>4, <1>5, <1>6, IssueCurrent

\* Friends, trades, cards and passwords.
LEMMA ChangesCurrent ==
    ASSUME Patient, Inv(User), AllBacked, AllCurrent, NEW d \in Devices,
           FriendsStep(d) \/ TradingStep(d) \/ SettingsStep(d)
    PROVE  AllCurrent'
<1> DEFINE me == CurrUser(d)
<1>1. screen[d].at # "login"
  BY DEF FriendsStep, DidTapSearchButton, DidSelectResult, DidSelectFriend,
         DidTapModifyFriendButton, TradingStep, DidTapSearchStock, BuyButton,
         SellButton, Trade, SettingsStep, DidTapAddCardButton,
         DidTapChangePassword
<1>2. /\ me \in User /\ screen[d] \in Screen
      /\ NoName \in Users[d] \cup {NoName}
  BY <1>1, SessionFacts, Types
<1>3. CASE \/ \E q \in Queries : DidTapSearchButton(d, q)
           \/ \E n \in Names : DidSelectResult(d, n)
           \/ \E n \in Names : DidSelectFriend(d, n)
           \/ \E s \in Symbols, p \in Quotes : DidTapSearchStock(d, s, p)
  <2>1. UNCHANGED <<storeVars, userDatabase>> /\ UNCHANGED session
    BY <1>3 DEF DidTapSearchButton, DidSelectResult, DidSelectFriend,
                DidTapSearchStock
  <2>2. QED
    BY <1>2, <2>1, LookCurrent
<1>4. CASE DidTapModifyFriendButton(d)
  <2> DEFINE n == screen[d].who
             u == [me EXCEPT !.friends = Append(@, n)]
  <2>1. /\ ChangeCurrUser(d, u) /\ UNCHANGED session
        /\ Issue(d, <<Update(session[d], {"friends"}, u)>>)
        /\ ~screen[d].known /\ screen[d].at = "friend"
    BY <1>4 DEF DidTapModifyFriendButton
  <2>2. u \in User
    <3>1. n = NoName \/ n \notin Elements(me.friends)
      BY <1>1, <2>1, SessionFacts DEF Inv, PageSettled
    <3>2. n \in Names \cup {NoName}
      BY <1>2 DEF Screen
    <3>3. QED
      BY <1>2, <3>1, <3>2, UserClosed DEF Closed
  <2>3. {"friends"} \in SUBSET Fields
    BY DEF Fields
  <2>4. \A f \in Fields \ {"friends"} : u[f] = me[f]
    BY <1>2 DEF User, Fields
  <2> HIDE DEF u, n
  <2>5. QED
    BY <1>1, <2>1, <2>2, <2>3, <2>4, ChangedCurrent
<1>5. ASSUME NEW u \in User, Trade(d, u),
             \A f \in Fields \ {"stock", "investmentBalance"} : u[f] = me[f]
      PROVE  AllCurrent'
  <2>1. PICK fields : fields = {"stock", "investmentBalance"}
    OBVIOUS
  <2>2. fields \in SUBSET Fields
    BY <2>1 DEF Fields
  <2>3. /\ ChangeCurrUser(d, u) /\ UNCHANGED session
        /\ Issue(d, <<Update(session[d], fields, u)>>)
        /\ \A f \in Fields \ fields : u[f] = me[f]
    BY <1>5, <2>1 DEF Trade
  <2>4. QED
    BY <1>1, <2>2, <2>3, ChangedCurrent
<1>6. ASSUME NEW q \in Quantities, BuyButton(d, q) \/ SellButton(d, q)
      PROVE  AllCurrent'
  <2> DEFINE s == screen[d].symbol
             p == screen[d].price
  <2>1. s \in Symbols /\ p \in Int /\ q \in Int
    BY <1>1, <1>2, <1>6, SessionFacts, TradingAssumption
    DEF BuyButton, SellButton, Trade, Inv, PageSettled, Screen
  <2>2. /\ CanBuy(me, q, p) => Bought(me, s, q, p) \in User
        /\ CanSell(me, s, q) => Sold(me, s, q, p) \in User
    BY <1>2, <2>1, TradedTypes
  <2>3. \A f \in Fields \ {"stock", "investmentBalance"} :
            /\ Bought(me, s, q, p)[f] = me[f]
            /\ Sold(me, s, q, p)[f] = me[f]
    BY <1>2 DEF Bought, Sold, User, Fields
  <2>4. QED
    BY <1>2, <1>5, <1>6, <2>2, <2>3 DEF BuyButton, SellButton
<1>7. ASSUME NEW c \in NewCards, DidTapAddCardButton(d, c)
      PROVE  AllCurrent'
  <2> DEFINE u == [me EXCEPT !.cards = Append(@, c)]
  <2>1. /\ ChangeCurrUser(d, u) /\ UNCHANGED session
        /\ Issue(d, <<Update(session[d], {"cards"}, u)>>)
    BY <1>7 DEF DidTapAddCardButton
  <2>2. u \in User /\ {"cards"} \in SUBSET Fields
    BY <1>2, SettingsAssumption, UserClosed DEF Closed, Fields
  <2>3. \A f \in Fields \ {"cards"} : u[f] = me[f]
    BY <1>2 DEF User, Fields
  <2> HIDE DEF u
  <2>4. QED
    BY <1>1, <2>1, <2>2, <2>3, ChangedCurrent
<1>8. ASSUME NEW p \in Passwords, NEW q \in NewPasswords,
             DidTapChangePassword(d, p, q)
      PROVE  AllCurrent'
  <2> DEFINE u == [me EXCEPT !.password = q]
  <2>1. /\ ChangeCurrUser(d, u) /\ UNCHANGED session
        /\ Issue(d, <<Update(session[d], {"password"}, u)>>)
    BY <1>8 DEF DidTapChangePassword
  <2>2. u \in User /\ {"password"} \in SUBSET Fields
    BY <1>2, SettingsAssumption, UserClosed DEF Closed, Fields
  <2>3. \A f \in Fields \ {"password"} : u[f] = me[f]
    BY <1>2 DEF User, Fields
  <2> HIDE DEF u
  <2>4. QED
    BY <1>1, <2>1, <2>2, <2>3, ChangedCurrent
<1>9. QED
  BY <1>3, <1>4, <1>6, <1>7, <1>8 DEF FriendsStep, TradingStep, SettingsStep

\* Paying a friend.
LEMMA PaymentCurrent ==
    ASSUME Patient, Inv(User), AllBacked, AllCurrent, RecipientsAreFriends,
           NEW d \in Devices, PaymentStep(d)
    PROVE  AllCurrent'
<1>1. ReadsWait(d) /\ NoName \in Users[d] \cup {NoName}
  BY DEF AllCurrent, PhoneCurrent
<1>2. CASE \/ \E n \in Names \cup {NoName} : DidSelectRecipient(d, n)
           \/ \E a \in Amounts : DidTapPayButton(d, a)
           \/ \E invest \in BOOLEAN : ShowConfirmationAlert(d, invest)
           \/ DidTapDiscard(d)
  <2>1. UNCHANGED <<storeVars, userDatabase>> /\ UNCHANGED session
    BY <1>2 DEF DidSelectRecipient, DidTapPayButton, ShowConfirmationAlert,
                DidTapDiscard
  <2>2. QED
    BY <1>1, <2>1, LookCurrent
<1>3. CASE DidTapPayUnparsable(d)
  BY <1>3, KilledCurrent DEF DidTapPayUnparsable
<1>4. CASE DidConfirmPay(d)
  <2>1. /\ screen[d].at = "confirm" /\ screen[d].who \in Names
        /\ screen[d].at # "login"
        /\ Issue(d, PaymentWrites(d)) /\ UNCHANGED session
    <3>1. screen[d].at = "confirm"
      BY <1>4 DEF DidConfirmPay
    <3>2. QED
      BY <1>4, <3>1 DEF DidConfirmPay
  <2>2. PICK view : userDatabase' = [userDatabase EXCEPT ![d] = view]
    BY <1>4 DEF DidConfirmPay
  <2>3. PICK ws : ws = PaymentWrites(d)
    OBVIOUS
  <2>4. ASSUME NEW i \in DOMAIN ws
        PROVE  HomedWrite(d, ws[i])
    <3>1. /\ DOMAIN ws = IF screen[d].invest THEN 1..3 ELSE 1..2
          /\ screen[d].invest =>
                 ws[3] = Update(session[d], {"investmentBalance"}, Invested(d))
      BY <2>1, <2>3, PaymentWritesAre
    <3>2. i = 1 \/ i = 2 \/ (i = 3 /\ screen[d].invest)
      BY <3>1
    <3>3. \E u : ws[1] = Update(session[d], {"balance"}, u)
      BY <2>1, <2>3, PaymentWritesAre
    <3>4. \E u : ws[2] = Update(screen[d].who, {"balance"}, u)
      BY <2>1, <2>3, PaymentWritesAre
    <3>5. \A u : HomedWrite(d, Update(screen[d].who, {"balance"}, u))
      BY DEF HomedWrite, Update
    <3>6. \A u, fields : HomedWrite(d, Update(session[d], fields, u))
      BY <2>1, AtHome
    <3>7. QED
      BY <3>1, <3>2, <3>3, <3>4, <3>5, <3>6
  <2>5. ws \in Seq(WritesOf(User))
    BY <2>1, <2>3, PaymentWritesAre
  <2>6. /\ ReadsWait(d)'
        /\ \A n \in Names, f \in Fields : Current(d, n, f) => Current(d, n, f)'
    BY <1>1, <1>4, ConfirmCurrent
  <2>7. QED
    BY <2>1, <2>2, <2>3, <2>4, <2>5, <2>6, IssueCurrent
<1>5. CASE DidConfirmPayNobody(d)
  <2>1. PICK debit, issued :
            /\ debit = Update(session[d], {"balance"},
                         [CurrUser(d) EXCEPT !.balance = @ - screen[d].amount])
            /\ issued = Append(queue[d], debit)
    OBVIOUS
  <2>2. PICK stored \in durable[d]..Len(issued) :
            Restart(d, SubSeq(issued, 1, stored))
    BY <1>5, <2>1 DEF DidConfirmPayNobody
  <2>3. /\ session[d] \in Names /\ CurrUser(d) \in User
        /\ screen[d].amount \in Int /\ screen[d].at # "login"
    BY <1>5, SessionFacts, Types DEF DidConfirmPayNobody, Screen
  <2>4. debit \in WritesOf(User) /\ HomedWrite(d, debit)
    <3>1. [CurrUser(d) EXCEPT !.balance = @ - screen[d].amount] \in User
      BY <2>3, BalanceIn, UserClosed
    <3>2. QED
      BY <2>1, <2>3, <3>1, WritesIn, UserClosed, AtHome DEF Closed, Fields
  <2>5. /\ queue[d] \in Seq(WritesOf(User)) /\ durable[d] \in 0..Len(queue[d])
        /\ Len(queue[d]) \in Nat /\ DOMAIN queue[d] = 1..Len(queue[d])
    BY Queue
  <2>6. /\ issued \in Seq(WritesOf(User)) /\ Len(issued) = Len(queue[d]) + 1
        /\ DOMAIN issued = 1..(Len(queue[d]) + 1)
        /\ \A i \in 1..Len(queue[d]) : issued[i] = queue[d][i]
        /\ issued[Len(queue[d]) + 1] = debit
    BY <2>1, <2>4, <2>5
  <2>7. PICK kept : kept = SubSeq(issued, 1, stored)
    OBVIOUS
  <2>8. stored \in 0..Len(issued)
    BY <2>5, <2>6
  <2>9. /\ kept \in Seq(WritesOf(User)) /\ Len(kept) = stored
        /\ DOMAIN kept = 1..stored
        /\ \A i \in 1..stored : kept[i] = issued[i]
    BY <2>6, <2>7, <2>8, PrefixIs
  <2>10. /\ Len(kept) >= durable[d]
         /\ \A i \in 1..durable[d] : kept[i] = queue[d][i]
    BY <2>5, <2>6, <2>8, <2>9
  <2>11. ASSUME NEW i \in DOMAIN kept
         PROVE  \/ \E j \in DOMAIN queue[d] : kept[i] = queue[d][j]
                \/ HomedWrite(d, kept[i])
    <3>1. i \in 1..Len(queue[d]) \/ i = Len(queue[d]) + 1
      BY <2>5, <2>6, <2>8, <2>9
    <3>2. kept[i] = issued[i]
      BY <2>9
    <3>3. QED
      BY <2>4, <2>5, <2>6, <3>1, <3>2
  <2>12. QED
    BY <2>2, <2>7, <2>9, <2>10, <2>11, RestartCurrent
<1>6. QED
  BY <1>2, <1>3, <1>4, <1>5 DEF PaymentStep

\* Every step keeps the story.
LEMMA NextCurrent ==
    ASSUME Patient, ~MayRefuse, Inv(User), AllBacked, RecipientsAreFriends,
           AllCurrent, [Next]_vars
    PROVE  AllCurrent'
<1>1. CASE UNCHANGED vars
  <2>1. UNCHANGED storeVars /\ UNCHANGED userDatabase /\ UNCHANGED session
    BY <1>1 DEF vars, appVars
  <2>2. ASSUME NEW d \in Devices
        PROVE  PhoneCurrent(d)'
    <3>1. PhoneCurrent(d) /\ UNCHANGED queue
      BY <2>1 DEF AllCurrent, storeVars
    <3>2. Homed(d)'
      BY <2>1, <3>1 DEF PhoneCurrent, Homed, HomedWrite
    <3>3. /\ ReadsWait(d)'
          /\ \A n \in Names, f \in Fields :
                 Current(d, n, f) => Current(d, n, f)'
      BY <2>1, <3>1, QuietCurrent DEF PhoneCurrent
    <3>4. QED
      BY <3>1, <3>2, <3>3 DEF PhoneCurrent, Solely, HomeOnly
  <2>3. QED
    BY <2>2 DEF AllCurrent
<1>2. ASSUME NEW d \in Devices, Step(d)
      PROVE  AllCurrent'
  BY <1>2, BackgroundCurrent, SessionCurrent, PaymentCurrent, ChangesCurrent
     DEF Step
<1>3. QED
  BY <1>1, <1>2 DEF Next

\* At the start a phone has written and shows nothing.
LEMMA InitCurrent == Init => AllCurrent
<1> SUFFICES ASSUME Init
             PROVE  AllCurrent
  OBVIOUS
<1>1. /\ cache = [d \in Devices |-> EmptyView]
      /\ queue = [d \in Devices |-> <<>>]
      /\ durable = [d \in Devices |-> 0] /\ applied = [d \in Devices |-> 0]
      /\ covered = [d \in Devices |-> 0]
      /\ loads = [d \in Devices |->
                    <<[behind |-> 0, ready |-> FALSE, view |-> EmptyView]>>]
      /\ userDatabase = [d \in Devices |-> EmptyView]
      /\ session = [d \in Devices |-> NoName]
  BY DEF Init, StoreInit, SessionInit
<1>2. ASSUME NEW d \in Devices
      PROVE  PhoneCurrent(d)
  <2>1. PICK load : load = [behind |-> 0, ready |-> FALSE, view |-> EmptyView]
    OBVIOUS
  <2>2. /\ cache[d] = EmptyView /\ queue[d] = <<>> /\ durable[d] = 0
        /\ applied[d] = 0 /\ covered[d] = 0 /\ loads[d] = <<load>>
        /\ session[d] = NoName
    BY <1>1, <2>1
  <2>3. /\ ~load.ready /\ load.behind = 0
        /\ loads[d] # <<>> /\ \A i \in DOMAIN loads[d] : loads[d][i] = load
    <3>1. ~load.ready /\ load.behind = 0
      BY <2>1
    <3>2. <<load>> # <<>> /\ \A i \in DOMAIN <<load>> : <<load>>[i] = load
      OBVIOUS
    <3>3. QED
      BY <2>2, <3>1, <3>2
  <2>4. Homed(d) /\ ReadsWait(d)
    BY <2>2, <2>3 DEF Homed, ReadsWait
  <2>5. ASSUME NEW n \in Names, NEW f \in Fields
        PROVE  Current(d, n, f)
    <3>1. \A b : Latest(b, SubSeq(queue[d], 1, 0), n, f) = b
      BY LatestOfNone
    <3>2. cache[d][n] = NoDoc
      BY <2>2 DEF EmptyView
    <3>3. StoreCurrent(d, n, f)
      BY <2>2, <3>1, <3>2 DEF StoreCurrent, Before
    <3>4. ReadsCurrent(d, n, f) /\ ListCurrent(d, n, f)
      BY <2>3 DEF ReadsCurrent, ListCurrent
    <3>5. QED
      BY <3>3, <3>4 DEF Current
  <2>6. QED
    BY <2>4, <2>5 DEF PhoneCurrent
<1>3. QED
  BY <1>2 DEF AllCurrent

--------------------------------------------------------------------------------
(* The theorems.                                                              *)

\* The invariant of this module with those it rests on.
LEMMA Currency ==
    ASSUME Patient, ~MayRefuse, SelfContained(InitialDocs)
    PROVE  Spec => [](Inv(User) /\ AllBacked /\ AllCurrent)
<1>1. Spec => [](Inv(User) /\ RecipientsAreFriends /\ AllBacked)
  BY Backing
<1>2. Init => AllCurrent
  BY InitCurrent
<1>3. Inv(User) /\ RecipientsAreFriends /\ AllBacked /\ AllCurrent /\ [Next]_vars
      => AllCurrent'
  BY NextCurrent
<1>4. QED
  BY <1>1, <1>2, <1>3, PTL DEF Spec

\* Users with the same fields are the same.
LEMMA SameFields ==
    ASSUME NEW u \in User, NEW v \in User, \A f \in Fields : u[f] = v[f]
    PROVE  u = v
<1>1. /\ u.password = v.password /\ u.balance = v.balance
      /\ u.investmentBalance = v.investmentBalance
      /\ u.friends = v.friends /\ u.cards = v.cards /\ u.stock = v.stock
  BY DEF Fields
<1>2. QED
  BY <1>1 DEF User

\* What a phone shows of an account is what the server will have of it, field
\* by field, where the phone alone changes the field.
LEMMA ShownIsSettled ==
    ASSUME Inv(User), AllBacked, AllCurrent, NEW d \in Devices, NEW n \in Names,
           loads[d] = <<>>, userDatabase[d][n] # NoDoc
    PROVE  /\ userDatabase[d][n] \in User /\ Settled(d)[n] \in User
           /\ \A f \in Fields : Solely(d, n, f) =>
                  Settled(d)[n][f] = userDatabase[d][n][f]
<1>1. /\ n \in Known(d) /\ CacheBacked(d) /\ PhoneCurrent(d)
  BY DEF AllBacked, StoreBacked, SessionBacked, ViewBacked, Present, AllCurrent
<1>2. Exists(docs, queue[d], n)
  <2>1. CASE n \in Present(cache[d])
    BY <1>1, <2>1 DEF CacheBacked, Present, Exists
  <2>2. CASE n \in CreatedBefore(queue[d], Len(queue[d]) + 1)
    BY <2>2 DEF CreatedBefore, Exists
  <2>3. QED
    BY <1>1, <2>1, <2>2 DEF Known, KnownBefore
<1>3. /\ docs \in ViewsOf(User) /\ queue[d] \in Seq(WritesOf(User))
      /\ userDatabase[d] \in ViewsOf(User) /\ NoDoc \notin User
  BY Types, SessionAssumption
<1>4. Settled(d)[n] \in User /\ Settled(d)[n] # NoDoc
  <2>1. Overlaid(docs, queue[d], n) \in User
    BY <1>3, OverlaidIn, UserClosed DEF Closed
  <2>2. Settled(d)[n] = Overlaid(docs, queue[d], n)
    BY <1>2 DEF Settled, Overlay
  <2>3. QED
    BY <1>3, <2>1, <2>2
<1>5. ASSUME NEW f \in Fields, Solely(d, n, f)
      PROVE  Settled(d)[n][f] = userDatabase[d][n][f]
  <2>1. Current(d, n, f)
    BY <1>1, <1>5 DEF PhoneCurrent
  <2>2. Settled(d)[n][f] = Latest(Base(docs, n, f), queue[d], n, f)
    BY <1>4, OverlayField DEF Settled
  <2>3. QED
    BY <2>1, <2>2 DEF Current, ListCurrent
<1>6. userDatabase[d][n] \in User
  BY <1>3 DEF ViewsOf
<1>7. QED
  BY <1>4, <1>5, <1>6

\* With one phone, what it shows is what the server will have once the phone's
\* writes are through, whatever the users tap and however often answers are
\* lost, the app is killed and reads are answered from the cache: for any
\* number of accounts, payments, trades and pending writes.
THEOREM TheListIsCurrent ==
    ASSUME Patient, ~MayRefuse, SelfContained(InitialDocs),
           NEW d, Devices = {d}
    PROVE  Spec => []LocalViewCurrent
<1>1. ASSUME Inv(User), AllBacked, AllCurrent
      PROVE  LocalViewCurrent
  <2>1. ASSUME NEW e \in Devices, NEW n \in Names, loads[e] = <<>>,
               userDatabase[e][n] # NoDoc
        PROVE  userDatabase[e][n] = Settled(e)[n]
    <3>1. \A f \in Fields : Solely(e, n, f)
      BY DEF Solely
    <3>2. QED
      BY <1>1, <2>1, <3>1, ShownIsSettled, SameFields
  <2>2. QED
    BY <2>1 DEF LocalViewCurrent
<1>2. QED
  BY <1>1, Currency, PTL

\* With any number of phones, when everybody keeps to a phone of their own,
\* the fields only their owner changes reach the server as the phone shows
\* them: no payment of somebody else, and no write sent again after a break,
\* brings back an older value.
THEOREM OwnFieldsAreDurable ==
    ASSUME Patient, ~MayRefuse, SelfContained(InitialDocs)
    PROVE  Spec => []OwnFieldsDurable
<1>1. ASSUME Inv(User), AllBacked, AllCurrent
      PROVE  OwnFieldsDurable
  <2>1. ASSUME NEW d \in Devices, NEW n \in Names, HomeOnly(d, n),
               loads[d] = <<>>, userDatabase[d][n] # NoDoc
        PROVE  Patched(Settled(d)[n], {"balance"}, userDatabase[d][n])
               = userDatabase[d][n]
    <3>1. PICK u, v, w : /\ u = userDatabase[d][n] /\ v = Settled(d)[n]
                         /\ w = Patched(v, {"balance"}, u)
      OBVIOUS
    <3>2. /\ u \in User /\ v \in User
          /\ \A f \in Fields \ {"balance"} : v[f] = u[f]
      BY <1>1, <2>1, <3>1, ShownIsSettled DEF Solely
    <3>3. w \in User
      BY <3>1, <3>2, UserClosed, PatchedIn DEF Closed
    <3>4. \A f \in Fields : w[f] = IF f \in {"balance"} THEN u[f] ELSE v[f]
      BY <3>1, PatchedField
    <3>5. w = u
      BY <3>2, <3>3, <3>4, SameFields
    <3>6. QED
      BY <3>1, <3>5
  <2>2. QED
    BY <2>1 DEF OwnFieldsDurable
<1>2. QED
  BY <1>1, Currency, PTL
================================================================================
