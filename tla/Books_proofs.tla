------------------------------ MODULE Books_proofs -----------------------------
(******************************************************************************)
(* With one phone the app implements Ledger: the books are the balances that  *)
(* the server's documents and the first k pending writes lead to, for every k *)
(* from the stored writes to all of them.                                     *)
(*                                                                            *)
(* Two things have to be known beyond what Copies_proofs has.  A sign-up must *)
(* not replace an account, or its balance would be gone without an entry: the *)
(* list the sign-up screen searches has every name that is taken (TakenShown).*)
(* And what the alert confirms is an amount that somebody typed (Typed).      *)
(******************************************************************************)
EXTENDS Copies_proofs

--------------------------------------------------------------------------------
(* The books of a phone that has the accounts to itself.                      *)

\* A page: a balance for every name.
Sheet == [Names -> Int]

\* The balances when the writes ws are over the documents of view.
PageOf(view, ws) ==
    [n \in Names |-> Latest(Base(view, n, "balance"), ws, n, "balance")]

\* ... or over those of a page.
PageOver(page, ws) == [n \in Names |-> Latest(page[n], ws, n, "balance")]

\* The pages that the writes ws, one after the other, add to a page.
PagesOver(page, ws) ==
    [i \in 1..Len(ws) |-> PageOver(page, SubSeq(ws, 1, i))]

\* The book old with the pages added behind its latest one.
Adds(old, new, latest, added) ==
    /\ old[Len(old)] = latest /\ Len(new) > Len(old)
    /\ SubSeq(new, Len(old) + 1, Len(new)) = added
    /\ new = old \o added

\* A page for every write of ws behind the first k, and one for these.
BookOf(view, ws, k) ==
    [i \in 1..(Len(ws) - k + 1) |-> PageOf(view, SubSeq(ws, 1, k + i - 1))]

\* ... as a sequence, from the first page to the latest.
IsBook(book, view, ws, k) ==
    /\ book \in Seq(Sheet) /\ Len(book) = Len(ws) - k + 1
    /\ Len(book) \in Nat /\ Len(book) >= 1
    /\ \A i \in 1..Len(book) : book[i] = PageOf(view, SubSeq(ws, 1, k + i - 1))
    /\ book[1] = PageOf(view, SubSeq(ws, 1, k))
    /\ book[Len(book)] = PageOf(view, ws)

Pages(d) == BookOf(docs, queue[d], durable[d])

\* What a view must list of the accounts that may be signed up on d: a sign-up
\* is for a name that is not listed, and replaces an account that is there.
Complete(d, view) ==
    \A n \in Newcomers[d] : Exists(docs, queue[d], n) => view[n] # NoDoc

ReadsComplete(d) ==
    \A i \in DOMAIN loads[d] :
        loads[d][i].ready => Complete(d, loads[d][i].view)

\* A read that is answered from the cache finds them as well.
CacheComplete(d) ==
    MayBeOffline =>
        \A n \in Newcomers[d] :
            docs[n] # NoDoc => Exists(cache[d], Persisted(d), n)

TakenShown(d) ==
    /\ loads[d] = <<>> /\ loaded[d] => Complete(d, userDatabase[d])
    /\ ReadsComplete(d) /\ CacheComplete(d)

\* The amount on the screen is one that was typed.
Typed(d) == screen[d].at \in {"sheet", "confirm"} => screen[d].amount \in Amounts

\* Over a balance, the writes give a balance.
LEMMA LatestIsNumber ==
    ASSUME NEW ws \in Seq(WritesOf(User)), NEW n, NEW b \in Int
    PROVE  Latest(b, ws, n, "balance") \in Int
<1>1. \A i \in DOMAIN ws : ws[i].value["balance"] \in Int
  <2>1. \A u \in User : u["balance"] \in Int
    BY DEF User
  <2>2. QED
    BY <2>1, WriteType
<1>2. \/ \A j \in DOMAIN ws : ~Touches(ws[j], n, "balance")
      \/ \E i \in DOMAIN ws :
            /\ Touches(ws[i], n, "balance")
            /\ \A j \in DOMAIN ws : j > i => ~Touches(ws[j], n, "balance")
  BY LatestCases
<1>3. CASE \A j \in DOMAIN ws : ~Touches(ws[j], n, "balance")
  <2>1. Latest(b, ws, n, "balance") = b
    BY <1>3, LatestCases
  <2>2. QED
    BY <2>1
<1>4. ASSUME NEW i \in DOMAIN ws, Touches(ws[i], n, "balance"),
             \A j \in DOMAIN ws : j > i => ~Touches(ws[j], n, "balance")
      PROVE  Latest(b, ws, n, "balance") \in Int
  <2>1. Latest(b, ws, n, "balance") = ws[i].value["balance"]
    BY <1>4, LatestCases
  <2>2. QED
    BY <1>1, <2>1
<1>5. QED
  BY <1>2, <1>3, <1>4

\* A page is a balance for every name.
LEMMA PageType ==
    ASSUME NEW view \in ViewsOf(User), NEW ws \in Seq(WritesOf(User))
    PROVE  PageOf(view, ws) \in Sheet
<1>1. ASSUME NEW n \in Names
      PROVE  Base(view, n, "balance") \in Int
  <2>1. view[n] \in User \cup {NoDoc} /\ BlankUser \in User
    BY BlankAmong DEF ViewsOf
  <2>2. \A u \in User : u["balance"] \in Int
    BY DEF User
  <2>3. QED
    BY <2>1, <2>2 DEF Base
<1>2. QED
  BY <1>1, LatestIsNumber DEF PageOf, Sheet

\* The pages are a sequence, and never none.
LEMMA BookType ==
    ASSUME NEW view \in ViewsOf(User), NEW ws \in Seq(WritesOf(User)),
           NEW k \in 0..Len(ws)
    PROVE  IsBook(BookOf(view, ws, k), view, ws, k)
<1>0. PICK book : book = BookOf(view, ws, k)
  OBVIOUS
<1>1. PICK m : m = Len(ws) - k + 1
  OBVIOUS
<1>2. m \in Nat /\ m >= 1 /\ k \in Nat /\ Len(ws) = k + m - 1
  BY <1>1
<1>3. \A i \in 1..m : k + i - 1 \in 0..Len(ws)
  BY <1>2
<1>4. \A i \in 1..m : PageOf(view, SubSeq(ws, 1, k + i - 1)) \in Sheet
  BY <1>3, PrefixIs, PageType
<1>5. book = [i \in 1..m |-> PageOf(view, SubSeq(ws, 1, k + i - 1))]
  BY <1>0, <1>1 DEF BookOf
<1>6. book \in [1..m -> Sheet]
  BY <1>4, <1>5
<1>7. book \in Seq(Sheet) /\ Len(book) = m
  BY <1>2, <1>6
<1>8. \A i \in 1..m : book[i] = PageOf(view, SubSeq(ws, 1, k + i - 1))
  BY <1>5
<1>9. book[1] = PageOf(view, SubSeq(ws, 1, k))
  <2>1. 1 \in 1..m /\ k + 1 - 1 = k
    BY <1>2
  <2>2. QED
    BY <1>8, <2>1
<1>10. book[m] = PageOf(view, ws)
  <2>1. m \in 1..m /\ SubSeq(ws, 1, k + m - 1) = ws
    BY <1>2
  <2>2. QED
    BY <1>8, <2>1
<1>11. QED
  BY <1>0, <1>1, <1>2, <1>7, <1>8, <1>9, <1>10 DEF IsBook

\* When a further write is stored, the first page goes.
LEMMA BookSaved ==
    ASSUME NEW view \in ViewsOf(User), NEW ws \in Seq(WritesOf(User)),
           NEW k \in 0..Len(ws), k < Len(ws)
    PROVE  /\ Len(BookOf(view, ws, k)) > 1
           /\ BookOf(view, ws, k + 1) = Tail(BookOf(view, ws, k))
<1>1. PICK old, new : old = BookOf(view, ws, k) /\ new = BookOf(view, ws, k + 1)
  OBVIOUS
<1>2. k + 1 \in 0..Len(ws) /\ Len(ws) \in Nat
  OBVIOUS
<1>3. /\ old \in Seq(Sheet) /\ Len(old) = Len(ws) - k + 1
      /\ \A i \in 1..Len(old) : old[i] = PageOf(view, SubSeq(ws, 1, k + i - 1))
  <2>1. IsBook(old, view, ws, k)
    BY <1>1, BookType
  <2>2. QED
    BY <2>1 DEF IsBook
<1>4. /\ new \in Seq(Sheet) /\ Len(new) = Len(ws) - k
      /\ \A i \in 1..Len(new) : new[i] = PageOf(view, SubSeq(ws, 1, k + 1 + i - 1))
  <2>1. IsBook(new, view, ws, k + 1)
    BY <1>1, <1>2, BookType
  <2>2. Len(ws) - (k + 1) + 1 = Len(ws) - k
    BY <1>2
  <2>3. QED
    BY <2>1, <2>2 DEF IsBook
<1>5. Len(old) > 1 /\ old # <<>>
  BY <1>2, <1>3
<1>6. /\ Tail(old) \in Seq(Sheet) /\ Len(Tail(old)) = Len(new)
      /\ \A i \in 1..Len(new) : Tail(old)[i] = old[i + 1]
  <2>1. /\ Tail(old) \in Seq(Sheet) /\ Len(Tail(old)) = Len(old) - 1
        /\ \A i \in 1..(Len(old) - 1) : Tail(old)[i] = old[i + 1]
    BY <1>3, <1>5
  <2>2. Len(new) = Len(old) - 1
    BY <1>2, <1>3, <1>4
  <2>3. QED
    BY <2>1, <2>2
<1>7. ASSUME NEW i \in 1..Len(new)
      PROVE  new[i] = Tail(old)[i]
  <2>1. i + 1 \in 1..Len(old) /\ k + 1 + i - 1 = k + (i + 1) - 1
    BY <1>2, <1>3, <1>4
  <2>2. QED
    BY <1>3, <1>4, <1>6, <2>1
<1>8. new = Tail(old)
  BY <1>4, <1>6, <1>7
<1>9. QED
  BY <1>1, <1>5, <1>8

\* Books with as many pages that are the same are the same.
LEMMA BookSame ==
    ASSUME NEW view \in ViewsOf(User), NEW ws \in Seq(WritesOf(User)),
           NEW k \in 0..Len(ws),
           NEW other \in ViewsOf(User), NEW more \in Seq(WritesOf(User)),
           NEW j \in 0..Len(more), Len(more) - j = Len(ws) - k,
           \A i \in 0..(Len(ws) - k) : PageOf(other, SubSeq(more, 1, j + i))
                                       = PageOf(view, SubSeq(ws, 1, k + i))
    PROVE  BookOf(other, more, j) = BookOf(view, ws, k)
<1>1. PICK m : m = Len(ws) - k + 1 /\ m \in Nat
  OBVIOUS
<1>2. ASSUME NEW i \in 1..m
      PROVE  PageOf(other, SubSeq(more, 1, j + i - 1))
             = PageOf(view, SubSeq(ws, 1, k + i - 1))
  <2>1. /\ i - 1 \in 0..(Len(ws) - k)
        /\ j + (i - 1) = j + i - 1 /\ k + (i - 1) = k + i - 1
    BY <1>1
  <2>2. QED
    BY <2>1
<1>3. QED
  BY <1>1, <1>2 DEF BookOf

\* A crash leaves the first page.
LEMMA BookCut ==
    ASSUME NEW view \in ViewsOf(User), NEW ws \in Seq(WritesOf(User)),
           NEW k \in 0..Len(ws), NEW kept, kept = SubSeq(ws, 1, k)
    PROVE  BookOf(view, kept, Len(kept)) = <<Head(BookOf(view, ws, k))>>
<1>1. PICK old, new : /\ old = BookOf(view, ws, k)
                      /\ new = BookOf(view, kept, Len(kept))
  OBVIOUS
<1>2. kept \in Seq(WritesOf(User)) /\ Len(kept) = k /\ k \in 0..Len(kept)
  BY PrefixIs
<1>3. /\ old \in Seq(Sheet) /\ Len(old) >= 1 /\ Len(old) \in Nat
      /\ old[1] = PageOf(view, kept)
  <2>1. IsBook(old, view, ws, k)
    BY <1>1, BookType
  <2>2. QED
    BY <2>1 DEF IsBook
<1>4. /\ new \in Seq(Sheet) /\ Len(new) = k - k + 1
      /\ new[Len(new)] = PageOf(view, kept)
  <2>1. IsBook(new, view, kept, k)
    BY <1>1, <1>2, BookType
  <2>2. QED
    BY <1>2, <2>1 DEF IsBook
<1>5. Len(new) = 1 /\ new = <<PageOf(view, kept)>>
  BY <1>2, <1>4
<1>6. Head(old) = PageOf(view, kept)
  BY <1>3
<1>7. QED
  BY <1>1, <1>5, <1>6

\* A sequence behind another.
LEMMA JoinedIs ==
    ASSUME NEW W, NEW ws \in Seq(W), NEW more \in Seq(W)
    PROVE  /\ ws \o more \in Seq(W) /\ Len(ws \o more) = Len(ws) + Len(more)
           /\ \A j \in 1..Len(ws) : (ws \o more)[j] = ws[j]
           /\ \A j \in 1..Len(more) : (ws \o more)[Len(ws) + j] = more[j]
<1>1. ws \o more \in Seq(W) /\ Len(ws \o more) = Len(ws) + Len(more)
  OBVIOUS
<1>2. \A j \in 1..Len(ws) : (ws \o more)[j] = ws[j]
  OBVIOUS
<1>3. \A j \in 1..Len(more) : (ws \o more)[Len(ws) + j] = more[j]
  OBVIOUS
<1>4. QED
  BY <1>1, <1>2, <1>3

\* A handler that issues writes adds a page for each.
LEMMA BookEntered ==
    ASSUME NEW view \in ViewsOf(User), NEW ws \in Seq(WritesOf(User)),
           NEW k \in 0..Len(ws), NEW more \in Seq(WritesOf(User)), more # <<>>,
           NEW latest, latest = PageOf(view, ws)
    PROVE  Adds(BookOf(view, ws, k), BookOf(view, ws \o more, k), latest,
                PagesOver(latest, more))
<1> DEFINE added == [i \in 1..Len(more) |-> PageOver(latest, SubSeq(more, 1, i))]
<1>1. PICK all, old, new : /\ all = ws \o more /\ old = BookOf(view, ws, k)
                           /\ new = BookOf(view, all, k)
  OBVIOUS
<1>2. /\ all \in Seq(WritesOf(User)) /\ Len(all) = Len(ws) + Len(more)
      /\ Len(ws) \in Nat /\ Len(more) \in Nat /\ Len(more) >= 1
      /\ \A i \in 1..Len(ws) : all[i] = ws[i]
      /\ \A i \in 1..Len(more) : all[Len(ws) + i] = more[i]
  BY <1>1, JoinedIs
<1>3. k \in 0..Len(all)
  BY <1>2
<1>4. /\ old \in Seq(Sheet) /\ Len(old) = Len(ws) - k + 1
      /\ \A i \in 1..Len(old) : old[i] = PageOf(view, SubSeq(ws, 1, k + i - 1))
      /\ old[Len(old)] = latest
  <2>1. IsBook(old, view, ws, k)
    BY <1>1, BookType
  <2>2. QED
    BY <2>1 DEF IsBook
<1>5. /\ new \in Seq(Sheet) /\ Len(new) = Len(all) - k + 1
      /\ \A i \in 1..Len(new) : new[i] = PageOf(view, SubSeq(all, 1, k + i - 1))
  <2>1. IsBook(new, view, all, k)
    BY <1>1, <1>2, <1>3, BookType
  <2>2. QED
    BY <2>1 DEF IsBook
<1>6. ASSUME NEW i \in 1..Len(old)
      PROVE  new[i] = old[i]
  <2>1. k + i - 1 \in 0..Len(ws) /\ i \in 1..Len(new)
    BY <1>2, <1>4, <1>5
  <2>2. SubSeq(all, 1, k + i - 1) = SubSeq(ws, 1, k + i - 1)
    BY <1>2, <2>1
  <2>3. QED
    BY <1>4, <1>5, <2>1, <2>2
<1>7. ASSUME NEW i \in 1..Len(more)
      PROVE  new[Len(old) + i] = PageOver(latest, SubSeq(more, 1, i))
  <2>1. PICK some : some = SubSeq(more, 1, i)
    OBVIOUS
  <2>2. /\ some \in Seq(WritesOf(User)) /\ Len(some) = i
        /\ \A j \in 1..i : some[j] = more[j]
    BY <1>2, <2>1, PrefixIs
  <2>3. SubSeq(all, 1, Len(ws) + i) = ws \o some
    <3>1. PICK part, both : /\ part = SubSeq(all, 1, Len(ws) + i)
                            /\ both = ws \o some
      OBVIOUS
    <3>2. Len(ws) + i \in 0..Len(all)
      BY <1>2
    <3>3. /\ part \in Seq(WritesOf(User)) /\ Len(part) = Len(ws) + i
          /\ \A j \in 1..(Len(ws) + i) : part[j] = all[j]
      BY <1>2, <3>1, <3>2, PrefixIs
    <3>4. /\ both \in Seq(WritesOf(User)) /\ Len(both) = Len(ws) + i
          /\ \A j \in 1..Len(ws) : both[j] = ws[j]
          /\ \A j \in 1..i : both[Len(ws) + j] = some[j]
      <4>1. /\ both \in Seq(WritesOf(User)) /\ Len(both) = Len(ws) + Len(some)
            /\ \A j \in 1..Len(ws) : both[j] = ws[j]
            /\ \A j \in 1..Len(some) : both[Len(ws) + j] = some[j]
        <5>1. some \in Seq(WritesOf(User))
          BY <2>2
        <5>2. QED
          BY <3>1, <5>1, JoinedIs
      <4>2. QED
        BY <2>2, <4>1
    <3>5. ASSUME NEW j \in 1..(Len(ws) + i)
          PROVE  part[j] = both[j]
      <4>1. CASE j <= Len(ws)
        BY <1>2, <3>3, <3>4, <4>1
      <4>2. CASE j > Len(ws)
        <5>1. PICK l : l = j - Len(ws)
          OBVIOUS
        <5>2. l \in 1..i /\ l \in 1..Len(more) /\ j = Len(ws) + l
          BY <1>2, <4>2, <5>1
        <5>3. part[j] = more[l] /\ both[j] = some[l]
          BY <1>2, <3>3, <3>4, <5>2
        <5>4. QED
          BY <2>2, <5>2, <5>3
      <4>3. QED
        BY <1>2, <4>1, <4>2
    <3>6. part = both
      BY <1>2, <3>3, <3>4, <3>5
    <3>7. QED
      BY <3>1, <3>6
  <2>4. Len(old) + i \in 1..Len(new) /\ k + (Len(old) + i) - 1 = Len(ws) + i
    BY <1>2, <1>4, <1>5
  <2>5. new[Len(old) + i] = PageOf(view, ws \o some)
    BY <1>5, <2>3, <2>4
  <2>6. PageOf(view, ws \o some) = PageOver(latest, some)
    <3>1. \A n \in Names : Latest(Base(view, n, "balance"), ws \o some, n, "balance")
                           = Latest(latest[n], some, n, "balance")
      <4>1. \A n \in Names : latest[n] = Latest(Base(view, n, "balance"), ws, n, "balance")
        BY DEF PageOf
      <4>2. QED
        BY <2>2, <4>1, LatestConcat
    <3>2. QED
      BY <3>1 DEF PageOf, PageOver
  <2>7. QED
    BY <2>1, <2>5, <2>6
<1>8. \A i \in 1..Len(more) : new[Len(old) + i] = added[i]
  BY <1>7
<1>9. added \in Seq(Sheet) /\ Len(added) = Len(more)
  <2>1. \A i \in 1..Len(more) : added[i] \in Sheet
    <3>1. ASSUME NEW i \in 1..Len(more)
          PROVE  Len(old) + i \in 1..Len(new)
      BY <1>2, <1>4, <1>5
    <3>2. \A j \in 1..Len(new) : new[j] \in Sheet
      BY <1>5
    <3>3. QED
      BY <1>8, <3>1, <3>2
  <2>2. added \in [1..Len(more) -> Sheet]
    BY <2>1
  <2>3. QED
    BY <1>2, <2>2
<1> HIDE DEF added
<1>10. Len(new) = Len(old) + Len(added) /\ Len(old) \in Nat /\ Len(new) > Len(old)
  BY <1>2, <1>4, <1>5, <1>9
<1>11. new = old \o added
  <2>1. PICK both : both = old \o added
    OBVIOUS
  <2>2. /\ both \in Seq(Sheet) /\ Len(both) = Len(new)
        /\ \A i \in 1..Len(old) : both[i] = old[i]
        /\ \A i \in 1..Len(more) : both[Len(old) + i] = added[i]
    <3>1. old \in Seq(Sheet) /\ added \in Seq(Sheet)
      BY <1>4, <1>9
    <3>2. /\ both \in Seq(Sheet) /\ Len(both) = Len(old) + Len(added)
          /\ \A i \in 1..Len(old) : both[i] = old[i]
          /\ \A i \in 1..Len(added) : both[Len(old) + i] = added[i]
      BY <2>1, <3>1, JoinedIs
    <3>3. QED
      BY <1>9, <1>10, <3>2
  <2>3. ASSUME NEW j \in 1..Len(new)
        PROVE  new[j] = both[j]
    <3>1. CASE j <= Len(old)
      BY <1>6, <1>10, <2>2, <3>1
    <3>2. CASE j > Len(old)
      <4>1. PICK l : l = j - Len(old)
        OBVIOUS
      <4>2. l \in 1..Len(more) /\ j = Len(old) + l
        BY <1>2, <1>9, <1>10, <3>2, <4>1
      <4>3. QED
        BY <1>8, <2>2, <4>2
    <3>3. QED
      BY <1>10, <3>1, <3>2
  <2>4. new = both
    BY <1>5, <2>2, <2>3
  <2>5. QED
    BY <2>1, <2>4
<1>12. SubSeq(new, Len(old) + 1, Len(new)) = added
  BY <1>4, <1>5, <1>8, <1>9, <1>10
<1>13. QED
  BY <1>1, <1>4, <1>10, <1>11, <1>12 DEF added, Adds, PagesOver

--------------------------------------------------------------------------------
(* A name that is taken is shown.                                             *)

\* A document of an overlay.
LEMMA OverlayPresent ==
    ASSUME NEW view \in ViewsOf(User), NEW ws \in Seq(WritesOf(User)),
           NEW n \in Names
    PROVE  Overlay(view, ws)[n] # NoDoc <=> Exists(view, ws, n)
<1>1. Overlaid(view, ws, n) \in User
  BY OverlaidIn, UserClosed DEF Closed
<1>2. NoDoc \notin User
  BY SessionAssumption
<1>3. QED
  BY <1>1, <1>2 DEF Overlay

\* A document that exists with the first writes exists with more.
LEMMA ExistsMore ==
    ASSUME NEW view, NEW ws \in Seq(WritesOf(User)),
           NEW more \in Seq(WritesOf(User)), Len(more) >= Len(ws),
           \A i \in 1..Len(ws) : more[i] = ws[i],
           NEW n, Exists(view, ws, n)
    PROVE  Exists(view, more, n)
<1>1. DOMAIN ws = 1..Len(ws) /\ DOMAIN more = 1..Len(more)
  OBVIOUS
<1>2. Len(ws) \in Nat /\ Len(more) \in Nat
  OBVIOUS
<1>3. QED
  BY <1>1, <1>2 DEF Exists

\* What the store's steps on the one phone keep: nothing becomes taken, and an
\* answer has what is.
LEMMA ShownStays ==
    ASSUME NEW d \in Devices, TakenShown(d),
           \A n \in Newcomers[d] :
               Exists(docs', queue'[d], n) => Exists(docs, queue[d], n),
           \A i \in DOMAIN loads'[d] : loads'[d][i].ready =>
               \/ Complete(d, loads'[d][i].view)
               \/ \E j \in DOMAIN loads[d] :
                      loads[d][j].ready /\ loads[d][j].view = loads'[d][i].view,
           loads'[d] = <<>> /\ loaded'[d] => Complete(d, userDatabase'[d]),
           CacheComplete(d)'
    PROVE  TakenShown(d)'
<1>1. ASSUME NEW view, Complete(d, view)
      PROVE  \A n \in Newcomers[d] : Exists(docs', queue'[d], n) => view[n] # NoDoc
  BY <1>1 DEF Complete
<1>2. \A i \in DOMAIN loads'[d] :
          loads'[d][i].ready => Complete(d, loads'[d][i].view)
  BY DEF TakenShown, ReadsComplete
<1>3. ReadsComplete(d)'
  BY <1>1, <1>2 DEF ReadsComplete, Complete
<1>4. loads'[d] = <<>> /\ loaded'[d] => Complete(d, userDatabase[d])'
  BY <1>1 DEF Complete
<1>5. QED
  BY <1>3, <1>4 DEF TakenShown

\* ... when the reads are left alone.
LEMMA ShownWithReads ==
    ASSUME NEW d \in Devices, TakenShown(d), loads'[d] = loads[d],
           loaded'[d] = loaded[d], userDatabase'[d] = userDatabase[d],
           \A n \in Newcomers[d] :
               Exists(docs', queue'[d], n) => Exists(docs, queue[d], n),
           CacheComplete(d)'
    PROVE  TakenShown(d)'
<1>1. \A i \in DOMAIN loads'[d] : loads'[d][i].ready =>
          \E j \in DOMAIN loads[d] :
              loads[d][j].ready /\ loads[d][j].view = loads'[d][i].view
  OBVIOUS
<1>2. loads'[d] = <<>> /\ loaded'[d] => Complete(d, userDatabase'[d])
  BY DEF TakenShown
<1>3. QED
  BY <1>1, <1>2, ShownStays

\* The worker queue stores a write: the cache, seen through what is stored, has
\* more in it, and the reads have the answers they had.
LEMMA PersistShown ==
    ASSUME Inv(User), NEW d \in Devices, Persist(d), UNCHANGED appVars,
           TakenShown(d)
    PROVE  TakenShown(d)'
<1>1. PICK q, k : q = queue[d] /\ k = durable[d]
  OBVIOUS
<1>2. /\ q \in Seq(WritesOf(User)) /\ k \in 0..Len(q) /\ k + 1 \in 0..Len(q)
      /\ durable'[d] = k + 1 /\ DOMAIN loads'[d] = DOMAIN loads[d]
      /\ UNCHANGED <<docs, cache, queue, loaded, userDatabase>>
      /\ \A i \in DOMAIN loads[d] : loads'[d][i] = MovedUp(loads[d][i])
  BY <1>1, Queue, Types DEF Persist, appVars
<1>3. /\ loads[d] \in Seq(LoadsOf(User))
      /\ loads'[d] = <<>> => loads[d] = <<>>
  BY <1>2, Queue
<1>4. \A i \in DOMAIN loads[d] : /\ loads'[d][i].ready = loads[d][i].ready
                                 /\ loads'[d][i].view = loads[d][i].view
  <2>1. \A i \in DOMAIN loads[d] : loads[d][i] \in LoadsOf(User)
    BY <1>3
  <2>2. QED
    BY <1>2, <2>1 DEF MovedUp, LoadsOf
<1>5. CacheComplete(d)'
  <2>1. PICK some, more : some = SubSeq(q, 1, k) /\ more = SubSeq(q, 1, k + 1)
    OBVIOUS
  <2>2. /\ some \in Seq(WritesOf(User)) /\ Len(some) = k
        /\ \A i \in 1..k : some[i] = q[i]
    BY <1>2, <2>1, PrefixIs
  <2>3. /\ more \in Seq(WritesOf(User)) /\ Len(more) = k + 1
        /\ \A i \in 1..(k + 1) : more[i] = q[i]
    BY <1>2, <2>1, PrefixIs
  <2>4. Len(more) >= Len(some) /\ \A i \in 1..Len(some) : more[i] = some[i]
    BY <1>2, <2>2, <2>3
  <2>5. \A n : Exists(cache[d], some, n) => Exists(cache[d], more, n)
    BY <2>2, <2>3, <2>4, ExistsMore
  <2>6. some = Persisted(d) /\ more = Persisted(d)'
    BY <1>1, <1>2, <2>1 DEF Persisted
  <2>7. QED
    BY <1>2, <2>5, <2>6 DEF TakenShown, CacheComplete
<1>6. QED
  <2>1. \A i \in DOMAIN loads'[d] : loads'[d][i].ready =>
            \E j \in DOMAIN loads[d] :
                loads[d][j].ready /\ loads[d][j].view = loads'[d][i].view
    BY <1>2, <1>4
  <2>2. loads'[d] = <<>> /\ loaded'[d] => Complete(d, userDatabase'[d])
    BY <1>2, <1>3 DEF TakenShown
  <2>3. QED
    BY <1>2, <1>5, <2>1, <2>2, ShownStays

\* The server commits a write: a creation that is pending becomes a document, and
\* the name was taken already.
LEMMA CommitShown ==
    ASSUME Inv(User), StoreBacked, NEW d \in Devices, Commit(d),
           UNCHANGED appVars, TakenShown(d), Newcomers[d] \subseteq Names
    PROVE  TakenShown(d)'
<1>1. PICK q, k, w : q = queue[d] /\ k = durable[d] /\ w = q[applied[d] + 1]
  OBVIOUS
<1>2. /\ applied[d] < k /\ Accepts(docs, w) /\ docs' = Applied(docs, w)
      /\ UNCHANGED <<cache, queue, durable, loads, loaded, userDatabase>>
  BY <1>1 DEF Commit, appVars
<1>3. /\ q \in Seq(WritesOf(User)) /\ k \in 0..Len(q)
      /\ applied[d] + 1 \in 1..k /\ applied[d] + 1 \in DOMAIN q
  BY <1>1, <1>2, Queue
<1>4. docs \in ViewsOf(User) /\ w.doc \in Names
  BY <1>1, <1>3, WriteType, Types
<1>5. \A n \in Names : docs'[n] # NoDoc =>
          docs[n] # NoDoc \/ (n = w.doc /\ w.set)
  BY <1>2, <1>4 DEF Applied, Accepts, ViewsOf
<1>6. \A n \in Names : Exists(docs', queue'[d], n) => Exists(docs, queue[d], n)
  BY <1>1, <1>2, <1>3, <1>5 DEF Exists
<1>7. CacheComplete(d)'
  <2>1. PICK some : some = SubSeq(q, 1, k)
    OBVIOUS
  <2>2. DOMAIN some = 1..k /\ \A i \in 1..k : some[i] = q[i]
    BY <1>3, <2>1, PrefixIs
  <2>3. \A n : n = w.doc /\ w.set => Exists(cache[d], some, n)
    BY <1>1, <1>3, <2>2 DEF Exists
  <2>4. some = Persisted(d) /\ some = Persisted(d)'
    BY <1>1, <1>2, <2>1 DEF Persisted
  <2>5. QED
    BY <1>2, <1>5, <2>3, <2>4 DEF TakenShown, CacheComplete
<1>8. QED
  BY <1>2, <1>6, <1>7, ShownWithReads

\* An acknowledged creation leaves the queue, and is in the cache by then.
LEMMA AckShown ==
    ASSUME Inv(User), StoreBacked, NEW d \in Devices, Ack(d),
           UNCHANGED appVars, TakenShown(d), Newcomers[d] \subseteq Names
    PROVE  TakenShown(d)'
<1>1. PICK q, k, w : q = queue[d] /\ k = durable[d] /\ w = q[1]
  OBVIOUS
<1>2. /\ applied[d] > 0 /\ durable'[d] = k - 1 /\ queue'[d] = Tail(q)
      /\ cache'[d] = IF covered[d] > 0 THEN cache[d] ELSE Applied(cache[d], w)
      /\ UNCHANGED <<docs, loads, loaded, userDatabase>>
  BY <1>1, Types DEF Ack, appVars
<1>3. /\ q \in Seq(WritesOf(User)) /\ k \in 1..Len(q) /\ q # <<>>
      /\ Len(q) \in Nat /\ k \in Nat /\ k >= 1 /\ covered[d] \in Nat
      /\ DOMAIN q = 1..Len(q) /\ 1 \in DOMAIN q
  BY <1>1, <1>2, Queue, Positions
<1>4. cache[d] \in ViewsOf(User) /\ w \in WritesOf(User) /\ w.doc \in Names
      /\ w.value \in User
  BY <1>1, <1>3, WriteType, Types
<1>5. /\ Tail(q) \in Seq(WritesOf(User)) /\ DOMAIN Tail(q) = 1..(Len(q) - 1)
      /\ Len(Tail(q)) = Len(q) - 1
      /\ \A i \in 1..(Len(q) - 1) : Tail(q)[i] = q[i + 1]
  BY <1>3
<1>6. \A n : Exists(docs', queue'[d], n) => Exists(docs, queue[d], n)
  <2>1. \A i \in DOMAIN Tail(q) : i + 1 \in DOMAIN q /\ Tail(q)[i] = q[i + 1]
    BY <1>3, <1>5
  <2>2. QED
    BY <1>1, <1>2, <2>1 DEF Exists
<1>7. \A n \in Names : cache[d][n] # NoDoc => cache'[d][n] # NoDoc
  <2>1. \A n \in Names : cache[d][n] # NoDoc => Applied(cache[d], w)[n] # NoDoc
    <3>1. cache[d][w.doc] # NoDoc =>
              Patched(cache[d][w.doc], w.mask, w.value) # NoDoc
      <4>1. cache[d][w.doc] # NoDoc => cache[d][w.doc] \in User
        BY <1>4 DEF ViewsOf
      <4>2. NoDoc \notin User /\ Mixable(User)
        BY SessionAssumption, UserClosed DEF Closed
      <4>3. QED
        BY <1>4, <4>1, <4>2, PatchedIn
    <3>2. w.value # NoDoc
      BY <1>4, SessionAssumption
    <3>3. QED
      BY <1>4, <3>1, <3>2 DEF Applied, ViewsOf
  <2>2. QED
    BY <1>2, <2>1
<1>8. w.set => cache'[d][w.doc] # NoDoc
  <2>1. CASE covered[d] > 0
    <3>1. w.doc \in Present(cache[d])
      BY <1>1, <1>3, <2>1 DEF StoreBacked, QueueBacked, WriteBacked
    <3>2. QED
      BY <1>2, <2>1, <3>1 DEF Present
  <2>2. CASE ~(covered[d] > 0)
    <3>1. cache'[d] = Applied(cache[d], w)
      BY <1>2, <2>2
    <3>2. w.value # NoDoc
      BY <1>4, SessionAssumption
    <3>3. QED
      BY <1>4, <3>1, <3>2 DEF Applied, Accepts, ViewsOf
  <2>3. QED
    BY <2>1, <2>2
<1>9. CacheComplete(d)'
  <2>1. PICK some, fewer : some = SubSeq(q, 1, k) /\ fewer = SubSeq(Tail(q), 1, k - 1)
    OBVIOUS
  <2>2. DOMAIN some = 1..k /\ \A i \in 1..k : some[i] = q[i]
    BY <1>3, <2>1, PrefixIs
  <2>3. DOMAIN fewer = 1..(k - 1) /\ \A i \in 1..(k - 1) : fewer[i] = q[i + 1]
    <3>1. k - 1 \in 0..Len(Tail(q)) /\ 1..(k - 1) \subseteq 1..(Len(q) - 1)
      BY <1>3, <1>5
    <3>2. /\ DOMAIN fewer = 1..(k - 1)
          /\ \A i \in 1..(k - 1) : fewer[i] = Tail(q)[i]
      BY <1>5, <2>1, <3>1, PrefixIs
    <3>3. QED
      BY <1>5, <3>1, <3>2
  <2>4. ASSUME NEW n \in Names, Exists(cache[d], some, n)
        PROVE  Exists(cache'[d], fewer, n)
    <3>1. CASE cache[d][n] # NoDoc
      BY <1>7, <3>1 DEF Exists
    <3>2. ASSUME NEW i \in 1..k, q[i].doc = n, q[i].set
          PROVE  Exists(cache'[d], fewer, n)
      <4>1. CASE i = 1
        BY <1>1, <1>8, <3>2, <4>1 DEF Exists
      <4>2. CASE i # 1
        <5>1. i - 1 \in 1..(k - 1) /\ (i - 1) + 1 = i
          BY <1>3, <4>2
        <5>2. fewer[i - 1] = q[i]
          BY <2>3, <5>1
        <5>3. QED
          BY <2>3, <3>2, <5>1, <5>2 DEF Exists
      <4>3. QED
        BY <4>1, <4>2
    <3>3. QED
      BY <2>2, <2>4, <3>1, <3>2 DEF Exists
  <2>5. some = Persisted(d) /\ fewer = Persisted(d)'
    BY <1>1, <1>2, <2>1 DEF Persisted
  <2>6. QED
    BY <1>2, <2>4, <2>5 DEF TakenShown, CacheComplete
<1>10. QED
  BY <1>2, <1>6, <1>9, ShownWithReads

\* A read that waited for the writes before it has every name that is taken,
\* whether the server answers or the cache.
LEMMA RaiseShown ==
    ASSUME Inv(User), NEW d \in Devices, UNCHANGED appVars, ReadsWait(d),
           Raise(d) \/ RaiseFromCache(d), TakenShown(d),
           Newcomers[d] \subseteq Names
    PROVE  TakenShown(d)'
<1>1. UNCHANGED <<docs, queue, durable, loaded, userDatabase>>
  BY DEF Raise, RaiseFromCache, appVars
<1>2. PICK view : view = IF Raise(d) THEN docs ELSE cache[d]
  OBVIOUS
<1>3. /\ view \in ViewsOf(User)
      /\ \E i \in DOMAIN loads[d] : Answered(d, i, view)
      /\ Raise(d) => cache'[d] = docs
      /\ ~Raise(d) => cache' = cache /\ MayBeOffline
  <2>1. CASE Raise(d)
    <3>1. view = docs
      BY <1>2, <2>1
    <3>2. /\ \E i \in DOMAIN loads[d] : Answered(d, i, docs)
          /\ cache'[d] = docs /\ docs \in ViewsOf(User)
      BY <2>1, Types DEF Raise
    <3>3. QED
      BY <2>1, <3>1, <3>2
  <2>2. CASE ~Raise(d)
    <3>1. view = cache[d]
      BY <1>2, <2>2
    <3>2. /\ MayBeOffline /\ cache' = cache /\ cache[d] \in ViewsOf(User)
          /\ \E i \in DOMAIN loads[d] : Answered(d, i, cache[d])
      BY <2>2, Types DEF RaiseFromCache
    <3>3. QED
      BY <2>2, <3>1, <3>2
  <2>3. QED
    BY <2>1, <2>2
<1>4. PICK i \in DOMAIN loads[d] : Answered(d, i, view)
  BY <1>3
<1>5. PICK q : q = queue[d]
  OBVIOUS
<1>6. /\ Persisted(d) = q /\ loads'[d] # <<>> /\ DOMAIN loads'[d] = DOMAIN loads[d]
      /\ \A j \in DOMAIN loads[d] :
             /\ j # i => loads'[d][j] = loads[d][j]
             /\ j = i => loads'[d][j].view = Overlay(view, q)
  BY <1>5, <1>3, <1>4, AnsweredReads
<1>7. q \in Seq(WritesOf(User))
  BY <1>5, Types
<1>8. Complete(d, Overlay(view, q))
  <2>1. ASSUME NEW n \in Newcomers[d], Exists(docs, q, n)
        PROVE  Exists(view, q, n)
    <3>1. CASE Raise(d)
      BY <1>2, <2>1, <3>1
    <3>2. CASE ~Raise(d) /\ docs[n] # NoDoc
      <4>1. Exists(cache[d], Persisted(d), n)
        BY <1>3, <3>2 DEF TakenShown, CacheComplete
      <4>2. QED
        BY <1>2, <1>6, <3>2, <4>1
    <3>3. CASE ~Raise(d) /\ docs[n] = NoDoc
      BY <2>1, <3>3 DEF Exists
    <3>4. QED
      BY <3>1, <3>2, <3>3
  <2>2. QED
    BY <1>5, <1>7, <1>3, <2>1, OverlayPresent DEF Complete
<1>9. CacheComplete(d)'
  <2>1. CASE Raise(d)
    <3>1. \A n : docs'[n] # NoDoc => Exists(cache[d], Persisted(d), n)'
      BY <1>1, <1>3, <2>1 DEF Exists
    <3>2. QED
      BY <3>1 DEF CacheComplete
  <2>2. CASE ~Raise(d)
    BY <1>1, <1>3, <2>2 DEF CacheComplete, Persisted, TakenShown
  <2>3. QED
    BY <2>1, <2>2
<1>10. \A j \in DOMAIN loads'[d] : loads'[d][j].ready =>
          \/ Complete(d, loads'[d][j].view)
          \/ \E l \in DOMAIN loads[d] :
                 loads[d][l].ready /\ loads[d][l].view = loads'[d][j].view
  BY <1>6, <1>8
<1>11. QED
  BY <1>1, <1>6, <1>9, <1>10, ShownStays

\* A break of the write stream touches neither accounts nor copies.
LEMMA BreakShown ==
    ASSUME NEW d \in Devices, Break(d), UNCHANGED appVars, TakenShown(d)
    PROVE  TakenShown(d)'
<1>1. UNCHANGED <<docs, cache, queue, durable, loads, loaded, userDatabase>>
  BY DEF Break, appVars
<1>2. CacheComplete(d)'
  BY <1>1 DEF CacheComplete, Persisted, TakenShown
<1>3. QED
  BY <1>1, <1>2, ShownWithReads

\* The completion of a read makes its answer the list.
LEMMA DeliverShown ==
    ASSUME Inv(User), NEW d \in Devices, Deliver(d), TakenShown(d)
    PROVE  TakenShown(d)'
<1>1. PICK reads : reads = loads[d]
  OBVIOUS
<1>2. /\ reads \in Seq(LoadsOf(User)) /\ reads # <<>> /\ Head(reads).ready
      /\ loads'[d] = Tail(reads) /\ userDatabase'[d] = Head(reads).view
      /\ UNCHANGED <<docs, cache, queue, durable>>
  BY <1>1, Types DEF Deliver
<1>3. 1 \in DOMAIN reads /\ Head(reads) = reads[1]
  BY <1>2
<1>4. \A i \in DOMAIN Tail(reads) :
          i + 1 \in DOMAIN reads /\ Tail(reads)[i] = reads[i + 1]
  BY <1>2
<1>5. Complete(d, userDatabase'[d])
  BY <1>1, <1>2, <1>3 DEF TakenShown, ReadsComplete
<1>6. \A i \in DOMAIN loads'[d] : loads'[d][i].ready =>
          \E j \in DOMAIN loads[d] :
              loads[d][j].ready /\ loads[d][j].view = loads'[d][i].view
  BY <1>1, <1>2, <1>4
<1>7. CacheComplete(d)'
  BY <1>2 DEF CacheComplete, Persisted, TakenShown
<1>8. QED
  BY <1>2, <1>5, <1>6, <1>7, ShownStays

\* A new read has no answer yet.
LEMMA AskShown ==
    ASSUME Inv(User), NEW d \in Devices, AskForUsers(d),
           UNCHANGED <<loaded, userDatabase>>, TakenShown(d)
    PROVE  TakenShown(d)'
<1>1. PICK reads : reads = loads[d]
  OBVIOUS
<1>2. /\ reads \in Seq(LoadsOf(User)) /\ loads'[d] = Append(reads, NewLoad(d))
      /\ UNCHANGED <<docs, cache, queue, durable>>
  BY <1>1, Types DEF AskForUsers
<1>3. ~NewLoad(d).ready
  BY DEF NewLoad
<1>4. PICK new : new = NewLoad(d)
  OBVIOUS
<1>5. /\ Append(reads, new) # <<>>
      /\ \A i \in DOMAIN Append(reads, new) :
             \/ i \in DOMAIN reads /\ Append(reads, new)[i] = reads[i]
             \/ Append(reads, new)[i] = new
  BY <1>2
<1>6. \A i \in DOMAIN loads'[d] : loads'[d][i].ready =>
          \E j \in DOMAIN loads[d] :
              loads[d][j].ready /\ loads[d][j].view = loads'[d][i].view
  BY <1>1, <1>2, <1>3, <1>4, <1>5
<1>7. CacheComplete(d)'
  BY <1>2 DEF CacheComplete, Persisted, TakenShown
<1>8. QED
  BY <1>2, <1>4, <1>5, <1>6, <1>7, ShownStays

\* The process that starts over has no list; its cache is the one it had.
LEMMA KilledShown ==
    ASSUME Inv(User), NEW d \in Devices, Restart(d, Persisted(d)), TakenShown(d)
    PROVE  TakenShown(d)'
<1>1. PICK q, k, kept : q = queue[d] /\ k = durable[d] /\ kept = Persisted(d)
  OBVIOUS
<1>2. /\ queue'[d] = kept /\ durable'[d] = Len(kept) /\ UNCHANGED <<docs, cache>>
      /\ loads'[d] = <<[behind |-> 0, ready |-> FALSE, view |-> EmptyView]>>
      /\ ~loaded'[d]
  BY <1>1, Types DEF Restart, Reopen
<1>3. q \in Seq(WritesOf(User)) /\ k \in 0..Len(q) /\ kept = SubSeq(q, 1, k)
  BY <1>1, Queue DEF Persisted
<1>4. /\ kept \in Seq(WritesOf(User)) /\ Len(kept) = k /\ DOMAIN kept = 1..k
      /\ \A i \in 1..k : kept[i] = q[i]
      /\ DOMAIN q = 1..Len(q) /\ Len(q) \in Nat
  BY <1>3, PrefixIs
<1>5. \A n : Exists(docs', queue'[d], n) => Exists(docs, queue[d], n)
  <2>1. 1..k \subseteq 1..Len(q)
    BY <1>3, <1>4
  <2>2. QED
    BY <1>1, <1>2, <1>4, <2>1 DEF Exists
<1>6. CacheComplete(d)'
  <2>1. SubSeq(kept, 1, Len(kept)) = kept
    BY <1>4
  <2>2. Persisted(d)' = kept
    BY <1>2, <2>1 DEF Persisted
  <2>3. QED
    BY <1>1, <1>2, <2>2 DEF CacheComplete, TakenShown
<1>7. \A i \in DOMAIN loads'[d] : ~loads'[d][i].ready
  BY <1>2
<1>8. QED
  BY <1>2, <1>5, <1>6, <1>7, ShownStays

\* A handler that issues writes: what they create is in the list.
LEMMA IssueShown ==
    ASSUME Inv(User), NEW d \in Devices, loads[d] = <<>>, UNCHANGED loaded,
           NEW ws \in Seq(WritesOf(User)), Issue(d, ws), TakenShown(d),
           Newcomers[d] \subseteq Names,
           \A n \in Names :
               \/ userDatabase[d][n] # NoDoc
               \/ \E i \in DOMAIN ws : ws[i].doc = n /\ ws[i].set
               => userDatabase'[d][n] # NoDoc
    PROVE  TakenShown(d)'
<1>1. PICK q, k : q = queue[d] /\ k = durable[d]
  OBVIOUS
<1>2. /\ q \in Seq(WritesOf(User)) /\ k \in 0..Len(q) /\ queue'[d] = q \o ws
      /\ UNCHANGED <<docs, cache, durable, loads>>
  BY <1>1, Queue, Types DEF Issue
<1>3. \A i \in DOMAIN (q \o ws) :
          \/ i \in DOMAIN q /\ (q \o ws)[i] = q[i]
          \/ \E j \in DOMAIN ws : (q \o ws)[i] = ws[j]
  <2>1. PICK both : both = q \o ws
    OBVIOUS
  <2>2. /\ DOMAIN both = 1..(Len(q) + Len(ws)) /\ DOMAIN q = 1..Len(q)
        /\ DOMAIN ws = 1..Len(ws) /\ Len(q) \in Nat /\ Len(ws) \in Nat
        /\ \A i \in 1..Len(q) : both[i] = q[i]
        /\ \A i \in 1..Len(ws) : both[Len(q) + i] = ws[i]
    BY <1>2, <2>1, JoinedIs
  <2>3. ASSUME NEW i \in DOMAIN both, ~(i <= Len(q))
        PROVE  \E j \in DOMAIN ws : both[i] = ws[j]
    <3>1. i - Len(q) \in DOMAIN ws /\ Len(q) + (i - Len(q)) = i
      BY <2>2, <2>3
    <3>2. QED
      BY <2>2, <3>1
  <2>4. QED
    BY <2>1, <2>2, <2>3
<1>4. loaded[d] => \A n \in Newcomers[d] : Exists(docs, q \o ws, n) =>
                      userDatabase'[d][n] # NoDoc
  <2>1. \A n \in Newcomers[d] : Exists(docs, q \o ws, n) =>
            \/ Exists(docs, q, n)
            \/ \E i \in DOMAIN ws : ws[i].doc = n /\ ws[i].set
    BY <1>3 DEF Exists
  <2>2. QED
    BY <1>1, <2>1 DEF TakenShown, Complete
<1>5. CacheComplete(d)'
  <2>1. SubSeq(q \o ws, 1, k) = SubSeq(q, 1, k)
    BY <1>2
  <2>2. Persisted(d)' = Persisted(d)
    BY <1>1, <1>2, <2>1 DEF Persisted
  <2>3. QED
    BY <1>2, <2>2 DEF CacheComplete, TakenShown
<1>6. QED
  BY <1>2, <1>4, <1>5 DEF TakenShown, Complete, ReadsComplete

--------------------------------------------------------------------------------
(* The steps of the one phone, by what they do to accounts and balances.      *)

\* A look at a page.
Looks == UNCHANGED <<storeVars, loaded, userDatabase>>

\* A handler that changes the user, and not the balance.
Changes(d) ==
    \E u \in User, fields \in SUBSET (Fields \ {"balance"}) :
        /\ screen[d].at # "login" /\ UNCHANGED loaded
        /\ ChangeCurrUser(d, u)
        /\ Issue(d, <<Update(session[d], fields, u)>>)

\* Friends, trades, cards and passwords.
LEMMA ChangesAre ==
    ASSUME Inv(User), AllBacked, NEW d \in Devices,
           FriendsStep(d) \/ TradingStep(d) \/ SettingsStep(d)
    PROVE  Looks \/ Changes(d)
<1> DEFINE me == CurrUser(d)
<1>1. screen[d].at # "login"
  BY DEF FriendsStep, DidTapSearchButton, DidSelectResult, DidSelectFriend,
         DidTapModifyFriendButton, TradingStep, DidTapSearchStock, BuyButton,
         SellButton, Trade, SettingsStep, DidTapAddCardButton,
         DidTapChangePassword
<1>2. me \in User /\ screen[d] \in Screen
  BY <1>1, SessionFacts, Types
<1>3. CASE \/ \E q \in Queries : DidTapSearchButton(d, q)
           \/ \E n \in Names : DidSelectResult(d, n)
           \/ \E n \in Names : DidSelectFriend(d, n)
           \/ \E s \in Symbols, p \in Quotes : DidTapSearchStock(d, s, p)
  BY <1>3 DEF DidTapSearchButton, DidSelectResult, DidSelectFriend,
              DidTapSearchStock, Looks
<1>4. ASSUME NEW u \in User, NEW fields, fields \in SUBSET (Fields \ {"balance"}),
             UNCHANGED loaded, ChangeCurrUser(d, u),
             Issue(d, <<Update(session[d], fields, u)>>)
      PROVE  Changes(d)
  BY <1>1, <1>4 DEF Changes
<1>5. CASE DidTapModifyFriendButton(d)
  <2>1. PICK n, u : n = screen[d].who /\ u = [me EXCEPT !.friends = Append(@, n)]
    OBVIOUS
  <2>2. /\ ChangeCurrUser(d, u) /\ UNCHANGED loaded
        /\ Issue(d, <<Update(session[d], {"friends"}, u)>>)
        /\ ~screen[d].known /\ screen[d].at = "friend"
    BY <1>5, <2>1 DEF DidTapModifyFriendButton
  <2>3. u \in User
    <3>1. n = NoName \/ n \notin Elements(me.friends)
      BY <1>1, <2>1, <2>2, SessionFacts DEF Inv, PageSettled
    <3>2. n \in Names \cup {NoName}
      BY <1>2, <2>1 DEF Screen
    <3>3. QED
      BY <1>2, <2>1, <3>1, <3>2, UserClosed DEF Closed
  <2>4. {"friends"} \in SUBSET (Fields \ {"balance"})
    BY DEF Fields
  <2>5. QED
    BY <1>4, <2>2, <2>3, <2>4
<1>6. ASSUME NEW u \in User, Trade(d, u)
      PROVE  Changes(d)
  <2>1. {"stock", "investmentBalance"} \in SUBSET (Fields \ {"balance"})
    BY DEF Fields
  <2>2. QED
    BY <1>4, <1>6, <2>1 DEF Trade
<1>7. ASSUME NEW q \in Quantities, BuyButton(d, q) \/ SellButton(d, q)
      PROVE  Changes(d)
  <2>1. PICK s, p : s = screen[d].symbol /\ p = screen[d].price
    OBVIOUS
  <2>2. s \in Symbols /\ p \in Int /\ q \in Int
    BY <1>1, <1>2, <1>7, <2>1, SessionFacts, TradingAssumption
    DEF BuyButton, SellButton, Trade, Inv, PageSettled, Screen
  <2>3. /\ CanBuy(me, q, p) => Bought(me, s, q, p) \in User
        /\ CanSell(me, s, q) => Sold(me, s, q, p) \in User
    BY <1>2, <2>2, TradedTypes
  <2>4. CASE BuyButton(d, q)
    <3>1. PICK u : u = IF CanBuy(me, q, p) THEN Bought(me, s, q, p) ELSE me
      OBVIOUS
    <3>2. Trade(d, u) /\ u \in User
      BY <1>2, <2>1, <2>3, <2>4, <3>1 DEF BuyButton
    <3>3. QED
      BY <1>6, <3>2
  <2>5. CASE SellButton(d, q)
    <3>1. PICK u : u = IF CanSell(me, s, q) THEN Sold(me, s, q, p) ELSE me
      OBVIOUS
    <3>2. Trade(d, u) /\ u \in User
      BY <1>2, <2>1, <2>3, <2>5, <3>1 DEF SellButton
    <3>3. QED
      BY <1>6, <3>2
  <2>6. QED
    BY <1>7, <2>4, <2>5
<1>8. ASSUME NEW c \in NewCards, DidTapAddCardButton(d, c)
      PROVE  Changes(d)
  <2>1. PICK u : u = [me EXCEPT !.cards = Append(@, c)]
    OBVIOUS
  <2>2. /\ ChangeCurrUser(d, u) /\ UNCHANGED loaded
        /\ Issue(d, <<Update(session[d], {"cards"}, u)>>)
    BY <1>8, <2>1 DEF DidTapAddCardButton
  <2>3. u \in User /\ {"cards"} \in SUBSET (Fields \ {"balance"})
    BY <1>2, <2>1, SettingsAssumption, UserClosed DEF Closed, Fields
  <2>4. QED
    BY <1>4, <2>2, <2>3
<1>9. ASSUME NEW p \in Passwords, NEW q \in NewPasswords,
             DidTapChangePassword(d, p, q)
      PROVE  Changes(d)
  <2>1. PICK u : u = [me EXCEPT !.password = q]
    OBVIOUS
  <2>2. /\ ChangeCurrUser(d, u) /\ UNCHANGED loaded
        /\ Issue(d, <<Update(session[d], {"password"}, u)>>)
    BY <1>9, <2>1 DEF DidTapChangePassword
  <2>3. u \in User /\ {"password"} \in SUBSET (Fields \ {"balance"})
    BY <1>2, <2>1, SettingsAssumption, UserClosed DEF Closed, Fields
  <2>4. QED
    BY <1>4, <2>2, <2>3
<1>10. QED
  BY <1>3, <1>5, <1>7, <1>8, <1>9 DEF FriendsStep, TradingStep, SettingsStep

\* With users who wait for the read, a payee has a name.
LEMMA PayeeNamed ==
    ASSUME Patient, Inv(User), AllBacked, RecipientsAreFriends,
           NEW d \in Devices, screen[d].at \in {"pay", "sheet", "confirm"}
    PROVE  /\ screen[d].who \in Names /\ userDatabase[d][screen[d].who] # NoDoc
           /\ own[d] = NoDoc /\ loads[d] = <<>>
<1>1. session[d] # NoName
  BY DEF Inv, SessionHasUser
<1>2. /\ screen[d].who \in Elements(recipients[d])
      /\ Among(CurrUser(d), Circle(d)) /\ own[d] = NoDoc /\ loads[d] = <<>>
  BY <1>1 DEF AllBacked, SessionBacked, UserBacked, Waited
<1>3. screen[d].who \in Present(userDatabase[d])
  BY <1>1, <1>2 DEF RecipientsAreFriends, Among, Circle, Blank
<1>4. QED
  BY <1>2, <1>3 DEF Present

\* Every step is one of these kinds.
LEMMA StepKinds ==
    ASSUME Patient, ~MayRefuse, Inv(User), AllBacked, RecipientsAreFriends,
           NEW d \in Devices, Step(d)
    PROVE  \/ (Persist(d) \/ Commit(d) \/ Ack(d) \/ Break(d)) /\ UNCHANGED appVars
           \/ (Raise(d) \/ RaiseFromCache(d)) /\ UNCHANGED appVars
           \/ Looks
           \/ Deliver(d)
           \/ AskForUsers(d) /\ UNCHANGED <<loaded, userDatabase>>
           \/ Restart(d, Persisted(d))
           \/ \E n \in Newcomers[d], p \in Passwords : VeryfySignUp(d, n, p)
           \/ Changes(d)
           \/ DidConfirmPay(d)
<1>1. ~Reject(d)
  BY NothingRejected DEF AllBacked
<1>2. CASE InBackground(d)
  BY <1>1, <1>2 DEF InBackground
<1>3. CASE SessionStep(d)
  <2>1. ~LoadFails(d) /\ ~DidTapTooEarly(d)
    BY DEF LoadFails, DidTapTooEarly
  <2>2. CASE DidTapLogout(d)
    BY <2>2 DEF DidTapLogout
  <2>3. CASE Crash(d)
    BY <2>3 DEF Crash
  <2>4. CASE Dismiss(d) \/ \E n \in Users[d], p \in Passwords : DidTapLogin(d, n, p)
    BY <2>4 DEF Dismiss, DidTapLogin, Looks
  <2>5. QED
    BY <1>3, <2>1, <2>2, <2>3, <2>4 DEF SessionStep
<1>4. CASE PaymentStep(d)
  <2>1. CASE DidTapPayUnparsable(d)
    BY <2>1 DEF DidTapPayUnparsable
  <2>2. ~DidConfirmPayNobody(d)
    BY PayeeNamed, SessionAssumption DEF DidConfirmPayNobody
  <2>3. CASE \/ \E n \in Names \cup {NoName} : DidSelectRecipient(d, n)
             \/ \E a \in Amounts : DidTapPayButton(d, a)
             \/ \E invest \in BOOLEAN : ShowConfirmationAlert(d, invest)
             \/ DidTapDiscard(d)
    BY <2>3 DEF DidSelectRecipient, DidTapPayButton, ShowConfirmationAlert,
                DidTapDiscard, Looks
  <2>4. QED
    BY <1>4, <2>1, <2>2, <2>3 DEF PaymentStep
<1>5. QED
  BY <1>2, <1>3, <1>4, ChangesAre DEF Step

\* The amount on the screen stays one that was typed.
LEMMA TypedStays ==
    ASSUME Inv(User), NEW d \in Devices, Typed(d), Step(d)
    PROVE  Typed(d)'
<1>1. screen \in [Devices -> Screen]
  BY Types
<1>2. ASSUME screen'[d] = screen[d]
      PROVE  Typed(d)'
  BY <1>2 DEF Typed
<1>3. ASSUME NEW s, Show(d, s), s.at \notin {"sheet", "confirm"}
      PROVE  Typed(d)'
  BY <1>1, <1>3 DEF Show, Typed
<1>4. LoginScreen.at = "login" /\ \A found : Tabs(found).at = "tabs"
  BY DEF LoginScreen, Tabs
<1>5. \A kept : Restart(d, kept) => Typed(d)'
  BY <1>3, <1>4 DEF Restart
<1>6. CASE InBackground(d)
  BY <1>2, <1>6 DEF InBackground, appVars
<1>7. CASE SessionStep(d)
  <2>1. CASE Deliver(d) \/ LoadFails(d)
    BY <1>2, <2>1 DEF Deliver, LoadFails, appVars
  <2>2. CASE \E n \in Users[d], p \in Passwords : DidTapLogin(d, n, p)
    BY <1>3, <1>4, <2>2 DEF DidTapLogin
  <2>3. CASE \E n \in Newcomers[d], p \in Passwords : VeryfySignUp(d, n, p)
    BY <1>2, <2>3 DEF VeryfySignUp
  <2>4. CASE DidTapLogout(d) \/ Dismiss(d)
    BY <1>3, <1>4, <2>4 DEF DidTapLogout, Dismiss
  <2>5. CASE DidTapTooEarly(d) \/ Crash(d)
    BY <1>5, <2>5 DEF DidTapTooEarly, Crash
  <2>6. QED
    BY <1>7, <2>1, <2>2, <2>3, <2>4, <2>5 DEF SessionStep
<1>8. CASE PaymentStep(d)
  <2>1. \A n : [screen[d] EXCEPT !.at = "pay", !.who = n].at = "pay"
    BY <1>1 DEF Screen
  <2>2. [screen[d] EXCEPT !.at = "pay", !.amount = 0, !.invest = FALSE].at = "pay"
    BY <1>1 DEF Screen
  <2>3. CASE \E n \in Names \cup {NoName} : DidSelectRecipient(d, n)
    BY <1>3, <2>1, <2>3 DEF DidSelectRecipient
  <2>4. ASSUME NEW a \in Amounts, DidTapPayButton(d, a)
        PROVE  Typed(d)'
    <3>1. screen'[d] = [screen[d] EXCEPT !.at = "sheet", !.amount = a]
      BY <1>1, <2>4 DEF DidTapPayButton, Show
    <3>2. [screen[d] EXCEPT !.at = "sheet", !.amount = a].amount = a
      BY <1>1 DEF Screen
    <3>3. QED
      BY <3>1, <3>2 DEF Typed
  <2>5. ASSUME NEW invest \in BOOLEAN, ShowConfirmationAlert(d, invest)
        PROVE  Typed(d)'
    <3>1. /\ screen'[d] = [screen[d] EXCEPT !.at = "confirm", !.invest = invest]
          /\ screen[d].at = "sheet"
      BY <1>1, <2>5 DEF ShowConfirmationAlert, Show
    <3>2. [screen[d] EXCEPT !.at = "confirm", !.invest = invest].amount
          = screen[d].amount
      BY <1>1 DEF Screen
    <3>3. QED
      BY <3>1, <3>2 DEF Typed
  <2>6. CASE DidTapDiscard(d)
    BY <1>3, <2>2, <2>6 DEF DidTapDiscard
  <2>7. CASE DidTapPayUnparsable(d) \/ DidConfirmPayNobody(d)
    BY <1>5, <2>7 DEF DidTapPayUnparsable, DidConfirmPayNobody
  <2>8. CASE DidConfirmPay(d)
    BY <1>3, <1>4, <2>8 DEF DidConfirmPay
  <2>9. QED
    BY <1>8, <2>3, <2>4, <2>5, <2>6, <2>7, <2>8 DEF PaymentStep
<1>9. CASE FriendsStep(d)
  <2>1. CASE \E q \in Queries : DidTapSearchButton(d, q)
    BY <1>3, <1>4, <2>1 DEF DidTapSearchButton
  <2>2. ASSUME NEW n \in Names, DidSelectResult(d, n) \/ DidSelectFriend(d, n)
        PROVE  Typed(d)'
    <3>1. PICK s : Show(d, s) /\ s.at = "friend"
      <4>1. \A found, who, known :
                [Tabs(found) EXCEPT !.at = "friend", !.who = who,
                                    !.known = known].at = "friend"
        BY DEF Tabs, LoginScreen
      <4>2. CASE DidSelectResult(d, n)
        <5>1. PICK s : s = [Tabs({}) EXCEPT !.at = "friend",
                              !.who = FoundName(d, n), !.known = IsFriend(d, n)]
          OBVIOUS
        <5>2. Show(d, s) /\ s.at = "friend"
          BY <4>1, <4>2, <5>1 DEF DidSelectResult
        <5>3. QED
          BY <5>2
      <4>3. CASE DidSelectFriend(d, n)
        <5>1. PICK s : s = [Tabs(screen[d].found) EXCEPT !.at = "friend",
                              !.who = FoundName(d, n), !.known = TRUE]
          OBVIOUS
        <5>2. Show(d, s) /\ s.at = "friend"
          BY <4>1, <4>3, <5>1 DEF DidSelectFriend
        <5>3. QED
          BY <5>2
      <4>4. QED
        BY <2>2, <4>2, <4>3
    <3>2. QED
      BY <1>3, <3>1
  <2>3. CASE DidTapModifyFriendButton(d)
    <3>1. [screen[d] EXCEPT !.known = TRUE, !.found = {}].at = screen[d].at
      BY <1>1 DEF Screen
    <3>2. QED
      BY <1>3, <2>3, <3>1 DEF DidTapModifyFriendButton
  <2>4. QED
    BY <1>9, <2>1, <2>2, <2>3 DEF FriendsStep
<1>10. CASE TradingStep(d)
  <2>1. \A s, p : [screen[d] EXCEPT !.at = "stock", !.symbol = s,
                                    !.price = p].at = "stock"
    BY <1>1 DEF Screen
  <2>2. CASE \E s \in Symbols, p \in Quotes : DidTapSearchStock(d, s, p)
    BY <1>3, <2>1, <2>2 DEF DidTapSearchStock
  <2>3. CASE \E q \in Quantities : BuyButton(d, q) \/ SellButton(d, q)
    BY <1>2, <2>3 DEF BuyButton, SellButton, Trade
  <2>4. QED
    BY <1>10, <2>2, <2>3 DEF TradingStep
<1>11. CASE SettingsStep(d)
  BY <1>2, <1>11 DEF SettingsStep, DidTapAddCardButton, DidTapChangePassword
<1>12. QED
  BY <1>6, <1>7, <1>8, <1>9, <1>10, <1>11 DEF Step

\* Every step keeps taken names shown.
LEMMA StepShown ==
    ASSUME Patient, ~MayRefuse, Inv(User), AllBacked, AllCurrent,
           RecipientsAreFriends, NEW d \in Devices, TakenShown(d), Step(d)
    PROVE  TakenShown(d)'
<1>1. StoreBacked /\ ReadsWait(d) /\ Newcomers[d] \subseteq Names
  BY SessionAssumption DEF AllBacked, AllCurrent, PhoneCurrent
<1>2. CASE Looks
  <2>1. UNCHANGED <<docs, cache, queue, durable, loads, loaded, userDatabase>>
    BY <1>2 DEF Looks, storeVars
  <2>2. CacheComplete(d)'
    BY <2>1 DEF CacheComplete, Persisted, TakenShown
  <2>3. QED
    BY <2>1, <2>2, ShownWithReads
<1>3. ASSUME NEW n \in Newcomers[d], NEW p \in Passwords, VeryfySignUp(d, n, p)
      PROVE  TakenShown(d)'
  <2>1. PICK u, w : u = [BlankUser EXCEPT !.password = p] /\ w = Create(n, u)
    OBVIOUS
  <2>2. n \in Names /\ u \in User /\ u # NoDoc
    <3>1. n \in Names /\ BlankUser \in User /\ NoDoc \notin User
      BY <1>1, SessionAssumption, BlankAmong
    <3>2. QED
      BY <2>1, <3>1, UserClosed DEF Closed
  <2>3. w \in WritesOf(User) /\ <<w>> \in Seq(WritesOf(User)) /\ w.doc = n
    BY <2>1, <2>2 DEF Create, WritesOf
  <2>4. /\ Issue(d, <<w>>) /\ loads[d] = <<>> /\ UNCHANGED loaded
        /\ userDatabase'[d] = [userDatabase[d] EXCEPT ![n] = u]
        /\ userDatabase[d] \in ViewsOf(User)
    BY <1>3, <2>1, Types DEF VeryfySignUp, Ready
  <2>5. \A m \in Names : userDatabase[d][m] # NoDoc \/ m = n =>
            userDatabase'[d][m] # NoDoc
    BY <2>2, <2>4 DEF ViewsOf
  <2>6. \A i \in DOMAIN <<w>> : <<w>>[i].doc = n
    BY <2>3
  <2>7. ASSUME NEW m \in Names,
               \/ userDatabase[d][m] # NoDoc
               \/ \E i \in DOMAIN <<w>> : <<w>>[i].doc = m /\ <<w>>[i].set
        PROVE  userDatabase'[d][m] # NoDoc
    BY <2>5, <2>6, <2>7
  <2>8. QED
    BY <1>1, <2>3, <2>4, <2>7, IssueShown
<1>4. ASSUME session[d] # NoName
      PROVE  loads[d] = <<>> /\ own[d] = NoDoc
  BY <1>4 DEF AllBacked, SessionBacked, Waited
<1>5. ASSUME NEW u \in User, NEW fields \in SUBSET (Fields \ {"balance"}),
             screen[d].at # "login", UNCHANGED loaded, ChangeCurrUser(d, u),
             Issue(d, <<Update(session[d], fields, u)>>)
      PROVE  TakenShown(d)'
  <2>1. PICK w : w = Update(session[d], fields, u)
    OBVIOUS
  <2>2. session[d] \in Names /\ session[d] # NoName
    BY <1>5, SessionFacts
  <2>3. w \in WritesOf(User) /\ <<w>> \in Seq(WritesOf(User)) /\ ~w.set
    <3>1. Patched(BlankUser, fields, u) \in User
      BY BlankAmong, UserClosed, PatchedIn DEF Closed
    <3>2. QED
      BY <2>1, <2>2, <3>1 DEF Update, WritesOf
  <2>4. \A i \in DOMAIN <<w>> : ~<<w>>[i].set
    BY <2>3
  <2>5. \A m \in Names : userDatabase[d][m] # NoDoc => userDatabase'[d][m] # NoDoc
    <3>1. /\ userDatabase' = [userDatabase EXCEPT ![d][session[d]] = u]
          /\ userDatabase \in [Devices -> ViewsOf(User)] /\ u # NoDoc
      BY <1>4, <1>5, <2>2, Types, SessionAssumption DEF ChangeCurrUser
    <3>2. QED
      BY <3>1 DEF ViewsOf
  <2>6. loads[d] = <<>>
    BY <1>4, <2>2
  <2>7. QED
    BY <1>1, <1>5, <2>1, <2>3, <2>4, <2>5, <2>6, IssueShown
<1>6. CASE DidConfirmPay(d)
  <2>1. PICK ws : ws = PaymentWrites(d)
    OBVIOUS
  <2>2. /\ screen[d].at = "confirm" /\ screen[d].who \in Names
        /\ screen[d].at # "login"
        /\ Issue(d, ws) /\ UNCHANGED loaded
    <3>1. screen[d].at = "confirm"
      BY <1>6 DEF DidConfirmPay
    <3>2. QED
      BY <1>6, <2>1, <3>1 DEF DidConfirmPay
  <2>3. session[d] \in Names /\ session[d] # NoName /\ loads[d] = <<>>
        /\ own[d] = NoDoc
    BY <1>4, <2>2, SessionFacts
  <2>4. ws \in Seq(WritesOf(User)) /\ \A i \in DOMAIN ws : ~ws[i].set
    <3>1. /\ ws \in Seq(WritesOf(User))
          /\ DOMAIN ws = IF screen[d].invest THEN 1..3 ELSE 1..2
          /\ screen[d].invest =>
                 ws[3] = Update(session[d], {"investmentBalance"}, Invested(d))
      BY <2>1, <2>2, PaymentWritesAre
    <3>2. /\ \E u : ws[1] = Update(session[d], {"balance"}, u)
          /\ \E u : ws[2] = Update(screen[d].who, {"balance"}, u)
      BY <2>1, <2>2, PaymentWritesAre
    <3>3. \A n, fields, u : ~Update(n, fields, u).set
      BY DEF Update
    <3>4. ASSUME NEW i \in DOMAIN ws
          PROVE  i = 1 \/ i = 2 \/ (i = 3 /\ screen[d].invest)
      BY <3>1
    <3>5. QED
      BY <3>1, <3>2, <3>3, <3>4
  <2>5. PICK shown, object : shown = Credited(d) /\ object = Invested(d)
    OBVIOUS
  <2>6. /\ shown \in ViewsOf(User) /\ object \in User /\ object # NoDoc
        /\ \A n \in Names : shown[n] = NoDoc <=> userDatabase[d][n] = NoDoc
    BY <2>2, <2>5, PaymentObjects, SessionAssumption
  <2>7. \A n \in Names : userDatabase'[d][n] =
            IF n = session[d] THEN object ELSE shown[n]
    <3>1. userDatabase'[d] = [shown EXCEPT ![session[d]] = object]
      BY <1>6, <2>3, <2>5, Types DEF DidConfirmPay
    <3>2. QED
      BY <2>6, <3>1 DEF ViewsOf
  <2>8. QED
    BY <1>1, <2>2, <2>3, <2>4, <2>6, <2>7, IssueShown
<1>7. CASE Deliver(d)
  BY <1>7, DeliverShown
<1>8. CASE Restart(d, Persisted(d))
  BY <1>8, KilledShown
<1>9. CASE AskForUsers(d) /\ UNCHANGED <<loaded, userDatabase>>
  BY <1>9, AskShown
<1>10. CASE (Persist(d) \/ Commit(d) \/ Ack(d) \/ Break(d)) /\ UNCHANGED appVars
  BY <1>1, <1>10, PersistShown, CommitShown, AckShown, BreakShown
<1>11. CASE (Raise(d) \/ RaiseFromCache(d)) /\ UNCHANGED appVars
  BY <1>1, <1>11, RaiseShown
<1>12. CASE Changes(d)
  BY <1>5, <1>12 DEF Changes
<1>13. QED
  BY <1>2, <1>3, <1>6, <1>7, <1>8, <1>9, <1>10, <1>11, <1>12, StepKinds

--------------------------------------------------------------------------------
(* What the steps do to the books.                                            *)

\* The one phone's store, by short names.
LEMMA BookFacts ==
    ASSUME Inv(User), NEW d \in Devices
    PROVE  /\ docs \in ViewsOf(User) /\ queue[d] \in Seq(WritesOf(User))
           /\ durable[d] \in 0..Len(queue[d])
           /\ IsBook(Pages(d), docs, queue[d], durable[d])
<1>1. /\ docs \in ViewsOf(User) /\ queue[d] \in Seq(WritesOf(User))
      /\ durable[d] \in 0..Len(queue[d])
  BY Types, Queue
<1>2. QED
  BY <1>1, BookType DEF Pages

\* The worker queue's storing of a write saves a page.
LEMMA PersistPages ==
    ASSUME Inv(User), NEW d \in Devices, Persist(d)
    PROVE  Len(Pages(d)) > 1 /\ Pages(d)' = Tail(Pages(d))
<1>1. PICK q, k : q = queue[d] /\ k = durable[d]
  OBVIOUS
<1>2. /\ k < Len(q) /\ durable'[d] = k + 1 /\ UNCHANGED <<docs, queue>>
  BY <1>1, Types DEF Persist
<1>3. docs \in ViewsOf(User) /\ q \in Seq(WritesOf(User)) /\ k \in 0..Len(q)
  BY <1>1, BookFacts
<1>4. Len(BookOf(docs, q, k)) > 1 /\ BookOf(docs, q, k + 1) = Tail(BookOf(docs, q, k))
  BY <1>2, <1>3, BookSaved
<1>5. QED
  BY <1>1, <1>2, <1>4 DEF Pages

\* What the server has committed is not seen: the writes are still on top.
LEMMA CommitPages ==
    ASSUME Inv(User), StoreBacked, NEW d \in Devices, Commit(d),
           \A n \in Names, f \in Fields : StoreCurrent(d, n, f)
    PROVE  Pages(d)' = Pages(d)
<1>1. PICK q, a, k, w : /\ q = queue[d] /\ a = applied[d] /\ k = durable[d]
                        /\ w = q[a + 1]
  OBVIOUS
<1>2. /\ a < k /\ Accepts(docs, w) /\ docs' = Applied(docs, w)
      /\ UNCHANGED <<queue, durable>>
  BY <1>1 DEF Commit
<1>3. /\ q \in Seq(WritesOf(User)) /\ a \in 0..Len(q) /\ k \in 0..Len(q)
      /\ DOMAIN q = 1..Len(q) /\ Len(q) \in Nat
      /\ a + 1 \in DOMAIN q /\ a + 1 \in 0..Len(q)
  BY <1>1, <1>2, Queue
<1>4. w \in WritesOf(User) /\ (w.set => w.mask = Fields)
  BY <1>1, <1>3, WriteType DEF StoreBacked, QueueBacked, WriteBacked
<1>5. docs \in ViewsOf(User) /\ docs' \in ViewsOf(User) /\ "balance" \in Fields
  BY <1>2, <1>4, Types, AppliedIn, UserClosed DEF Closed, Fields
<1>6. ASSUME NEW n \in Names, NEW m \in (a + 1)..Len(q)
      PROVE  Latest(Base(docs', n, "balance"), SubSeq(q, 1, m), n, "balance")
             = Latest(Base(docs, n, "balance"), SubSeq(q, 1, m), n, "balance")
  <2>1. PICK f, s, t : /\ f = "balance" /\ s = Base(docs, n, f)
                       /\ t = Base(docs', n, f)
    OBVIOUS
  <2>2. f \in Fields /\ t = IF Touches(w, n, f) THEN w.value[f] ELSE s
    BY <1>2, <1>4, <1>5, <2>1, BaseApplied
  <2>3. Latest(s, SubSeq(q, 1, a), n, f) = s
    BY <1>1, <2>1, <2>2 DEF StoreCurrent, Before
  <2>4. PICK some, more : some = SubSeq(q, 1, a) /\ more = SubSeq(q, 1, a + 1)
    OBVIOUS
  <2>5. /\ some \in Seq(WritesOf(User)) /\ Len(some) = a
        /\ \A i \in 1..a : some[i] = q[i]
    BY <1>3, <2>4, PrefixIs
  <2>6. /\ more \in Seq(WritesOf(User)) /\ Len(more) = a + 1
        /\ \A i \in 1..(a + 1) : more[i] = q[i]
    BY <1>3, <2>4, PrefixIs
  <2>7. /\ Len(more) = Len(some) + 1 /\ more[Len(more)] = w
        /\ \A i \in 1..Len(some) : more[i] = some[i]
    BY <1>1, <1>3, <2>5, <2>6
  <2>8. \A b : Latest(b, more, n, f) =
                   IF Touches(w, n, f) THEN w.value[f]
                   ELSE Latest(b, some, n, f)
    BY <2>5, <2>6, <2>7, LatestAppended
  <2>9. Latest(t, SubSeq(q, 1, a + 1), n, f)
        = Latest(s, SubSeq(q, 1, a + 1), n, f)
    BY <2>2, <2>3, <2>4, <2>8
  <2>10. PICK stored : stored = SubSeq(q, 1, m)
    OBVIOUS
  <2>11. /\ stored \in Seq(WritesOf(User)) /\ Len(stored) = m
         /\ \A i \in 1..m : stored[i] = q[i]
    BY <1>3, <2>10, PrefixIs
  <2>12. Len(stored) >= a + 1 /\ \A i \in 1..(a + 1) : stored[i] = q[i]
    BY <1>3, <2>11
  <2>13. Latest(t, stored, n, f) = Latest(s, stored, n, f)
    BY <1>3, <2>9, <2>11, <2>12, LatestExtends
  <2>14. QED
    BY <2>1, <2>10, <2>13
<1>7. ASSUME NEW i \in 0..(Len(q) - k)
      PROVE  PageOf(docs', SubSeq(q, 1, k + i)) = PageOf(docs, SubSeq(q, 1, k + i))
  <2>1. k + i \in (a + 1)..Len(q)
    BY <1>1, <1>2, <1>3
  <2>2. QED
    BY <1>6, <2>1 DEF PageOf
<1>8. BookOf(docs', q, k) = BookOf(docs, q, k)
  BY <1>3, <1>5, <1>7, BookSame
<1>9. QED
  BY <1>1, <1>2, <1>8 DEF Pages

\* Nor is an answer: what leaves the queue is on the server.
LEMMA AckPages ==
    ASSUME Inv(User), NEW d \in Devices, Ack(d),
           \A n \in Names, f \in Fields : StoreCurrent(d, n, f)
    PROVE  Pages(d)' = Pages(d)
<1>1. PICK q, a, k, more : /\ q = queue[d] /\ a = applied[d] /\ k = durable[d]
                           /\ more = Tail(q)
  OBVIOUS
<1>2. /\ a > 0 /\ durable'[d] = k - 1 /\ queue'[d] = more /\ UNCHANGED docs
  BY <1>1, Types DEF Ack
<1>3. /\ q \in Seq(WritesOf(User)) /\ a \in 1..Len(q) /\ k \in 1..Len(q)
      /\ a <= k /\ k \in Nat /\ a \in Nat /\ Len(q) \in Nat /\ q # <<>>
      /\ docs \in ViewsOf(User)
  BY <1>1, <1>2, Queue, Positions, Types
<1>4. /\ more \in Seq(WritesOf(User)) /\ Len(more) = Len(q) - 1
      /\ k - 1 \in 0..Len(more) /\ k \in 0..Len(q)
      /\ Len(more) - (k - 1) = Len(q) - k
  <2>1. more \in Seq(WritesOf(User)) /\ Len(more) = Len(q) - 1
    BY <1>1, <1>3
  <2>2. QED
    BY <1>3, <2>1
<1>5. ASSUME NEW n \in Names, NEW m \in k..Len(q)
      PROVE  Latest(Base(docs, n, "balance"), SubSeq(more, 1, m - 1), n, "balance")
             = Latest(Base(docs, n, "balance"), SubSeq(q, 1, m), n, "balance")
  <2>1. PICK f, s : f = "balance" /\ s = Base(docs, n, f)
    OBVIOUS
  <2>2. f \in Fields
    BY <2>1 DEF Fields
  <2>3. Latest(s, SubSeq(q, 1, a), n, f) = s
    BY <1>1, <2>1, <2>2 DEF StoreCurrent, Before
  <2>4. m \in 1..Len(q) /\ a \in 1..m
    BY <1>3
  <2>5. Latest(s, SubSeq(Tail(q), 1, m - 1), n, f) = Latest(s, SubSeq(q, 1, m), n, f)
    BY <1>3, <2>3, <2>4, PrefixDropped
  <2>6. QED
    BY <1>1, <2>1, <2>5
<1>6. ASSUME NEW i \in 0..(Len(q) - k)
      PROVE  PageOf(docs, SubSeq(more, 1, k - 1 + i)) = PageOf(docs, SubSeq(q, 1, k + i))
  <2>1. k + i \in k..Len(q) /\ k - 1 + i = (k + i) - 1
    BY <1>3
  <2>2. QED
    BY <1>5, <2>1 DEF PageOf
<1>7. BookOf(docs, more, k - 1) = BookOf(docs, q, k)
  BY <1>3, <1>4, <1>6, BookSame
<1>8. QED
  BY <1>1, <1>2, <1>7 DEF Pages

\* A process that ends keeps the first page.
LEMMA KilledPages ==
    ASSUME Inv(User), NEW d \in Devices, Restart(d, Persisted(d))
    PROVE  Pages(d)' = <<Head(Pages(d))>>
<1>1. PICK q, k, kept : q = queue[d] /\ k = durable[d] /\ kept = SubSeq(q, 1, k)
  OBVIOUS
<1>2. queue'[d] = kept /\ durable'[d] = Len(kept) /\ UNCHANGED docs
  BY <1>1, Types DEF Restart, Reopen, Persisted
<1>3. docs \in ViewsOf(User) /\ q \in Seq(WritesOf(User)) /\ k \in 0..Len(q)
  BY <1>1, BookFacts
<1>4. BookOf(docs, kept, Len(kept)) = <<Head(BookOf(docs, q, k))>>
  BY <1>1, <1>3, BookCut
<1>5. QED
  BY <1>1, <1>2, <1>4 DEF Pages

\* The other steps of the store, and the looks, leave the books alone.
LEMMA QuietPages ==
    ASSUME NEW d \in Devices, UNCHANGED docs, queue'[d] = queue[d],
           durable'[d] = durable[d]
    PROVE  Pages(d)' = Pages(d)
  BY DEF Pages

\* A handler's writes, and the pages they add: some page over the latest one
\* for each of them.
LEMMA IssuePages ==
    ASSUME Inv(User), NEW d \in Devices, NEW ws \in Seq(WritesOf(User)),
           ws # <<>>, Issue(d, ws), NEW latest,
           latest = PageOf(docs, queue[d])
    PROVE  Adds(Pages(d), Pages(d)', latest, PagesOver(latest, ws))
<1>1. PICK q, k : q = queue[d] /\ k = durable[d]
  OBVIOUS
<1>2. /\ queue'[d] = q \o ws /\ UNCHANGED <<docs, durable>>
      /\ latest = PageOf(docs, q)
  BY <1>1, Types DEF Issue
<1>3. docs \in ViewsOf(User) /\ q \in Seq(WritesOf(User)) /\ k \in 0..Len(q)
  BY <1>1, BookFacts
<1>4. Adds(BookOf(docs, q, k), BookOf(docs, q \o ws, k), latest,
           PagesOver(latest, ws))
  BY <1>2, <1>3, BookEntered
<1>5. QED
  BY <1>1, <1>2, <1>4 DEF Pages

\* A page of a balance for every name that a write leaves alone.
LEMMA PageOverOne ==
    ASSUME NEW page \in Sheet, NEW w \in WritesOf(User),
           \A n \in Names : Touches(w, n, "balance") =>
                                w.value["balance"] = page[n]
    PROVE  PageOver(page, <<w>>) = page
<1>1. ASSUME NEW n \in Names
      PROVE  Latest(page[n], <<w>>, n, "balance") = page[n]
  BY LatestOfOne
<1>2. QED
  BY <1>1 DEF PageOver, Sheet

\* A write that says nothing new of the balances adds the latest page again.
LEMMA SamePage ==
    ASSUME Inv(User), NEW d \in Devices, NEW w \in WritesOf(User),
           Issue(d, <<w>>), NEW latest, latest = PageOf(docs, queue[d]),
           \A n \in Names : Touches(w, n, "balance") =>
                                w.value["balance"] = latest[n]
    PROVE  Adds(Pages(d), Pages(d)', latest, <<latest>>)
<1>1. latest \in Sheet
  BY BookFacts, PageType
<1>2. PageOver(latest, <<w>>) = latest
  BY <1>1, PageOverOne
<1>3. PICK ws : ws = <<w>>
  OBVIOUS
<1>4. ws \in Seq(WritesOf(User)) /\ ws # <<>> /\ Len(ws) = 1
  BY <1>3
<1>5. PagesOver(latest, ws) = <<latest>>
  <2>1. \A i \in 1..1 : SubSeq(ws, 1, i) = ws
    BY <1>4
  <2>2. \A i \in 1..1 : PageOver(latest, SubSeq(ws, 1, i)) = latest
    BY <1>2, <1>3, <2>1
  <2>3. [i \in 1..1 |-> PageOver(latest, SubSeq(ws, 1, i))] = [i \in 1..1 |-> latest]
    BY <2>2
  <2>4. [i \in 1..1 |-> latest] = <<latest>>
    OBVIOUS
  <2>5. QED
    BY <1>4, <2>3, <2>4 DEF PagesOver
<1>6. QED
  BY <1>3, <1>4, <1>5, IssuePages

\* What a sign-up or a change of the user other than a payment writes.
LEMMA ChangePages ==
    ASSUME Inv(User), AllBacked, NEW d \in Devices, Changes(d),
           NEW latest, latest = PageOf(docs, queue[d])
    PROVE  Adds(Pages(d), Pages(d)', latest, <<latest>>)
<1>1. PICK u \in User, fields \in SUBSET (Fields \ {"balance"}) :
          /\ screen[d].at # "login"
          /\ Issue(d, <<Update(session[d], fields, u)>>)
  BY DEF Changes
<1>2. PICK w : w = Update(session[d], fields, u)
  OBVIOUS
<1>3. session[d] \in Names /\ Patched(BlankUser, fields, u) \in User
  BY <1>1, SessionFacts, BlankAmong, UserClosed, PatchedIn DEF Closed
<1>4. w \in WritesOf(User) /\ \A n : ~Touches(w, n, "balance")
  BY <1>2, <1>3 DEF Update, WritesOf, Touches
<1>5. QED
  BY <1>1, <1>2, <1>4, SamePage

\* An account that nobody has created: there is no document, and no write.
LEMMA NotTaken ==
    ASSUME Inv(User), StoreBacked, NEW d \in Devices, NEW n \in Names,
           ~Exists(docs, queue[d], n)
    PROVE  PageOf(docs, queue[d])[n] = 0
<1>1. PICK q : q = queue[d]
  OBVIOUS
<1>2. q \in Seq(WritesOf(User)) /\ docs[n] = NoDoc
      /\ \A i \in DOMAIN q : ~(q[i].doc = n /\ q[i].set)
  BY <1>1, Types DEF Exists
<1>3. ASSUME NEW i \in DOMAIN q
      PROVE  ~Touches(q[i], n, "balance")
  <2>1. SUFFICES ASSUME q[i].doc = n
                 PROVE  FALSE
    BY DEF Touches
  <2>2. ~q[i].set /\ n \in KnownBefore(d, i)
    BY <1>1, <1>2, <2>1 DEF StoreBacked, QueueBacked, WriteBacked
  <2>3. n \notin Present(cache[d])
    BY <1>2 DEF StoreBacked, CacheBacked, Present
  <2>4. n \notin CreatedBefore(queue[d], i)
    BY <1>1, <1>2 DEF CreatedBefore
  <2>5. QED
    BY <2>2, <2>3, <2>4 DEF KnownBefore
<1>4. Base(docs, n, "balance") = 0
  BY <1>2 DEF Base, BlankUser
<1>5. Latest(Base(docs, n, "balance"), q, n, "balance") = Base(docs, n, "balance")
  BY <1>2, <1>3, LatestCases
<1>6. QED
  BY <1>1, <1>4, <1>5 DEF PageOf

\* A sign-up is for a name that is not taken: the blank balance of the new account
\* is the one the latest page has.
LEMMA SignUpPages ==
    ASSUME Patient, Inv(User), AllBacked, NEW d \in Devices, TakenShown(d),
           NEW n \in Newcomers[d], NEW p \in Passwords, VeryfySignUp(d, n, p),
           NEW latest, latest = PageOf(docs, queue[d])
    PROVE  Adds(Pages(d), Pages(d)', latest, <<latest>>)
<1>1. PICK u, w : u = [BlankUser EXCEPT !.password = p] /\ w = Create(n, u)
  OBVIOUS
<1>2. /\ Issue(d, <<w>>) /\ loads[d] = <<>> /\ loaded[d]
      /\ userDatabase[d][n] = NoDoc
  BY <1>1 DEF VeryfySignUp, Ready
<1>3. n \in Names /\ u \in User /\ u.balance = 0
  <2>1. n \in Names /\ BlankUser \in User
    BY SessionAssumption, BlankAmong
  <2>2. u \in User
    BY <1>1, <2>1, UserClosed DEF Closed
  <2>3. u.balance = 0
    BY <1>1 DEF BlankUser
  <2>4. QED
    BY <2>1, <2>2, <2>3
<1>4. ~Exists(docs, queue[d], n)
  BY <1>2 DEF TakenShown, Complete
<1>5. latest[n] = 0
  BY <1>3, <1>4, NotTaken DEF AllBacked
<1>6. /\ w \in WritesOf(User) /\ w.value["balance"] = 0
      /\ \A m : Touches(w, m, "balance") => m = n
  BY <1>1, <1>3 DEF Create, WritesOf, Touches
<1>7. QED
  BY <1>2, <1>5, <1>6, SamePage

\* What the payee has once the loop of the OK handler has found it.
LEMMA PayeeBalance ==
    ASSUME Inv(User), NEW d \in Devices, own[d] = NoDoc,
           screen[d].at = "confirm", screen[d].who \in Names,
           userDatabase[d][screen[d].who] # NoDoc
    PROVE  LET n == screen[d].who
               has == IF n = session[d] THEN CurrUser(d).balance - screen[d].amount
                      ELSE userDatabase[d][n].balance
           IN Credited(d)[n] \in User /\ Credited(d)[n].balance = has + screen[d].amount
<1>1. PICK n, me, a, users, paid : /\ n = screen[d].who /\ me = session[d]
                                   /\ a = screen[d].amount
                                   /\ users = userDatabase[d] /\ paid = Debited(d)
  OBVIOUS
<1>2. /\ users \in [Names -> User \cup {NoDoc}] /\ NoDoc \notin User
      /\ n \in Names /\ me \in Names /\ users[me] \in User /\ a \in Int
      /\ users[n] \in User /\ CurrUser(d) = users[me]
  <2>1. me \in Names /\ CurrUser(d) \in User /\ users[me] = CurrUser(d)
    BY <1>1, CurrUserIn, UserClosed DEF Closed, CurrUser
  <2>2. screen[d] \in Screen
    BY Types
  <2>3. QED
    BY <1>1, <2>1, <2>2, Types, SessionAssumption DEF Screen, ViewsOf
<1>3. users[me].balance \in Int /\ users[n].balance \in Int
  BY <1>2 DEF User
<1>4. PICK less : less = [users[me] EXCEPT !.balance = users[me].balance - a]
  OBVIOUS
<1>5. less \in User /\ less.balance = users[me].balance - a
  BY <1>2, <1>3, <1>4, BalanceOnly
<1>6. paid = [users EXCEPT ![me] = less]
  BY <1>1, <1>2, <1>4 DEF Debited
<1>7. PICK had : had = paid[n]
  OBVIOUS
<1>8. /\ had \in User /\ had # NoDoc
      /\ had.balance = IF n = me THEN users[me].balance - a ELSE users[n].balance
  BY <1>2, <1>5, <1>6, <1>7
<1>9. had.balance \in Int
  BY <1>8 DEF User
<1>10. PICK more : more = [had EXCEPT !.balance = had.balance + a]
  OBVIOUS
<1>11. more \in User /\ more.balance = had.balance + a
  BY <1>2, <1>8, <1>9, <1>10, BalanceOnly
<1>12. Credited(d)[n] = more
  <2>1. Credited(d) = [paid EXCEPT ![n] = [had EXCEPT !.balance = had.balance + a]]
    BY <1>1, <1>7, <1>8 DEF Credited
  <2>2. paid \in [Names -> User \cup {NoDoc}]
    BY <1>2, <1>5, <1>6
  <2>3. QED
    BY <1>2, <1>10, <2>1, <2>2
<1>13. QED
  BY <1>1, <1>2, <1>8, <1>11, <1>12

\* A write over a page.
LEMMA PageOverFew ==
    ASSUME NEW page \in Sheet, NEW ws \in Seq(WritesOf(User)), NEW i \in 1..3,
           i <= Len(ws), NEW other \in Sheet,
           \A n \in Names : other[n] =
               IF i = 3 /\ Touches(ws[3], n, "balance") THEN ws[3].value["balance"]
               ELSE IF i >= 2 /\ Touches(ws[2], n, "balance")
               THEN ws[2].value["balance"]
               ELSE IF Touches(ws[1], n, "balance") THEN ws[1].value["balance"]
               ELSE page[n]
    PROVE  PageOver(page, SubSeq(ws, 1, i)) = other
<1>1. PICK some : some = SubSeq(ws, 1, i)
  OBVIOUS
<1>2. i \in 0..Len(ws)
  OBVIOUS
<1>3. /\ some \in Seq(WritesOf(User)) /\ Len(some) = i
      /\ \A j \in 1..i : some[j] = ws[j]
  BY <1>1, <1>2, PrefixIs
<1>4. ASSUME NEW n \in Names
      PROVE  Latest(page[n], some, n, "balance") = other[n]
  <2>1. CASE i = 1
    <3>1. some[1] = ws[1]
      BY <1>3, <2>1
    <3>2. QED
      BY <1>3, <2>1, <3>1, LatestOfFew
  <2>2. CASE i = 2
    <3>1. some[1] = ws[1] /\ some[2] = ws[2]
      BY <1>3, <2>2
    <3>2. QED
      BY <1>3, <2>2, <3>1, LatestOfFew
  <2>3. CASE i = 3
    <3>1. some[1] = ws[1] /\ some[2] = ws[2] /\ some[3] = ws[3]
      BY <1>3, <2>3
    <3>2. QED
      BY <1>3, <2>3, <3>1, LatestOfFew
  <2>4. QED
    BY <2>1, <2>2, <2>3
<1>5. QED
  BY <1>1, <1>4 DEF PageOver, Sheet

\* A payment adds the pages of a payment: it starts from the latest balances
\* and debits the payer first.
LEMMA PaymentPages ==
    ASSUME Patient, Inv(User), AllBacked, RecipientsAreFriends,
           NEW d \in Devices, Typed(d), DidConfirmPay(d),
           \A n \in Names, f \in Fields : ListCurrent(d, n, f),
           NEW latest, latest = PageOf(docs, queue[d])
    PROVE  \E payer, payee \in Names, a \in Amounts :
               LET pages == Books!Payment(latest, payer, payee, a)
               IN \E added \in {pages, Append(pages, pages[2])} :
                      Adds(Pages(d), Pages(d)', latest, added)
<1>1. PICK me, who, a, ws, invest :
          /\ me = session[d] /\ who = screen[d].who /\ a = screen[d].amount
          /\ ws = PaymentWrites(d) /\ invest = screen[d].invest
  OBVIOUS
<1>2. screen[d].at = "confirm" /\ who \in Names
  BY <1>1 DEF DidConfirmPay
<1>3. /\ Issue(d, ws) /\ own[d] = NoDoc /\ loads[d] = <<>>
      /\ userDatabase[d][who] # NoDoc
  BY <1>1, <1>2, PayeeNamed DEF DidConfirmPay
<1>4. a \in Amounts /\ a \in Int /\ invest \in BOOLEAN
  <2>1. screen[d] \in Screen
    BY Types
  <2>2. QED
    BY <1>1, <1>2, <2>1 DEF Typed, Screen
<1>5. /\ me \in Names /\ CurrUser(d) \in User
      /\ userDatabase[d][me] = CurrUser(d) /\ CurrUser(d) # NoDoc
  <2>1. screen[d].at # "login"
    BY <1>2
  <2>2. QED
    BY <1>1, <1>3, <2>1, SessionFacts, SessionAssumption DEF CurrUser
<1>6. latest \in Sheet
  BY BookFacts, PageType
<1>7. latest[me] = CurrUser(d).balance /\ latest[who] = userDatabase[d][who].balance
  <2>1. \A n \in Names : userDatabase[d][n] # NoDoc =>
            latest[n] = userDatabase[d][n]["balance"]
    BY <1>3 DEF ListCurrent, PageOf, Fields
  <2>2. QED
    BY <1>2, <1>3, <1>5, <2>1
<1>8. latest[me] \in Int /\ latest[who] \in Int
  BY <1>2, <1>5, <1>6 DEF Sheet
<1>9. PICK debited, payee, object :
          /\ debited = [CurrUser(d) EXCEPT !.balance = @ - a]
          /\ payee = Credited(d)[who] /\ object = Invested(d)
  OBVIOUS
<1>10. debited.balance = latest[me] - a
  <2>1. debited = [CurrUser(d) EXCEPT !.balance = CurrUser(d).balance - a]
    BY <1>5, <1>9
  <2>2. QED
    BY <1>4, <1>5, <1>7, <1>8, <2>1, BalanceOnly
<1>11. /\ payee \in User /\ payee # NoDoc
       /\ payee.balance = (IF who = me THEN latest[me] - a ELSE latest[who]) + a
  <2>1. /\ payee \in User
        /\ payee.balance = (IF who = me THEN CurrUser(d).balance - a
                            ELSE userDatabase[d][who].balance) + a
    BY <1>1, <1>2, <1>3, <1>9, PayeeBalance
  <2>2. QED
    BY <1>7, <2>1, SessionAssumption
<1>12. /\ ws \in Seq(WritesOf(User)) /\ Len(ws) = IF invest THEN 3 ELSE 2
       /\ ws[1] = Update(me, {"balance"}, debited)
       /\ ws[2] = Update(who, {"balance"}, payee)
       /\ invest => ws[3] = Update(me, {"investmentBalance"}, object)
  <2>1. /\ ws \in Seq(WritesOf(User))
        /\ DOMAIN ws = IF invest THEN 1..3 ELSE 1..2
        /\ ws[1] = Update(me, {"balance"}, debited)
        /\ ws[2] = Update(who, {"balance"}, payee)
        /\ invest => ws[3] = Update(me, {"investmentBalance"}, object)
    BY <1>1, <1>2, <1>9, <1>11, PaymentWritesAre
  <2>2. Len(ws) = IF invest THEN 3 ELSE 2
    <3>1. DOMAIN ws = 1..Len(ws) /\ Len(ws) \in Nat
      BY <2>1
    <3>2. CASE invest
      BY <2>1, <3>1, <3>2
    <3>3. CASE ~invest
      BY <2>1, <3>1, <3>3
    <3>4. QED
      BY <3>2, <3>3
  <2>3. QED
    BY <2>1, <2>2
<1>13. \A n : /\ Touches(ws[1], n, "balance") <=> n = me
              /\ Touches(ws[2], n, "balance") <=> n = who
              /\ invest => ~Touches(ws[3], n, "balance")
  BY <1>12 DEF Touches, Update
<1>14. ws[1].value["balance"] = debited.balance /\ ws[2].value["balance"] = payee.balance
  BY <1>12 DEF Update, Patched
<1>15. PICK one, two : /\ one = [latest EXCEPT ![me] = latest[me] - a]
                       /\ two = [one EXCEPT ![who] = one[who] + a]
  OBVIOUS
<1>16. /\ one \in Sheet /\ two \in Sheet
       /\ \A n \in Names : one[n] = IF n = me THEN debited.balance ELSE latest[n]
       /\ \A n \in Names : two[n] = IF n = who THEN payee.balance ELSE one[n]
  <2>1. one \in Sheet /\ \A n \in Names : one[n] = IF n = me THEN debited.balance
                                                   ELSE latest[n]
    BY <1>4, <1>5, <1>6, <1>8, <1>10, <1>15 DEF Sheet
  <2>2. one[who] \in Int /\ one[who] + a = payee.balance
    BY <1>2, <1>4, <1>8, <1>10, <1>11, <2>1
  <2>3. two \in Sheet /\ \A n \in Names : two[n] = IF n = who THEN payee.balance
                                                   ELSE one[n]
    BY <1>2, <1>4, <1>15, <2>1, <2>2 DEF Sheet
  <2>4. QED
    BY <2>1, <2>3
<1>17. Len(ws) \in {2, 3} /\ (Len(ws) = 3 => invest)
  BY <1>4, <1>12
<1>18. PageOver(latest, SubSeq(ws, 1, 1)) = one
  <2>1. \A n \in Names : one[n] =
            IF Touches(ws[1], n, "balance") THEN ws[1].value["balance"] ELSE latest[n]
    BY <1>13, <1>14, <1>16
  <2>2. QED
    BY <1>6, <1>12, <1>16, <1>17, <2>1, PageOverFew
<1>19. PageOver(latest, SubSeq(ws, 1, 2)) = two
  <2>1. \A n \in Names : two[n] =
            IF Touches(ws[2], n, "balance") THEN ws[2].value["balance"]
            ELSE IF Touches(ws[1], n, "balance") THEN ws[1].value["balance"]
            ELSE latest[n]
    BY <1>13, <1>14, <1>16
  <2>2. QED
    BY <1>6, <1>12, <1>16, <1>17, <2>1, PageOverFew
<1>20. Len(ws) = 3 => PageOver(latest, SubSeq(ws, 1, 3)) = two
  <2>1. CASE Len(ws) = 3
    <3>1. PICK i \in 1..3 : i = 3
      OBVIOUS
    <3>2. invest /\ i <= Len(ws) /\ i >= 2
      BY <1>17, <2>1, <3>1
    <3>3. \A n \in Names : two[n] =
              IF i = 3 /\ Touches(ws[3], n, "balance") THEN ws[3].value["balance"]
              ELSE IF i >= 2 /\ Touches(ws[2], n, "balance")
              THEN ws[2].value["balance"]
              ELSE IF Touches(ws[1], n, "balance") THEN ws[1].value["balance"]
              ELSE latest[n]
      BY <1>13, <1>14, <1>16, <3>1, <3>2
    <3>4. ws \in Seq(WritesOf(User)) /\ two \in Sheet
      BY <1>12, <1>16
    <3>5. PageOver(latest, SubSeq(ws, 1, i)) = two
      BY <1>6, <3>2, <3>3, <3>4, PageOverFew
    <3>6. QED
      BY <3>1, <3>5
  <2>2. QED
    BY <2>1
<1>21. PICK pages : pages = <<one, two>>
  OBVIOUS
<1>22. PagesOver(latest, ws) \in {pages, Append(pages, pages[2])}
  <2>1. CASE Len(ws) = 2
    BY <1>18, <1>19, <1>21, <2>1 DEF PagesOver
  <2>2. CASE Len(ws) = 3
    BY <1>18, <1>19, <1>20, <1>21, <2>2 DEF PagesOver
  <2>3. QED
    BY <1>17, <2>1, <2>2
<1>23. Books!Payment(latest, me, who, a) = pages
  BY <1>15, <1>21 DEF Books!Payment, Books!Debit, Books!Credit
<1>24. Adds(Pages(d), Pages(d)', latest, PagesOver(latest, ws))
  <2>1. ws # <<>>
    BY <1>12, <1>17
  <2>2. QED
    BY <1>3, <1>12, <2>1, IssuePages
<1>25. QED
  BY <1>2, <1>4, <1>5, <1>22, <1>23, <1>24

--------------------------------------------------------------------------------
(* The books of the abstract specification are the pages of the phone.        *)

\* The phone whose books are kept.
LEMMA OnlyPhone ==
    ASSUME NEW d, Devices = {d}
    PROVE  ThePhone = d /\ d \in Devices
BY DEF ThePhone

\* The refinement mapping, before a step and after it.
LEMMA BooksArePages ==
    ASSUME NEW d, Devices = {d}
    PROVE  /\ [i \in 1..(Len(queue[ThePhone]) - durable[ThePhone] + 1) |->
                  Balances(durable[ThePhone] + i - 1)] = Pages(d)
           /\ [i \in 1..(Len(queue[ThePhone]) - durable[ThePhone] + 1) |->
                  Balances(durable[ThePhone] + i - 1)]' = Pages(d)'
<1>1. ThePhone = d
  BY OnlyPhone
<1>2. [i \in 1..(Len(queue[ThePhone]) - durable[ThePhone] + 1) |->
          Balances(durable[ThePhone] + i - 1)] = Pages(d)
  BY <1>1 DEF Balances, Source, Latest, Base, PageOf, BookOf, Pages
<1>3. [i \in 1..(Len(queue[ThePhone]) - durable[ThePhone] + 1) |->
          Balances(durable[ThePhone] + i - 1)]' = Pages(d)'
  BY <1>1 DEF Balances, Source, Latest, Base, PageOf, BookOf, Pages
<1>4. QED
  BY <1>2, <1>3

\* A page that says the same is an entry.
LEMMA SameEnters ==
    ASSUME NEW d, Devices = {d}, NEW latest,
           Adds(Pages(d), Pages(d)', latest, <<latest>>)
    PROVE  Books!Enter
BY BooksArePages DEF Adds, Books!Enter

\* So are the pages of a payment.
LEMMA PaymentEnters ==
    ASSUME NEW d, Devices = {d}, NEW latest,
           NEW payer \in Names, NEW payee \in Names, NEW a \in Amounts,
           NEW pages, pages = Books!Payment(latest, payer, payee, a),
           NEW added \in {pages, Append(pages, pages[2])},
           Adds(Pages(d), Pages(d)', latest, added)
    PROVE  Books!Enter
BY BooksArePages DEF Adds, Books!Enter

\* Every step of the one phone is a step of the books, or cannot be seen there.
LEMMA StepKeepsBooks ==
    ASSUME Patient, ~MayRefuse, Inv(User), AllBacked, AllCurrent,
           RecipientsAreFriends, NEW d, Devices = {d}, TakenShown(d), Typed(d),
           Step(d)
    PROVE  \/ Books!Next
           \/ Pages(d)' = Pages(d)
<1>1. d \in Devices /\ StoreBacked
  BY DEF AllBacked
<1>2. \A n \in Names, f \in Fields : Current(d, n, f)
  BY <1>1 DEF AllCurrent, PhoneCurrent, Solely
<1>3. /\ \A n \in Names, f \in Fields : StoreCurrent(d, n, f)
      /\ \A n \in Names, f \in Fields : ListCurrent(d, n, f)
  BY <1>2 DEF Current
<1>4. PICK latest : latest = PageOf(docs, queue[d])
  OBVIOUS
<1>5. CASE Persist(d)
  BY <1>1, <1>5, PersistPages, BooksArePages DEF Books!Next, Books!Save
<1>6. CASE Commit(d) \/ Ack(d)
  BY <1>1, <1>3, <1>6, CommitPages, AckPages
<1>7. CASE \/ Break(d) \/ Raise(d) \/ RaiseFromCache(d) \/ Looks \/ Deliver(d)
           \/ AskForUsers(d)
  <2>1. UNCHANGED <<docs, queue, durable>>
    BY <1>7 DEF Break, Raise, RaiseFromCache, Looks, storeVars, Deliver,
                AskForUsers
  <2>2. QED
    BY <1>1, <2>1, QuietPages
<1>8. CASE Restart(d, Persisted(d))
  BY <1>1, <1>8, KilledPages, BooksArePages DEF Books!Next, Books!Crash
<1>9. CASE \E n \in Newcomers[d], p \in Passwords : VeryfySignUp(d, n, p)
  <2>1. Adds(Pages(d), Pages(d)', latest, <<latest>>)
    BY <1>1, <1>4, <1>9, SignUpPages
  <2>2. QED
    BY <2>1, SameEnters DEF Books!Next
<1>10. CASE Changes(d)
  <2>1. Adds(Pages(d), Pages(d)', latest, <<latest>>)
    BY <1>1, <1>4, <1>10, ChangePages
  <2>2. QED
    BY <2>1, SameEnters DEF Books!Next
<1>11. CASE DidConfirmPay(d)
  <2>1. \E payer, payee \in Names, a \in Amounts :
            LET pages == Books!Payment(latest, payer, payee, a)
            IN \E added \in {pages, Append(pages, pages[2])} :
                   Adds(Pages(d), Pages(d)', latest, added)
    BY <1>1, <1>3, <1>4, <1>11, PaymentPages
  <2>2. QED
    BY <2>1, PaymentEnters DEF Books!Next
<1>12. QED
  BY <1>1, <1>5, <1>6, <1>7, <1>8, <1>9, <1>10, <1>11, StepKinds

\* A phone that starts has one page, what the server has, and nobody on its list;
\* whoever may sign up has no account yet, if reads may miss it.
LEMMA InitBooks ==
    ASSUME Init, NEW d, Devices = {d},
           MayBeOffline => \A n \in Newcomers[d] : InitialDocs[n] = NoDoc
    PROVE  Books!Init /\ TakenShown(d) /\ Typed(d)
<1>1. d \in Devices
  OBVIOUS
<1>2. PICK load : load = [behind |-> 0, ready |-> FALSE, view |-> EmptyView]
  OBVIOUS
<1>3. /\ docs = InitialDocs /\ queue[d] = <<>> /\ durable[d] = 0
      /\ loads[d] = <<load>> /\ ~loaded[d] /\ screen[d] = LoginScreen
  BY <1>1, <1>2 DEF Init, StoreInit, SessionInit
<1>4. Typed(d)
  BY <1>3 DEF Typed, LoginScreen
<1>5. TakenShown(d)
  <2>1. ~load.ready
    BY <1>2
  <2>2. ReadsComplete(d) /\ loads[d] # <<>>
    BY <1>3, <2>1 DEF ReadsComplete
  <2>3. CacheComplete(d)
    BY <1>3 DEF CacheComplete
  <2>4. QED
    BY <2>2, <2>3 DEF TakenShown
<1>6. PICK first : first = [n \in Names |-> IF InitialDocs[n] = NoDoc THEN 0
                                            ELSE InitialDocs[n].balance]
  OBVIOUS
<1>7. PageOf(docs, <<>>) = first
  <2>1. \A n : Latest(Base(docs, n, "balance"), <<>>, n, "balance")
               = Base(docs, n, "balance")
    <3>1. SubSeq(<<>>, 1, 0) = <<>>
      OBVIOUS
    <3>2. QED
      BY <3>1, LatestOfNone
  <2>2. \A n : Base(docs, n, "balance") = IF InitialDocs[n] = NoDoc THEN 0
                                         ELSE InitialDocs[n].balance
    BY <1>3 DEF Base, BlankUser
  <2>3. QED
    BY <1>6, <2>1, <2>2 DEF PageOf
<1>8. Pages(d) = <<first>>
  <2>1. SubSeq(<<>>, 1, 0) = <<>> /\ Len(<<>>) = 0
    OBVIOUS
  <2>2. Pages(d) = [i \in 1..1 |-> PageOf(docs, SubSeq(<<>>, 1, 0 + i - 1))]
    BY <1>3, <2>1 DEF Pages, BookOf
  <2>3. Pages(d) = [i \in 1..1 |-> first]
    <3>1. ASSUME NEW i \in 1..1
          PROVE  0 + i - 1 = 0
      OBVIOUS
    <3>2. \A i \in 1..1 : PageOf(docs, SubSeq(<<>>, 1, 0 + i - 1)) = first
      BY <1>7, <2>1, <3>1
    <3>3. QED
      BY <2>2, <3>2
  <2>4. QED
    BY <2>3
<1>9. Books!Init
  BY <1>6, <1>8, BooksArePages DEF Books!Init
<1>10. QED
  BY <1>4, <1>5, <1>9

--------------------------------------------------------------------------------
(* The theorem.                                                               *)

\* With one phone, the app keeps books, for any number of accounts, payments,
\* trades and writes on their way, whatever is lost and whenever the app is
\* killed: payments start from the latest balances and debit the payer first, a
\* write that is stored can only become final, a crash forgets the latest
\* entries, and of the server, its answers and the cache nothing is seen.
THEOREM BooksAreKept ==
    ASSUME Patient, ~MayRefuse, SelfContained(InitialDocs),
           NEW d, Devices = {d},
           MayBeOffline => \A n \in Newcomers[d] : InitialDocs[n] = NoDoc
    PROVE  Spec => KeepsBooks
<1>1. Spec => [](Inv(User) /\ RecipientsAreFriends /\ AllBacked)
  BY Backing
<1>2. Spec => [](Inv(User) /\ AllBacked /\ AllCurrent)
  BY Currency
<1>3. Init => Books!Init /\ TakenShown(d) /\ Typed(d)
  BY InitBooks
<1>4. Inv(User) /\ AllBacked /\ AllCurrent /\ RecipientsAreFriends /\ TakenShown(d)
      /\ Typed(d) /\ [Next]_vars => TakenShown(d)' /\ Typed(d)'
  <2> SUFFICES ASSUME Inv(User), AllBacked, AllCurrent, RecipientsAreFriends,
                      TakenShown(d), Typed(d), [Next]_vars
               PROVE  TakenShown(d)' /\ Typed(d)'
    OBVIOUS
  <2>1. CASE Step(d)
    BY <2>1, StepShown, TypedStays
  <2>2. CASE UNCHANGED vars
    <3>1. UNCHANGED <<docs, cache, queue, durable, loads, loaded, userDatabase,
                      screen>>
      BY <2>2 DEF vars, storeVars, appVars
    <3>2. TakenShown(d)'
      BY <3>1 DEF TakenShown, Complete, ReadsComplete, CacheComplete, Persisted
    <3>3. Typed(d)'
      BY <3>1 DEF Typed
    <3>4. QED
      BY <3>2, <3>3
  <2>3. QED
    BY <2>1, <2>2 DEF Next
<1>5. Inv(User) /\ AllBacked /\ AllCurrent /\ RecipientsAreFriends /\ TakenShown(d)
      /\ Typed(d) /\ [Next]_vars
      => [Books!Next]_[i \in 1..(Len(queue[ThePhone]) - durable[ThePhone] + 1) |->
                          Balances(durable[ThePhone] + i - 1)]
  <2> SUFFICES ASSUME Inv(User), AllBacked, AllCurrent, RecipientsAreFriends,
                      TakenShown(d), Typed(d), [Next]_vars
               PROVE  Books!Next \/ Pages(d)' = Pages(d)
    BY BooksArePages
  <2>1. CASE Step(d)
    BY <2>1, StepKeepsBooks
  <2>2. CASE UNCHANGED vars
    BY <2>2, QuietPages DEF vars, storeVars
  <2>3. QED
    BY <2>1, <2>2 DEF Next
<1>6. QED
  BY <1>1, <1>2, <1>3, <1>4, <1>5, PTL DEF Spec, KeepsBooks, Books!Spec

================================================================================
