---------------------------- MODULE HoneyJar_proofs ----------------------------
(******************************************************************************)
(* Invariants of the whole app, for any number of devices, names and symbols, *)
(* any amounts and queries, and any bound on taps and on the pipeline.        *)
(*                                                                            *)
(* The theorems of the first part share one induction.  A set U of users is   *)
(* Closed when no handler leads out of it, whichever mixture of stored,       *)
(* cached and local fields the handler acts on; then every copy of an account *)
(* there ever is stays in U.  All users, those with no fewer than no shares   *)
(* and those with distinct friends are three such sets.  The users with no    *)
(* less to invest than some floor are a fourth, but for the steps that take   *)
(* any amount off.  The second part, on who knows which account, goes on from *)
(* there.                                                                     *)
(******************************************************************************)
EXTENDS Promises, TLAPS, SequenceTheorems

\* Closed under what the SDK does to documents: a field may come from any copy.
Mixable(U) ==
    /\ U \subseteq User
    /\ BlankUser \in U
    /\ \A a, b, c, e, f, g \in U :
        [password |-> a.password, balance |-> b.balance,
         investmentBalance |-> c.investmentBalance, friends |-> e.friends,
         cards |-> f.cards, stock |-> g.stock] \in U

\* Closed under what the handlers do to a user, in one field or two, as long as
\* no amount and no price they use is negative where nothing checks it.
Closed(U) ==
    /\ Mixable(U)
    /\ \A u \in U :
        /\ \A p \in Passwords : [u EXCEPT !.password = p] \in U
        /\ \A a \in Int : [u EXCEPT !.balance = a] \in U
        /\ \A k \in Nat : [u EXCEPT !.investmentBalance = @ + k] \in U
        /\ \A c \in Cards : [u EXCEPT !.cards = Append(@, c)] \in U
        /\ \A n \in Names \cup {NoName} :
            n = NoName \/ n \notin Elements(u.friends) =>
                [u EXCEPT !.friends = Append(@, n)] \in U
        /\ \A s \in Symbols, q \in Int, p \in Int :
            /\ CanBuy(u, q, p) => Bought(u, s, q, p) \in U
            /\ CanSell(u, s, q) /\ p >= 0 => Sold(u, s, q, p) \in U

\* Closed under any change of the investment balance.
AnyMoney(U) == \A u \in U, m \in Int : [u EXCEPT !.investmentBalance = m] \in U

\* What a page in front has settled when it opened: a friend page that offers
\* to add shows nobody the user has as a friend, a stock page has its symbol.
PageSettled(d) ==
    /\ screen[d].at = "friend" /\ ~screen[d].known =>
        \/ screen[d].who = NoName
        \/ screen[d].who \notin Elements(CurrUser(d).friends)
    /\ screen[d].at = "stock" => screen[d].symbol \in Symbols

Inv(U) ==
    /\ Everywhere(U) /\ StoreCounters
    /\ SessionTypes /\ SessionHasUser
    /\ \A d \in Devices : PageSettled(d)

--------------------------------------------------------------------------------
(* Documents, writes and queues.                                              *)

\* A record of six fields taken from members of U is a member of U.
LEMMA MixedIn ==
    ASSUME NEW U, Mixable(U), NEW a \in U, NEW b \in U, NEW c \in U,
           NEW e \in U, NEW f \in U, NEW g \in U
    PROVE  [password |-> a.password, balance |-> b.balance,
            investmentBalance |-> c.investmentBalance, friends |-> e.friends,
            cards |-> f.cards, stock |-> g.stock] \in U
  BY DEF Mixable

\* An update of a member of U with fields of another is a member of U.
LEMMA PatchedIn ==
    ASSUME NEW U, Mixable(U), NEW u \in U, NEW v \in U, NEW fields
    PROVE  Patched(u, fields, v) \in U
<1> DEFINE From(f) == IF f \in fields THEN v ELSE u
<1>1. /\ From("password") \in U /\ From("balance") \in U
      /\ From("investmentBalance") \in U /\ From("friends") \in U
      /\ From("cards") \in U /\ From("stock") \in U
  OBVIOUS
<1>2. Patched(u, fields, v) =
        [password |-> From("password").password,
         balance |-> From("balance").balance,
         investmentBalance |-> From("investmentBalance").investmentBalance,
         friends |-> From("friends").friends,
         cards |-> From("cards").cards,
         stock |-> From("stock").stock]
  BY DEF Patched
<1> HIDE DEF From
<1>3. [password |-> From("password").password,
       balance |-> From("balance").balance,
       investmentBalance |-> From("investmentBalance").investmentBalance,
       friends |-> From("friends").friends,
       cards |-> From("cards").cards,
       stock |-> From("stock").stock] \in U
  BY <1>1, MixedIn
<1>4. QED
  BY <1>2, <1>3

\* What a query takes a field from is a user of U, and so is what it finds.
LEMMA OverlaidIn ==
    ASSUME NEW U, Mixable(U), NEW view \in ViewsOf(U),
           NEW ws \in Seq(WritesOf(U)), NEW n \in Names
    PROVE  /\ \A f : Source(view, ws, n, f) \in U
           /\ Overlaid(view, ws, n) \in U
<1>1. ASSUME NEW f
      PROVE  Source(view, ws, n, f) \in U
  <2>1. LastWrite(ws, n, f) = 0 \/ LastWrite(ws, n, f) \in DOMAIN ws
    BY DEF LastWrite
  <2>2. ASSUME NEW i \in DOMAIN ws
        PROVE  ws[i].value \in U
    <3>1. ws[i] \in WritesOf(U)
      OBVIOUS
    <3>2. QED
      BY <3>1 DEF WritesOf
  <2>3. QED
    BY <2>1, <2>2 DEF Source, Mixable, ViewsOf
<1>2. /\ Source(view, ws, n, "password") \in U
      /\ Source(view, ws, n, "balance") \in U
      /\ Source(view, ws, n, "investmentBalance") \in U
      /\ Source(view, ws, n, "friends") \in U
      /\ Source(view, ws, n, "cards") \in U
      /\ Source(view, ws, n, "stock") \in U
  BY <1>1
<1>3. Overlaid(view, ws, n) \in U
  BY <1>2, MixedIn DEF Overlaid
<1>4. QED
  BY <1>1, <1>3

\* The writes laid over documents of U give documents of U.
LEMMA OverlayIn ==
    ASSUME NEW U, Mixable(U), NEW view \in ViewsOf(U),
           NEW ws \in Seq(WritesOf(U))
    PROVE  Overlay(view, ws) \in ViewsOf(U)
  BY OverlaidIn DEF Overlay, ViewsOf

\* A write of a value of U applied to documents of U gives documents of U.
LEMMA AppliedIn ==
    ASSUME NEW U, Mixable(U), NEW view \in ViewsOf(U), NEW w \in WritesOf(U)
    PROVE  Applied(view, w) \in ViewsOf(U)
<1>1. w.value \in U /\ w.doc \in Names /\ w.set \in BOOLEAN
  BY DEF WritesOf
<1>2. CASE Accepts(view, w)
  <2>1. ~w.set => view[w.doc] \in U
    BY <1>1, <1>2 DEF Accepts, ViewsOf
  <2>2. ~w.set => Patched(view[w.doc], w.mask, w.value) \in U
    BY <1>1, <2>1, PatchedIn
  <2>3. QED
    BY <1>1, <1>2, <2>2 DEF Applied, ViewsOf
<1>3. CASE ~Accepts(view, w)
  BY <1>3 DEF Applied
<1>4. QED
  BY <1>2, <1>3

\* The writes the handlers make of users in U have values in U.
LEMMA WritesIn ==
    ASSUME NEW U, Mixable(U), NEW n \in Names, NEW u \in U
    PROVE  /\ Create(n, u) \in WritesOf(U)
           /\ \A fields \in SUBSET Fields : Update(n, fields, u) \in WritesOf(U)
<1>1. Create(n, u) \in WritesOf(U)
  BY DEF Create, WritesOf
<1>2. ASSUME NEW fields \in SUBSET Fields
      PROVE  Update(n, fields, u) \in WritesOf(U)
  <2>1. Patched(BlankUser, fields, u) \in U
    BY PatchedIn DEF Mixable
  <2>2. QED
    BY <2>1 DEF Update, WritesOf
<1>3. QED
  BY <1>1, <1>2

\* Before the first read there is no document: the empty view fits any U.
LEMMA EmptyViewIn ==
    ASSUME NEW U
    PROVE  EmptyView \in ViewsOf(U)
  BY DEF EmptyView, ViewsOf

\* The persisted writes are a prefix of the queue.
LEMMA PersistedIn ==
    ASSUME NEW U, StoreOver(U), StoreCounters, NEW d \in Devices
    PROVE  /\ Persisted(d) \in Seq(WritesOf(U))
           /\ queue[d] \in Seq(WritesOf(U))
           /\ durable[d] \in 0..Len(queue[d])
<1>1. queue[d] \in Seq(WritesOf(U)) /\ durable[d] \in 0..Len(queue[d])
  BY DEF StoreOver, StoreCounters
<1>2. SubSeq(queue[d], 1, durable[d]) \in Seq(WritesOf(U))
  BY <1>1
<1>3. QED
  BY <1>1, <1>2 DEF Persisted

--------------------------------------------------------------------------------
(* What the app asks of the store.                                            *)

\* Issuing writes of U keeps the store over U.
LEMMA IssueKeeps ==
    ASSUME NEW U, StoreOver(U), StoreCounters, NEW d \in Devices,
           NEW ws \in Seq(WritesOf(U)), Issue(d, ws)
    PROVE  StoreOver(U)' /\ StoreCounters'
<1>1. /\ queue \in [Devices -> Seq(WritesOf(U))]
      /\ queue' = [queue EXCEPT ![d] = queue[d] \o ws]
      /\ UNCHANGED <<docs, cache, durable, applied, covered, loads>>
  BY DEF StoreOver, Issue
<1>2. /\ queue[d] \o ws \in Seq(WritesOf(U))
      /\ Len(queue[d] \o ws) = Len(queue[d]) + Len(ws)
      /\ Len(ws) \in Nat /\ Len(queue[d]) \in Nat
  BY <1>1
<1>3. StoreOver(U)'
  BY <1>1, <1>2 DEF StoreOver
<1>4. ASSUME NEW e \in Devices
      PROVE  durable'[e] <= Len(queue'[e])
  BY <1>1, <1>2 DEF StoreCounters
<1>5. QED
  BY <1>1, <1>3, <1>4 DEF StoreCounters

\* Asking for the users adds a read that has no result yet.
LEMMA AskKeeps ==
    ASSUME NEW U, StoreOver(U), StoreCounters, NEW d \in Devices,
           AskForUsers(d)
    PROVE  StoreOver(U)' /\ StoreCounters'
<1>1. NewLoad(d) \in LoadsOf(U)
  <2>1. Len(queue[d]) - durable[d] \in Nat
    BY PersistedIn
  <2>2. QED
    BY <2>1, EmptyViewIn DEF NewLoad, LoadsOf
<1>2. /\ loads \in [Devices -> Seq(LoadsOf(U))]
      /\ loads' = [loads EXCEPT ![d] = Append(loads[d], NewLoad(d))]
      /\ UNCHANGED <<docs, cache, queue, durable, applied, covered>>
  BY DEF StoreOver, AskForUsers
<1>3. loads' \in [Devices -> Seq(LoadsOf(U))]
  BY <1>1, <1>2
<1>4. QED
  BY <1>2, <1>3 DEF StoreOver, StoreCounters

\* A restart keeps some of the writes, counts them as persisted, and reads.
LEMMA ReopenKeeps ==
    ASSUME NEW U, StoreOver(U), StoreCounters, NEW d \in Devices,
           NEW kept \in Seq(WritesOf(U)), Reopen(d, kept)
    PROVE  StoreOver(U)' /\ StoreCounters'
<1>1. /\ queue' = [queue EXCEPT ![d] = kept]
      /\ durable' = [durable EXCEPT ![d] = Len(kept)]
      /\ applied' = [applied EXCEPT ![d] = 0]
      /\ covered' = [covered EXCEPT ![d] = 0]
      /\ UNCHANGED <<docs, cache>>
      /\ Len(kept) \in Nat
  BY DEF Reopen
<1>2. loads' \in [Devices -> Seq(LoadsOf(U))]
  <2>1. [behind |-> 0, ready |-> FALSE, view |-> EmptyView] \in LoadsOf(U)
    BY EmptyViewIn DEF LoadsOf
  <2>2. <<[behind |-> 0, ready |-> FALSE, view |-> EmptyView]>>
        \in Seq(LoadsOf(U))
    BY <2>1
  <2>3. QED
    BY <2>2 DEF StoreOver, Reopen
<1>3. StoreOver(U)'
  BY <1>1, <1>2 DEF StoreOver
<1>4. StoreCounters'
  BY <1>1 DEF StoreCounters, StoreOver
<1>5. QED
  BY <1>3, <1>4

--------------------------------------------------------------------------------
(* The SDK's steps.                                                           *)

\* The SDK does not touch the app's variables, nor what depends on them alone.
LEMMA AppUntouched ==
    ASSUME NEW U, Inv(U), StoreOver(U)', StoreCounters', UNCHANGED appVars
    PROVE  Inv(U)'
<1>1. /\ UNCHANGED loaded /\ UNCHANGED userDatabase /\ UNCHANGED session
      /\ UNCHANGED own /\ UNCHANGED recipients /\ UNCHANGED screen
      /\ UNCHANGED taps
  BY DEF appVars
<1>2. \A d \in Devices : CurrUser(d)' = CurrUser(d)
  BY <1>1 DEF CurrUser
<1>3. SessionOver(U)' /\ SessionTypes'
  BY <1>1 DEF Inv, Everywhere, SessionOver, SessionTypes
<1>4. SessionHasUser'
  BY <1>1, <1>2 DEF Inv, SessionHasUser
<1>5. \A d \in Devices : PageSettled(d)'
  BY <1>1, <1>2 DEF Inv, PageSettled
<1>6. QED
  BY <1>3, <1>4, <1>5 DEF Inv, Everywhere

\* Storing a write keeps the store over U.
LEMMA PersistKeeps ==
    ASSUME NEW U, StoreOver(U), StoreCounters, NEW d \in Devices, Persist(d)
    PROVE  StoreOver(U)' /\ StoreCounters'
<1> DEFINE moved == [i \in DOMAIN loads[d] |-> MovedUp(loads[d][i])]
<1>1. /\ durable[d] < Len(queue[d])
      /\ durable' = [durable EXCEPT ![d] = durable[d] + 1]
      /\ loads' = [loads EXCEPT ![d] = moved]
      /\ UNCHANGED <<docs, cache, queue, applied, covered>>
  BY DEF Persist
<1>2. moved \in Seq(LoadsOf(U))
  <2>1. loads[d] \in Seq(LoadsOf(U))
    BY DEF StoreOver
  <2>2. ASSUME NEW i \in DOMAIN loads[d]
        PROVE  moved[i] \in LoadsOf(U)
    <3>1. loads[d][i] \in LoadsOf(U)
      BY <2>1
    <3>2. QED
      BY <3>1 DEF LoadsOf, MovedUp
  <2>3. DOMAIN loads[d] = 1..Len(loads[d]) /\ Len(loads[d]) \in Nat
    BY <2>1
  <2>4. moved \in [1..Len(loads[d]) -> LoadsOf(U)]
    BY <2>2, <2>3
  <2> HIDE DEF moved
  <2>5. QED
    BY <2>3, <2>4, SeqDef
<1> HIDE DEF moved
<1>3. StoreOver(U)'
  BY <1>1, <1>2 DEF StoreOver
<1>4. StoreCounters'
  <2>1. /\ durable[d] \in Nat /\ Len(queue[d]) \in Nat
        /\ durable[d] + 1 <= Len(queue[d]) /\ applied[d] <= durable[d] + 1
    BY <1>1, PersistedIn DEF StoreCounters
  <2>2. QED
    BY <1>1, <2>1 DEF StoreCounters
<1>5. QED
  BY <1>3, <1>4

\* A commit applies one write of U to documents of U.
LEMMA CommitKeeps ==
    ASSUME NEW U, Mixable(U), StoreOver(U), StoreCounters, NEW d \in Devices,
           Commit(d)
    PROVE  StoreOver(U)' /\ StoreCounters'
<1>1. /\ applied[d] < durable[d]
      /\ docs' = Applied(docs, queue[d][applied[d] + 1])
      /\ applied' = [applied EXCEPT ![d] = applied[d] + 1]
      /\ UNCHANGED <<cache, queue, durable, covered, loads>>
  BY DEF Commit
<1>2. applied[d] + 1 \in 1..Len(queue[d])
  BY <1>1, PersistedIn DEF StoreCounters
<1>3. docs' \in ViewsOf(U)
  <2>1. queue[d][applied[d] + 1] \in WritesOf(U)
    BY <1>2, PersistedIn
  <2>2. QED
    BY <1>1, <2>1, AppliedIn DEF StoreOver
<1>4. StoreOver(U)'
  BY <1>1, <1>3 DEF StoreOver
<1>5. StoreCounters'
  BY <1>1 DEF StoreCounters
<1>6. QED
  BY <1>4, <1>5

\* Dropping the head of a queue with a persisted write, as Ack and Reject do.
LEMMA TailKeeps ==
    ASSUME NEW U, StoreOver(U), StoreCounters, NEW d \in Devices,
           durable[d] > 0
    PROVE  /\ Head(queue[d]) \in WritesOf(U)
           /\ Tail(queue[d]) \in Seq(WritesOf(U))
           /\ Len(Tail(queue[d])) = Len(queue[d]) - 1
           /\ durable[d] - 1 \in 0..(Len(queue[d]) - 1)
           /\ Len(queue[d]) \in Nat
<1>1. durable[d] \in 1..Len(queue[d]) /\ queue[d] \in Seq(WritesOf(U))
  BY PersistedIn
<1>2. queue[d] # <<>> /\ Len(queue[d]) \in Nat
  BY <1>1
<1>3. QED
  BY <1>1, <1>2

\* An acknowledgement moves a write of U from the queue to the cache.
LEMMA AckKeeps ==
    ASSUME NEW U, Mixable(U), StoreOver(U), StoreCounters, NEW d \in Devices,
           Ack(d)
    PROVE  StoreOver(U)' /\ StoreCounters'
<1>1. /\ applied[d] > 0
      /\ cache' = [cache EXCEPT ![d] = IF covered[d] > 0 THEN cache[d]
                                 ELSE Applied(cache[d], Head(queue[d]))]
      /\ queue' = [queue EXCEPT ![d] = Tail(queue[d])]
      /\ durable' = [durable EXCEPT ![d] = durable[d] - 1]
      /\ applied' = [applied EXCEPT ![d] = applied[d] - 1]
      /\ covered' = [covered EXCEPT ![d] = IF covered[d] > 0
                                     THEN covered[d] - 1 ELSE covered[d]]
      /\ UNCHANGED <<docs, loads>>
  BY DEF Ack
<1>2. durable[d] > 0
  BY <1>1 DEF StoreCounters
<1>3. cache' \in [Devices -> ViewsOf(U)]
  <2>1. cache[d] \in ViewsOf(U)
    BY DEF StoreOver
  <2>2. Applied(cache[d], Head(queue[d])) \in ViewsOf(U)
    BY <1>2, <2>1, TailKeeps, AppliedIn
  <2>3. QED
    BY <1>1, <2>1, <2>2 DEF StoreOver
<1>4. StoreOver(U)'
  BY <1>1, <1>2, <1>3, TailKeeps DEF StoreOver
<1>5. /\ Len(Tail(queue[d])) = Len(queue[d]) - 1 /\ Len(queue[d]) \in Nat
      /\ queue \in [Devices -> Seq(WritesOf(U))]
  BY <1>2, TailKeeps DEF StoreOver
<1>6. /\ durable' \in [Devices -> Nat] /\ applied' \in [Devices -> Nat]
      /\ covered' \in [Devices -> Nat]
  BY <1>1, <1>2 DEF StoreCounters
<1>7. ASSUME NEW e \in Devices
      PROVE  /\ covered'[e] <= applied'[e]
             /\ applied'[e] <= durable'[e]
             /\ durable'[e] <= Len(queue'[e])
  BY <1>1, <1>5 DEF StoreCounters
<1>8. QED
  BY <1>4, <1>6, <1>7 DEF StoreCounters

\* A rejection only shortens the queue.
LEMMA RejectKeeps ==
    ASSUME NEW U, StoreOver(U), StoreCounters, NEW d \in Devices, Reject(d)
    PROVE  StoreOver(U)' /\ StoreCounters'
<1>1. /\ applied[d] = 0 /\ durable[d] > 0
      /\ queue' = [queue EXCEPT ![d] = Tail(queue[d])]
      /\ durable' = [durable EXCEPT ![d] = durable[d] - 1]
      /\ UNCHANGED <<docs, cache, applied, covered, loads>>
  BY DEF Reject
<1>2. StoreOver(U)'
  BY <1>1, TailKeeps DEF StoreOver
<1>3. /\ Len(Tail(queue[d])) = Len(queue[d]) - 1 /\ Len(queue[d]) \in Nat
      /\ queue \in [Devices -> Seq(WritesOf(U))]
  BY <1>1, TailKeeps DEF StoreOver
<1>4. QED
  BY <1>1, <1>2, <1>3 DEF StoreCounters

\* A break only forgets which writes were committed.
LEMMA BreakKeeps ==
    ASSUME NEW U, StoreOver(U), StoreCounters, NEW d \in Devices, Break(d)
    PROVE  StoreOver(U)' /\ StoreCounters'
<1>1. StoreOver(U)'
  BY DEF Break, StoreOver
<1>2. StoreCounters'
  BY DEF Break, StoreCounters
<1>3. QED
  BY <1>1, <1>2

\* An answer to a read has documents of U if those it is made from are of U.
LEMMA AnsweredKeeps ==
    ASSUME NEW U, Mixable(U), StoreOver(U), StoreCounters, NEW d \in Devices,
           NEW i \in DOMAIN loads[d], NEW view \in ViewsOf(U),
           Answered(d, i, view)
    PROVE  loads' \in [Devices -> Seq(LoadsOf(U))]
<1> DEFINE answer == Overlay(view, Persisted(d))
<1>1. answer \in ViewsOf(U)
  BY PersistedIn, OverlayIn
<1>2. /\ loads \in [Devices -> Seq(LoadsOf(U))]
      /\ loads' = [loads EXCEPT ![d][i].ready = TRUE, ![d][i].view = answer]
  BY DEF Answered, StoreOver
<1> HIDE DEF answer
<1>3. loads[d] \in Seq(LoadsOf(U)) /\ loads[d][i] \in LoadsOf(U)
  BY <1>2
<1> DEFINE load == [loads[d][i] EXCEPT !.ready = TRUE, !.view = answer]
<1>4. load \in LoadsOf(U)
  BY <1>1, <1>3 DEF LoadsOf
<1>5. loads' = [loads EXCEPT ![d] = [loads[d] EXCEPT ![i] = load]]
  BY <1>2, <1>3
<1> HIDE DEF load
<1>6. [loads[d] EXCEPT ![i] = load] \in Seq(LoadsOf(U))
  BY <1>3, <1>4
<1>7. QED
  BY <1>2, <1>5, <1>6

\* A read answered by the server refreshes the cache with documents of U.
LEMMA RaiseKeeps ==
    ASSUME NEW U, Mixable(U), StoreOver(U), StoreCounters, NEW d \in Devices,
           Raise(d)
    PROVE  StoreOver(U)' /\ StoreCounters'
<1>1. /\ cache' = [cache EXCEPT ![d] = docs]
      /\ covered' = [covered EXCEPT ![d] = applied[d]]
      /\ UNCHANGED <<docs, queue, durable, applied>>
  BY DEF Raise
<1>2. loads' \in [Devices -> Seq(LoadsOf(U))]
  <2>1. PICK i \in DOMAIN loads[d] : Answered(d, i, docs)
    BY DEF Raise
  <2>2. docs \in ViewsOf(U)
    BY DEF StoreOver
  <2>3. QED
    BY <2>1, <2>2, AnsweredKeeps
<1>3. StoreOver(U)'
  BY <1>1, <1>2 DEF StoreOver
<1>4. StoreCounters'
  BY <1>1 DEF StoreCounters
<1>5. QED
  BY <1>3, <1>4

\* So does one answered from the cache, which stays as it is.
LEMMA RaiseFromCacheKeeps ==
    ASSUME NEW U, Mixable(U), StoreOver(U), StoreCounters, NEW d \in Devices,
           RaiseFromCache(d)
    PROVE  StoreOver(U)' /\ StoreCounters'
<1>1. PICK i \in DOMAIN loads[d] : Answered(d, i, cache[d])
  BY DEF RaiseFromCache
<1>2. cache[d] \in ViewsOf(U)
  BY DEF StoreOver
<1>3. loads' \in [Devices -> Seq(LoadsOf(U))]
  BY <1>1, <1>2, AnsweredKeeps
<1>4. UNCHANGED <<docs, cache, queue, durable, applied, covered>>
  BY DEF RaiseFromCache
<1>5. QED
  BY <1>3, <1>4 DEF StoreOver, StoreCounters

\* Every step of the SDK keeps the invariant.
LEMMA BackgroundKeeps ==
    ASSUME NEW U, Mixable(U), Inv(U), NEW d \in Devices, InBackground(d)
    PROVE  Inv(U)'
<1>1. StoreOver(U) /\ StoreCounters
  BY DEF Inv, Everywhere
<1>2. UNCHANGED appVars
  BY DEF InBackground
<1>3. StoreOver(U)' /\ StoreCounters'
  <2>1. CASE Persist(d)
    BY <1>1, <2>1, PersistKeeps
  <2>2. CASE Commit(d)
    BY <1>1, <2>2, CommitKeeps
  <2>3. CASE Ack(d)
    BY <1>1, <2>3, AckKeeps
  <2>4. CASE Reject(d)
    BY <1>1, <2>4, RejectKeeps
  <2>5. CASE Break(d)
    BY <1>1, <2>5, BreakKeeps
  <2>6. CASE Raise(d)
    BY <1>1, <2>6, RaiseKeeps
  <2>7. CASE RaiseFromCache(d)
    BY <1>1, <2>7, RaiseFromCacheKeeps
  <2>8. QED
    BY <2>1, <2>2, <2>3, <2>4, <2>5, <2>6, <2>7 DEF InBackground
<1>4. QED
  BY <1>2, <1>3, AppUntouched

--------------------------------------------------------------------------------
(* What any handler has to show.                                              *)

\* Behind the login screen there is a user, and it is one of U.
LEMMA CurrUserIn ==
    ASSUME NEW U, Mixable(U), Inv(U), NEW d \in Devices,
           screen[d].at # "login"
    PROVE  /\ session[d] \in Names
           /\ CurrUser(d) \in U
           /\ own[d] = NoDoc => userDatabase[d][session[d]] = CurrUser(d)
           /\ own[d] # NoDoc => own[d] = CurrUser(d) /\ own[d] \in U
<1>1. session[d] \in Names /\ CurrUser(d) # NoDoc
  BY DEF Inv, SessionHasUser, SessionTypes
<1>2. userDatabase[d] \in ViewsOf(U) /\ own[d] \in U \cup {NoDoc}
  BY DEF Inv, Everywhere, SessionOver
<1>3. QED
  BY <1>1, <1>2 DEF CurrUser, ViewsOf

\* A handler of d replaces d's part of the session state; if the parts are of
\* U and go together, and the store is in order, the invariant is kept.
LEMMA HandlerKeeps ==
    ASSUME NEW U, Mixable(U), Inv(U), NEW d \in Devices,
           NEW view \in ViewsOf(U), NEW object \in U \cup {NoDoc},
           NEW n \in Names \cup {NoName}, NEW s \in Screen,
           userDatabase' = [userDatabase EXCEPT ![d] = view],
           own' = [own EXCEPT ![d] = object],
           session' = [session EXCEPT ![d] = n],
           screen' = [screen EXCEPT ![d] = s],
           loaded' \in [Devices -> BOOLEAN],
           recipients' \in [Devices -> Seq(Names \cup {NoName})],
           taps' \in [Devices -> Nat],
           StoreOver(U)', StoreCounters',
           s.at = "login" <=> n = NoName,
           n = NoName => object = NoDoc,
           n # NoName => object # NoDoc \/ view[n] # NoDoc,
           PageSettled(d)'
    PROVE  Inv(U)'
<1>1. SessionOver(U)' /\ SessionTypes'
  BY DEF Inv, Everywhere, SessionOver, SessionTypes
<1>2. /\ userDatabase'[d] = view /\ own'[d] = object
      /\ session'[d] = n /\ screen'[d] = s
  BY DEF Inv, Everywhere, SessionOver, SessionTypes
<1>3. ASSUME NEW e \in Devices \ {d}
      PROVE  /\ CurrUser(e)' = CurrUser(e)
             /\ own'[e] = own[e]
             /\ session'[e] = session[e] /\ screen'[e] = screen[e]
  BY DEF CurrUser, Inv, Everywhere, SessionOver, SessionTypes
<1>4. SessionHasUser'
  <2>1. ASSUME NEW e \in Devices
        PROVE  /\ (screen'[e].at = "login") <=> (session'[e] = NoName)
               /\ session'[e] # NoName => CurrUser(e)' # NoDoc
               /\ session'[e] = NoName => own'[e] = NoDoc
    <3>1. CASE e = d
      BY <1>2, <3>1 DEF CurrUser
    <3>2. CASE e # d
      BY <1>3, <3>2 DEF Inv, SessionHasUser
    <3>3. QED
      BY <3>1, <3>2
  <2>2. QED
    BY <2>1 DEF SessionHasUser
<1>5. ASSUME NEW e \in Devices
      PROVE  PageSettled(e)'
  <2>1. CASE e # d
    <3>1. PageSettled(e)
      BY DEF Inv
    <3>2. QED
      BY <1>3, <2>1, <3>1 DEF PageSettled
  <2>2. QED
    BY <2>1
<1>6. QED
  BY <1>1, <1>4, <1>5 DEF Inv, Everywhere

\* A handler that calls nothing of the store leaves it in order.
LEMMA StoreUntouched ==
    ASSUME NEW U, StoreOver(U), StoreCounters, UNCHANGED storeVars
    PROVE  StoreOver(U)' /\ StoreCounters'
<1>1. /\ UNCHANGED docs /\ UNCHANGED cache /\ UNCHANGED queue
      /\ UNCHANGED durable /\ UNCHANGED applied /\ UNCHANGED covered
      /\ UNCHANGED loads
  BY DEF storeVars
<1>2. QED
  BY <1>1 DEF StoreOver, StoreCounters

\* The first screen, and the tab bar with the names a search found.
LEMMA ScreenTypes ==
    ASSUME NEW found \in SUBSET Names
    PROVE  /\ LoginScreen \in Screen
           /\ LoginScreen.at = "login"
           /\ Tabs(found) \in Screen
           /\ Tabs(found).at = "tabs"
<1>1. 0 \in Int
  OBVIOUS
<1>2. QED
  BY <1>1 DEF LoginScreen, Tabs, Screen, Screens

\* A handler that only turns to another page behind the login screen.
LEMMA LookKeeps ==
    ASSUME NEW U, Mixable(U), Inv(U), NEW d \in Devices, NEW s \in Screen,
           screen[d].at # "login", s.at # "login", Show(d, s),
           UNCHANGED <<storeVars, loaded, userDatabase, session, own,
                       recipients, taps>>,
           s.at = "friend" /\ ~s.known =>
               s.who = NoName \/ s.who \notin Elements(CurrUser(d).friends),
           s.at = "stock" => s.symbol \in Symbols
    PROVE  Inv(U)'
<1>1. StoreOver(U)' /\ StoreCounters'
  BY StoreUntouched DEF Inv, Everywhere
<1>2. /\ userDatabase' = [userDatabase EXCEPT ![d] = userDatabase[d]]
      /\ own' = [own EXCEPT ![d] = own[d]]
      /\ session' = [session EXCEPT ![d] = session[d]]
      /\ screen' = [screen EXCEPT ![d] = s]
      /\ userDatabase[d] \in ViewsOf(U) /\ own[d] \in U \cup {NoDoc}
      /\ session[d] \in Names \cup {NoName}
  BY DEF Show, Inv, Everywhere, SessionOver, SessionTypes
<1>3. /\ loaded' \in [Devices -> BOOLEAN]
      /\ recipients' \in [Devices -> Seq(Names \cup {NoName})]
      /\ taps' \in [Devices -> Nat]
  BY DEF Inv, SessionTypes
<1>4. /\ session[d] # NoName
      /\ own[d] # NoDoc \/ userDatabase[d][session[d]] # NoDoc
  BY DEF Inv, SessionHasUser, CurrUser
<1>5. PageSettled(d)'
  <2>1. CurrUser(d)' = CurrUser(d) /\ screen'[d] = s
    BY <1>2 DEF CurrUser, Inv, SessionTypes
  <2>2. QED
    BY <2>1 DEF PageSettled
<1>6. QED
  BY <1>1, <1>2, <1>3, <1>4, <1>5, HandlerKeeps

\* A restart with writes of U in the queue.
LEMMA RestartKeeps ==
    ASSUME NEW U, Mixable(U), Inv(U), NEW d \in Devices,
           NEW kept \in Seq(WritesOf(U)), Restart(d, kept),
           taps' \in [Devices -> Nat]
    PROVE  Inv(U)'
<1>1. StoreOver(U)' /\ StoreCounters'
  BY ReopenKeeps DEF Restart, Inv, Everywhere
<1>2. /\ userDatabase' = [userDatabase EXCEPT ![d] = EmptyView]
      /\ own' = [own EXCEPT ![d] = NoDoc]
      /\ session' = [session EXCEPT ![d] = NoName]
      /\ screen' = [screen EXCEPT ![d] = LoginScreen]
  BY DEF Restart, Show
<1>3. EmptyView \in ViewsOf(U) /\ LoginScreen \in Screen
  BY EmptyViewIn, ScreenTypes
<1>4. /\ loaded' \in [Devices -> BOOLEAN]
      /\ recipients' \in [Devices -> Seq(Names \cup {NoName})]
  BY DEF Restart, Inv, SessionTypes
<1>5. LoginScreen.at = "login"
  BY DEF LoginScreen
<1>6. PageSettled(d)'
  <2>1. screen'[d].at = "login"
    BY <1>2, <1>5 DEF Inv, SessionTypes
  <2>2. QED
    BY <2>1 DEF PageSettled
<1>7. QED
  BY <1>1, <1>2, <1>3, <1>4, <1>5, <1>6, HandlerKeeps

\* A handler that changes currUser within U, issues writes of U, and stays on
\* a page that has nothing to offer or already knows.
LEMMA ChangeKeeps ==
    ASSUME NEW U, Mixable(U), Inv(U), NEW d \in Devices, NEW u \in U,
           NEW ws \in Seq(WritesOf(U)), NEW s \in Screen,
           screen[d].at # "login", s.at # "login",
           ChangeCurrUser(d, u), Issue(d, ws), Tap(d), Show(d, s),
           UNCHANGED loaded, UNCHANGED session,
           recipients' \in [Devices -> Seq(Names \cup {NoName})],
           s.at = "friend" => s.known,
           s.at = "stock" => s.symbol \in Symbols
    PROVE  Inv(U)'
<1>1. StoreOver(U)' /\ StoreCounters'
  BY IssueKeeps DEF Inv, Everywhere
<1>2. /\ userDatabase \in [Devices -> ViewsOf(U)]
      /\ own \in [Devices -> U \cup {NoDoc}]
      /\ session \in [Devices -> Names \cup {NoName}]
      /\ screen \in [Devices -> Screen] /\ taps \in [Devices -> Nat]
      /\ loaded \in [Devices -> BOOLEAN]
  BY DEF Inv, Everywhere, SessionOver, SessionTypes
<1>3. session[d] \in Names /\ session[d] # NoName /\ u # NoDoc
  BY CurrUserIn, SessionAssumption DEF Mixable
<1> DEFINE view == IF own[d] = NoDoc
                   THEN [userDatabase[d] EXCEPT ![session[d]] = u]
                   ELSE userDatabase[d]
           object == IF own[d] = NoDoc THEN NoDoc ELSE u
<1>4. /\ userDatabase' = [userDatabase EXCEPT ![d] = view]
      /\ own' = [own EXCEPT ![d] = object]
      /\ session' = [session EXCEPT ![d] = session[d]]
      /\ screen' = [screen EXCEPT ![d] = s]
      /\ taps' \in [Devices -> Nat] /\ loaded' \in [Devices -> BOOLEAN]
  BY <1>2 DEF ChangeCurrUser, Show, Tap
<1>5. /\ view \in ViewsOf(U) /\ object \in U \cup {NoDoc}
      /\ object # NoDoc \/ view[session[d]] # NoDoc
  BY <1>2, <1>3 DEF ViewsOf
<1>6. PageSettled(d)'
  <2>1. screen'[d] = s
    BY <1>2 DEF Show
  <2>2. QED
    BY <2>1 DEF PageSettled
<1> HIDE DEF view, object
<1>7. QED
  BY <1>1, <1>2, <1>3, <1>4, <1>5, <1>6, HandlerKeeps

--------------------------------------------------------------------------------
(* The handlers of Session.                                                   *)

\* A delivered read replaces the array of users, and the session keeps the
\* object it had.
LEMMA DeliverKeeps ==
    ASSUME NEW U, Mixable(U), Inv(U), NEW d \in Devices, Deliver(d)
    PROVE  Inv(U)'
<1> DEFINE view == Head(loads[d]).view
           object == IF session[d] = NoName THEN NoDoc ELSE CurrUser(d)
<1>1. /\ loads[d] \in Seq(LoadsOf(U)) /\ loads[d] # <<>>
      /\ loads' = [loads EXCEPT ![d] = Tail(loads[d])]
      /\ UNCHANGED <<docs, cache, queue, durable, applied, covered>>
  BY DEF Deliver, Inv, Everywhere, StoreOver
<1>2. Head(loads[d]) \in LoadsOf(U) /\ Tail(loads[d]) \in Seq(LoadsOf(U))
  BY <1>1
<1>3. StoreOver(U)' /\ StoreCounters'
  <2>1. loads' \in [Devices -> Seq(LoadsOf(U))]
    BY <1>1, <1>2 DEF Inv, Everywhere, StoreOver
  <2>2. QED
    BY <1>1, <2>1 DEF Inv, Everywhere, StoreOver, StoreCounters
<1>4. view \in ViewsOf(U)
  BY <1>2 DEF LoadsOf
<1>5. /\ session[d] \in Names \cup {NoName} /\ screen[d] \in Screen
      /\ (screen[d].at = "login") <=> (session[d] = NoName)
      /\ object \in U \cup {NoDoc}
      /\ session[d] # NoName => object = CurrUser(d) /\ object # NoDoc
      /\ session[d] = NoName => object = NoDoc
  BY CurrUserIn DEF Inv, SessionTypes, SessionHasUser
<1>6. /\ userDatabase' = [userDatabase EXCEPT ![d] = view]
      /\ own' = [own EXCEPT ![d] = object]
      /\ session' = [session EXCEPT ![d] = session[d]]
      /\ screen' = [screen EXCEPT ![d] = screen[d]]
      /\ loaded' \in [Devices -> BOOLEAN]
      /\ recipients' \in [Devices -> Seq(Names \cup {NoName})]
      /\ taps' \in [Devices -> Nat]
      /\ own'[d] = object /\ screen' = screen /\ session' = session
  BY DEF Deliver, Inv, Everywhere, SessionOver, SessionTypes
<1> HIDE DEF view, object
<1>7. PageSettled(d)'
  <2>1. CASE session[d] = NoName
    BY <1>5, <1>6, <2>1 DEF PageSettled
  <2>2. CASE session[d] # NoName
    <3>1. CurrUser(d)' = CurrUser(d)
      BY <1>5, <1>6, <2>2 DEF CurrUser
    <3>2. PageSettled(d)
      BY DEF Inv
    <3>3. QED
      BY <1>6, <3>1, <3>2 DEF PageSettled
  <2>3. QED
    BY <2>1, <2>2
<1>8. QED
  BY <1>3, <1>4, <1>5, <1>6, <1>7, HandlerKeeps

\* A read that fails is forgotten.
LEMMA LoadFailsKeeps ==
    ASSUME NEW U, Mixable(U), Inv(U), NEW d \in Devices, LoadFails(d)
    PROVE  Inv(U)'
<1>1. /\ loads[d] \in Seq(LoadsOf(U)) /\ loads[d] # <<>>
      /\ loads' = [loads EXCEPT ![d] = Tail(loads[d])]
      /\ UNCHANGED <<docs, cache, queue, durable, applied, covered>>
      /\ UNCHANGED appVars
  BY DEF LoadFails, Inv, Everywhere, StoreOver
<1>2. loads' \in [Devices -> Seq(LoadsOf(U))]
  <2>1. Tail(loads[d]) \in Seq(LoadsOf(U))
    BY <1>1
  <2>2. QED
    BY <1>1, <2>1 DEF Inv, Everywhere, StoreOver
<1>3. StoreOver(U)' /\ StoreCounters'
  BY <1>1, <1>2 DEF Inv, Everywhere, StoreOver, StoreCounters
<1>4. QED
  BY <1>1, <1>3, AppUntouched

\* A login makes an element of userDatabase the session's user.
LEMMA DidTapLoginKeeps ==
    ASSUME NEW U, Mixable(U), Inv(U), NEW d \in Devices, NEW n \in Users[d],
           NEW password, DidTapLogin(d, n, password)
    PROVE  Inv(U)'
<1>1. n \in Names /\ n # NoName
  BY SessionAssumption
<1>2. /\ userDatabase[d] \in ViewsOf(U) /\ userDatabase[d][n] # NoDoc
      /\ userDatabase[d][n] \in U
  BY <1>1 DEF DidTapLogin, Inv, Everywhere, SessionOver, ViewsOf
<1>3. userDatabase[d][n].friends \in Seq(Names \cup {NoName})
  BY <1>2 DEF Mixable, User
<1>4. StoreOver(U)' /\ StoreCounters'
  BY StoreUntouched DEF DidTapLogin, Inv, Everywhere
<1>5. Tabs({}) \in Screen /\ Tabs({}).at = "tabs"
  BY ScreenTypes
<1>6. /\ userDatabase' = [userDatabase EXCEPT ![d] = userDatabase[d]]
      /\ own' = [own EXCEPT ![d] = own[d]] /\ own[d] \in U \cup {NoDoc}
      /\ session' = [session EXCEPT ![d] = n]
      /\ screen' = [screen EXCEPT ![d] = Tabs({})]
      /\ loaded' \in [Devices -> BOOLEAN]
      /\ recipients' \in [Devices -> Seq(Names \cup {NoName})]
      /\ taps' \in [Devices -> Nat]
  BY <1>3 DEF DidTapLogin, Show, Inv, Everywhere, SessionOver, SessionTypes
<1>7. PageSettled(d)'
  <2>1. screen'[d].at = "tabs"
    BY <1>5, <1>6 DEF Inv, SessionTypes
  <2>2. QED
    BY <2>1 DEF PageSettled
<1>8. QED
  BY <1>1, <1>2, <1>4, <1>5, <1>6, <1>7, HandlerKeeps

\* A sign-up adds a user of U to userDatabase and issues its creation.
LEMMA VeryfySignUpKeeps ==
    ASSUME NEW U, Closed(U), Inv(U), NEW d \in Devices,
           NEW n \in Newcomers[d], NEW password \in Passwords,
           VeryfySignUp(d, n, password)
    PROVE  Inv(U)'
<1> DEFINE newUser == [BlankUser EXCEPT !.password = password]
           view == [userDatabase[d] EXCEPT ![n] = newUser]
<1>1. n \in Names /\ newUser \in U /\ Mixable(U)
  BY SessionAssumption DEF Closed, Mixable
<1> HIDE DEF newUser
<1>2. /\ Issue(d, <<Create(n, newUser)>>)
      /\ userDatabase' = [userDatabase EXCEPT ![d][n] = newUser]
      /\ screen[d].at = "login" /\ Tap(d)
      /\ UNCHANGED <<loaded, session, own, recipients, screen>>
  BY DEF VeryfySignUp, Ready, newUser
<1>3. StoreOver(U)' /\ StoreCounters'
  <2>1. <<Create(n, newUser)>> \in Seq(WritesOf(U))
    BY <1>1, WritesIn
  <2>2. QED
    BY <1>2, <2>1, IssueKeeps DEF Inv, Everywhere
<1>4. userDatabase[d] \in ViewsOf(U) /\ view \in ViewsOf(U)
  BY <1>1 DEF ViewsOf, Inv, Everywhere, SessionOver
<1>5. session[d] = NoName /\ own[d] = NoDoc
  BY <1>2 DEF Inv, SessionHasUser
<1>6. /\ userDatabase' = [userDatabase EXCEPT ![d] = view]
      /\ own' = [own EXCEPT ![d] = NoDoc]
      /\ session' = [session EXCEPT ![d] = NoName]
      /\ screen' = [screen EXCEPT ![d] = screen[d]] /\ screen[d] \in Screen
      /\ loaded' \in [Devices -> BOOLEAN]
      /\ recipients' \in [Devices -> Seq(Names \cup {NoName})]
      /\ taps' \in [Devices -> Nat]
  BY <1>2, <1>5 DEF Tap, Inv, Everywhere, SessionOver, SessionTypes
<1>7. PageSettled(d)'
  BY <1>2 DEF PageSettled
<1> HIDE DEF view
<1>8. QED
  BY <1>1, <1>2, <1>3, <1>4, <1>6, <1>7, HandlerKeeps

\* A logout drops the session and asks for the users again.
LEMMA DidTapLogoutKeeps ==
    ASSUME NEW U, Mixable(U), Inv(U), NEW d \in Devices, DidTapLogout(d)
    PROVE  Inv(U)'
<1>1. StoreOver(U)' /\ StoreCounters'
  BY AskKeeps DEF DidTapLogout, Inv, Everywhere
<1>2. LoginScreen \in Screen /\ LoginScreen.at = "login"
  BY ScreenTypes
<1>3. /\ userDatabase' = [userDatabase EXCEPT ![d] = userDatabase[d]]
      /\ userDatabase[d] \in ViewsOf(U)
      /\ own' = [own EXCEPT ![d] = NoDoc]
      /\ session' = [session EXCEPT ![d] = NoName]
      /\ screen' = [screen EXCEPT ![d] = LoginScreen]
      /\ loaded' \in [Devices -> BOOLEAN]
      /\ recipients' \in [Devices -> Seq(Names \cup {NoName})]
      /\ taps' \in [Devices -> Nat]
  BY DEF DidTapLogout, Show, Tap, Inv, Everywhere, SessionOver, SessionTypes
<1>4. PageSettled(d)'
  <2>1. screen'[d].at = "login"
    BY <1>2, <1>3 DEF Inv, SessionTypes
  <2>2. QED
    BY <2>1 DEF PageSettled
<1>5. QED
  BY <1>1, <1>2, <1>3, <1>4, HandlerKeeps

\* Every step of Session keeps the invariant.
LEMMA SessionStepKeeps ==
    ASSUME NEW U, Closed(U), Inv(U), NEW d \in Devices, SessionStep(d)
    PROVE  Inv(U)'
<1>1. /\ Mixable(U) /\ Persisted(d) \in Seq(WritesOf(U))
      /\ screen[d] \in Screen /\ screen[d].found \in SUBSET Names
  BY PersistedIn DEF Closed, Inv, Everywhere, SessionTypes, Screen
<1>2. CASE Deliver(d)
  BY <1>1, <1>2, DeliverKeeps
<1>3. CASE LoadFails(d)
  BY <1>1, <1>3, LoadFailsKeeps
<1>4. CASE \E n \in Users[d], p \in Passwords : DidTapLogin(d, n, p)
  BY <1>1, <1>4, DidTapLoginKeeps
<1>5. CASE DidTapTooEarly(d)
  <2>1. taps' \in [Devices -> Nat]
    BY <1>5 DEF DidTapTooEarly, Tap, Inv, SessionTypes
  <2>2. QED
    BY <1>1, <1>5, <2>1, RestartKeeps DEF DidTapTooEarly
<1>6. CASE \E n \in Newcomers[d], p \in Passwords : VeryfySignUp(d, n, p)
  BY <1>6, VeryfySignUpKeeps
<1>7. CASE DidTapLogout(d)
  BY <1>1, <1>7, DidTapLogoutKeeps
<1>8. CASE Dismiss(d)
  <2>1. /\ Tabs(screen[d].found) \in Screen
        /\ Tabs(screen[d].found).at = "tabs"
    BY <1>1, ScreenTypes
  <2>2. QED
    BY <1>1, <1>8, <2>1, LookKeeps DEF Dismiss
<1>9. CASE Crash(d)
  <2>1. taps' \in [Devices -> Nat]
    BY <1>9 DEF Crash, Inv, SessionTypes
  <2>2. QED
    BY <1>1, <1>9, <2>1, RestartKeeps DEF Crash
<1>10. QED
  BY <1>2, <1>3, <1>4, <1>5, <1>6, <1>7, <1>8, <1>9 DEF SessionStep

--------------------------------------------------------------------------------
(* The handlers of Payment.                                                   *)

\* Any balance may be raised or lowered by an amount, negative results included.
LEMMA BalanceIn ==
    ASSUME NEW U, Closed(U), NEW u \in U, NEW a \in Int
    PROVE  /\ [u EXCEPT !.balance = @ - a] \in U
           /\ [u EXCEPT !.balance = @ + a] \in U
<1>1. u.balance \in Int
  BY DEF Closed, Mixable, User
<1>2. u.balance - a \in Int /\ u.balance + a \in Int
  BY <1>1
<1>3. QED
  BY <1>2 DEF Closed

\* What a confirmed payment makes of the local users stays in U.
LEMMA PaymentIn ==
    ASSUME NEW U, Closed(U), Inv(U), NEW d \in Devices,
           screen[d].at = "confirm", screen[d].who \in Names,
           AnyMoney(U) \/ ~(screen[d].invest /\ screen[d].amount < 0)
    PROVE  /\ Credited(d) \in ViewsOf(U)
           /\ Invested(d) \in U
           /\ PaymentWrites(d) \in Seq(WritesOf(U))
<1> DEFINE a == screen[d].amount
           n == screen[d].who
<1>1. /\ Mixable(U) /\ NoDoc \notin U
      /\ \A u \in U : [u EXCEPT !.balance = @ - a] \in U
                      /\ [u EXCEPT !.balance = @ + a] \in U
  <2>1. a \in Int
    BY DEF Inv, SessionTypes, Screen
  <2>2. Mixable(U) /\ NoDoc \notin U
    BY SessionAssumption DEF Closed, Mixable
  <2>3. QED
    BY <2>1, <2>2, BalanceIn
<1>2. /\ session[d] \in Names /\ CurrUser(d) \in U
      /\ own[d] = NoDoc => userDatabase[d][session[d]] = CurrUser(d)
      /\ own[d] # NoDoc => own[d] = CurrUser(d)
      /\ userDatabase[d] \in ViewsOf(U)
  BY <1>1, CurrUserIn DEF Inv, Everywhere, SessionOver
<1>3. /\ Debited(d) \in ViewsOf(U)
      /\ own[d] = NoDoc => Debited(d)[session[d]] \in U
  <2>1. CASE own[d] = NoDoc
    <3>1. Debited(d) = [userDatabase[d] EXCEPT ![session[d]] =
                          [CurrUser(d) EXCEPT !.balance = @ - a]]
      BY <1>2, <2>1 DEF Debited
    <3>2. [CurrUser(d) EXCEPT !.balance = @ - a] \in U
      BY <1>1, <1>2
    <3>3. QED
      BY <1>2, <3>1, <3>2 DEF ViewsOf
  <2>2. CASE own[d] # NoDoc
    BY <1>2, <2>2 DEF Debited
  <2>3. QED
    BY <2>1, <2>2
<1>4. /\ Credited(d) \in ViewsOf(U)
      /\ own[d] = NoDoc => Credited(d)[session[d]] \in U
  <2>1. CASE Debited(d)[n] = NoDoc
    BY <1>3, <2>1 DEF Credited
  <2>2. CASE Debited(d)[n] # NoDoc
    <3>1. Debited(d)[n] \in U
      BY <1>3, <2>2 DEF ViewsOf
    <3>2. [Debited(d)[n] EXCEPT !.balance = @ + a] \in U
      BY <1>1, <3>1
    <3>3. Credited(d) = [Debited(d) EXCEPT ![n] =
                           [Debited(d)[n] EXCEPT !.balance = @ + a]]
      BY <2>2 DEF Credited
    <3>4. QED
      BY <1>2, <1>3, <3>2, <3>3 DEF ViewsOf
  <2>3. QED
    BY <2>1, <2>2
<1>5. Payer(d) \in U
  BY <1>1, <1>2, <1>4 DEF Payer
<1>6. Invested(d) \in U
  <2> DEFINE tenth == InvestAmount(a)
  <2>1. /\ a \in Int /\ tenth \in Int /\ (a >= 0 => tenth \in Nat)
        /\ Payer(d).investmentBalance \in Int
    BY <1>1, <1>5 DEF InvestAmount, Inv, SessionTypes, Screen, Mixable, User
  <2> HIDE DEF tenth
  <2>2. CASE ~screen[d].invest
    BY <1>5, <2>2 DEF Invested
  <2>3. CASE screen[d].invest
    <3>1. Invested(d) = [Payer(d) EXCEPT !.investmentBalance = @ + tenth]
      BY <2>3 DEF Invested, tenth
    <3>2. CASE a >= 0
      BY <1>5, <2>1, <3>1, <3>2 DEF Closed
    <3>3. CASE ~(a >= 0)
      <4>1. AnyMoney(U) /\ Payer(d).investmentBalance + tenth \in Int
        BY <2>1, <2>3, <3>3
      <4>2. QED
        BY <1>5, <3>1, <4>1 DEF AnyMoney
    <3>4. QED
      BY <3>2, <3>3
  <2>4. QED
    BY <2>2, <2>3
<1>7. PaymentWrites(d) \in Seq(WritesOf(U))
  <2> DEFINE payer == [CurrUser(d) EXCEPT !.balance = @ - a]
             payee == IF Credited(d)[n] = NoDoc THEN BlankUser
                      ELSE Credited(d)[n]
  <2>1. payer \in U /\ payee \in U
    BY <1>1, <1>2, <1>4 DEF Mixable, ViewsOf
  <2>2. {"balance"} \in SUBSET Fields /\ {"investmentBalance"} \in SUBSET Fields
    BY DEF Fields
  <2>3. /\ Update(session[d], {"balance"}, payer) \in WritesOf(U)
        /\ Update(n, {"balance"}, payee) \in WritesOf(U)
        /\ Update(session[d], {"investmentBalance"}, Invested(d)) \in WritesOf(U)
    BY <1>1, <1>2, <1>6, <2>1, <2>2, WritesIn
  <2> HIDE DEF payer, payee
  <2> DEFINE balances == <<Update(session[d], {"balance"}, payer),
                           Update(n, {"balance"}, payee)>>
             invested == <<Update(session[d], {"investmentBalance"},
                                  Invested(d))>>
  <2>4. balances \in Seq(WritesOf(U)) /\ invested \in Seq(WritesOf(U))
    BY <2>3
  <2>5. PaymentWrites(d) =
          balances \o (IF screen[d].invest THEN invested ELSE <<>>)
    BY DEF PaymentWrites, payer, payee
  <2> HIDE DEF balances, invested
  <2>6. (IF screen[d].invest THEN invested ELSE <<>>) \in Seq(WritesOf(U))
    BY <2>4
  <2>7. QED
    BY <2>4, <2>5, <2>6
<1>8. QED
  BY <1>4, <1>6, <1>7

\* The OK handler debits, credits, invests, issues its writes and dismisses.
LEMMA DidConfirmPayKeeps ==
    ASSUME NEW U, Closed(U), Inv(U), NEW d \in Devices, DidConfirmPay(d),
           AnyMoney(U) \/ ~Overdraws(d)
    PROVE  Inv(U)'
<1>1. /\ screen[d].at = "confirm" /\ screen[d].who \in Names
      /\ Issue(d, PaymentWrites(d)) /\ Tap(d)
      /\ Show(d, Tabs(screen[d].found))
      /\ UNCHANGED <<loaded, session, recipients>>
  BY DEF DidConfirmPay
<1>2. /\ Credited(d) \in ViewsOf(U) /\ Invested(d) \in U
      /\ PaymentWrites(d) \in Seq(WritesOf(U))
  <2>1. AnyMoney(U) \/ ~(screen[d].invest /\ screen[d].amount < 0)
    BY DEF Overdraws
  <2>2. QED
    BY <1>1, <2>1, PaymentIn
<1>3. StoreOver(U)' /\ StoreCounters'
  BY <1>1, <1>2, IssueKeeps DEF Inv, Everywhere
<1>4. /\ Mixable(U) /\ NoDoc \notin U
      /\ session[d] \in Names /\ session[d] # NoName
  BY <1>1, CurrUserIn, SessionAssumption DEF Closed, Mixable
<1> DEFINE view == IF own[d] = NoDoc
                   THEN [Credited(d) EXCEPT ![session[d]] = Invested(d)]
                   ELSE Credited(d)
           object == IF own[d] = NoDoc THEN NoDoc ELSE Invested(d)
<1>5. /\ view \in ViewsOf(U) /\ object \in U \cup {NoDoc}
      /\ object # NoDoc \/ view[session[d]] # NoDoc
  BY <1>2, <1>4 DEF ViewsOf
<1>6. /\ Tabs(screen[d].found) \in Screen
      /\ Tabs(screen[d].found).at = "tabs"
  BY ScreenTypes DEF Inv, SessionTypes, Screen
<1>7. /\ userDatabase' = [userDatabase EXCEPT ![d] = view]
      /\ own' = [own EXCEPT ![d] = object]
  BY DEF DidConfirmPay, Inv, Everywhere, SessionOver
<1>8. /\ session' = [session EXCEPT ![d] = session[d]]
      /\ screen' = [screen EXCEPT ![d] = Tabs(screen[d].found)]
      /\ loaded' \in [Devices -> BOOLEAN]
      /\ recipients' \in [Devices -> Seq(Names \cup {NoName})]
      /\ taps' \in [Devices -> Nat]
  BY <1>1 DEF Show, Tap, Inv, SessionTypes
<1>9. PageSettled(d)'
  <2>1. screen'[d].at = "tabs"
    BY <1>6, <1>8 DEF Inv, SessionTypes
  <2>2. QED
    BY <2>1 DEF PageSettled
<1> HIDE DEF view, object
<1>10. QED
  BY <1>3, <1>4, <1>5, <1>6, <1>7, <1>8, <1>9, HandlerKeeps

\* With nobody as payee the process ends, with the payer's debit issued.
LEMMA DidConfirmPayNobodyKeeps ==
    ASSUME NEW U, Closed(U), Inv(U), NEW d \in Devices, DidConfirmPayNobody(d)
    PROVE  Inv(U)'
<1> DEFINE debit == Update(session[d], {"balance"},
                      [CurrUser(d) EXCEPT !.balance = @ - screen[d].amount])
           issued == Append(queue[d], debit)
<1>1. /\ screen[d].at = "confirm" /\ Tap(d)
      /\ \E stored \in durable[d]..Len(issued) :
            Restart(d, SubSeq(issued, 1, stored))
  BY DEF DidConfirmPayNobody
<1>2. Mixable(U)
  BY DEF Closed
<1>3. debit \in WritesOf(U)
  <2>1. screen[d].amount \in Int
    BY DEF Inv, SessionTypes, Screen
  <2>2. CurrUser(d) \in U /\ session[d] \in Names
    BY <1>1, <1>2, CurrUserIn
  <2>3. [CurrUser(d) EXCEPT !.balance = @ - screen[d].amount] \in U
    BY <2>1, <2>2, BalanceIn
  <2>4. {"balance"} \in SUBSET Fields
    BY DEF Fields
  <2>5. QED
    BY <1>2, <2>2, <2>3, <2>4, WritesIn
<1> HIDE DEF debit
<1>4. /\ issued \in Seq(WritesOf(U))
      /\ durable[d] \in Nat
  BY <1>3, PersistedIn DEF Inv, Everywhere
<1> HIDE DEF issued
<1>5. PICK stored \in durable[d]..Len(issued) :
        Restart(d, SubSeq(issued, 1, stored))
  BY <1>1
<1>6. SubSeq(issued, 1, stored) \in Seq(WritesOf(U))
  BY <1>4, <1>5
<1>7. taps' \in [Devices -> Nat]
  BY <1>1 DEF Tap, Inv, SessionTypes
<1>8. QED
  BY <1>2, <1>5, <1>6, <1>7, RestartKeeps

\* Every step of Payment keeps the invariant.
LEMMA PaymentStepKeeps ==
    ASSUME NEW U, Closed(U), Inv(U), NEW d \in Devices, PaymentStep(d),
           AnyMoney(U) \/ ~Overdraws(d)
    PROVE  Inv(U)'
<1>1. /\ Mixable(U) /\ screen[d] \in Screen
      /\ recipients[d] \in Seq(Names \cup {NoName})
      /\ Persisted(d) \in Seq(WritesOf(U)) /\ taps \in [Devices -> Nat]
  BY PersistedIn DEF Closed, Inv, Everywhere, SessionTypes
<1>2. ASSUME NEW n \in Names \cup {NoName}, DidSelectRecipient(d, n)
      PROVE  Inv(U)'
  <2> DEFINE s == [screen[d] EXCEPT !.at = "pay", !.who = n]
  <2>1. s \in Screen /\ s.at = "pay"
    BY <1>1 DEF Screen, Screens
  <2>2. screen[d].at # "login" /\ Show(d, s)
        /\ UNCHANGED <<storeVars, loaded, userDatabase, session, own,
                       recipients, taps>>
    BY <1>2 DEF DidSelectRecipient
  <2> HIDE DEF s
  <2>3. QED
    BY <1>1, <2>1, <2>2, LookKeeps
<1>3. ASSUME NEW a \in Amounts, DidTapPayButton(d, a)
      PROVE  Inv(U)'
  <2> DEFINE s == [screen[d] EXCEPT !.at = "sheet", !.amount = a]
  <2>1. s \in Screen /\ s.at = "sheet"
    BY <1>1, AmountsAssumption DEF Screen, Screens
  <2>2. screen[d].at # "login" /\ Show(d, s)
        /\ UNCHANGED <<storeVars, loaded, userDatabase, session, own,
                       recipients, taps>>
    BY <1>3 DEF DidTapPayButton
  <2> HIDE DEF s
  <2>3. QED
    BY <1>1, <2>1, <2>2, LookKeeps
<1>4. CASE DidTapPayUnparsable(d)
  <2>1. taps' \in [Devices -> Nat]
    BY <1>1, <1>4 DEF DidTapPayUnparsable
  <2>2. QED
    BY <1>1, <1>4, <2>1, RestartKeeps DEF DidTapPayUnparsable
<1>5. ASSUME NEW invest \in BOOLEAN, ShowConfirmationAlert(d, invest)
      PROVE  Inv(U)'
  <2> DEFINE s == [screen[d] EXCEPT !.at = "confirm", !.invest = invest]
  <2>1. s \in Screen /\ s.at = "confirm"
    BY <1>1 DEF Screen, Screens
  <2>2. screen[d].at # "login" /\ Show(d, s)
        /\ UNCHANGED <<storeVars, loaded, userDatabase, session, own,
                       recipients, taps>>
    BY <1>5 DEF ShowConfirmationAlert
  <2> HIDE DEF s
  <2>3. QED
    BY <1>1, <2>1, <2>2, LookKeeps
<1>6. CASE DidTapDiscard(d)
  <2> DEFINE s == [screen[d] EXCEPT !.at = "pay", !.amount = 0,
                                    !.invest = FALSE]
  <2>1. s \in Screen /\ s.at = "pay"
    <3>1. 0 \in Int
      OBVIOUS
    <3>2. QED
      BY <1>1, <3>1 DEF Screen, Screens
  <2>2. screen[d].at # "login" /\ Show(d, s)
        /\ UNCHANGED <<storeVars, loaded, userDatabase, session, own,
                       recipients, taps>>
    BY <1>6 DEF DidTapDiscard
  <2> HIDE DEF s
  <2>3. QED
    BY <1>1, <2>1, <2>2, LookKeeps
<1>7. QED
  BY <1>2, <1>3, <1>4, <1>5, <1>6, DidConfirmPayKeeps,
     DidConfirmPayNobodyKeeps DEF PaymentStep

--------------------------------------------------------------------------------
(* The handlers of Friends, Trading and Settings.                             *)

\* Adding the name of a page that offers it keeps the friends within U.
LEMMA DidTapModifyFriendButtonKeeps ==
    ASSUME NEW U, Closed(U), Inv(U), NEW d \in Devices,
           DidTapModifyFriendButton(d)
    PROVE  Inv(U)'
<1> DEFINE u == [CurrUser(d) EXCEPT !.friends = Append(@, screen[d].who)]
           s == [screen[d] EXCEPT !.known = TRUE, !.found = {}]
<1>1. /\ screen[d].at = "friend" /\ ~screen[d].known /\ Tap(d)
      /\ ChangeCurrUser(d, u)
      /\ Issue(d, <<Update(session[d], {"friends"}, u)>>)
      /\ recipients' = [recipients EXCEPT ![d] = u.friends]
      /\ Show(d, s) /\ UNCHANGED loaded /\ UNCHANGED session
  BY DEF DidTapModifyFriendButton
<1>2. /\ Mixable(U) /\ CurrUser(d) \in U /\ session[d] \in Names
      /\ screen[d] \in Screen
  BY <1>1, CurrUserIn DEF Closed, Inv, SessionTypes
<1>3. u \in U
  <2>1. screen[d].who \in Names \cup {NoName}
    BY <1>2 DEF Screen
  <2>2. \/ screen[d].who = NoName
        \/ screen[d].who \notin Elements(CurrUser(d).friends)
    BY <1>1 DEF Inv, PageSettled
  <2>3. QED
    BY <1>2, <2>1, <2>2 DEF Closed
<1>4. s \in Screen /\ s.at = "friend" /\ s.known
  BY <1>1, <1>2 DEF Screen, Screens
<1> HIDE DEF u, s
<1>5. <<Update(session[d], {"friends"}, u)>> \in Seq(WritesOf(U))
  <2>1. {"friends"} \in SUBSET Fields
    BY DEF Fields
  <2>2. Update(session[d], {"friends"}, u) \in WritesOf(U)
    BY <1>2, <1>3, <2>1, WritesIn
  <2>3. QED
    BY <2>2
<1>6. recipients' \in [Devices -> Seq(Names \cup {NoName})]
  <2>1. u.friends \in Seq(Names \cup {NoName})
    BY <1>2, <1>3 DEF Mixable, User
  <2>2. QED
    BY <1>1, <2>1 DEF Inv, SessionTypes
<1>7. QED
  BY <1>1, <1>2, <1>3, <1>4, <1>5, <1>6, ChangeKeeps

\* Every step of Friends keeps the invariant.
LEMMA FriendsStepKeeps ==
    ASSUME NEW U, Closed(U), Inv(U), NEW d \in Devices, FriendsStep(d)
    PROVE  Inv(U)'
<1>1. Mixable(U) /\ screen[d] \in Screen /\ screen[d].found \in SUBSET Names
  BY DEF Closed, Inv, SessionTypes, Screen
<1>2. ASSUME NEW q \in Queries, DidTapSearchButton(d, q)
      PROVE  Inv(U)'
  <2> DEFINE found == {n \in q : userDatabase[d][n] # NoDoc}
  <2>1. found \in SUBSET Names
    BY QueriesAssumption
  <2>2. screen[d].at # "login" /\ Show(d, Tabs(found))
        /\ UNCHANGED <<storeVars, loaded, userDatabase, session, own,
                       recipients, taps>>
    BY <1>2 DEF DidTapSearchButton
  <2> HIDE DEF found
  <2>3. Tabs(found) \in Screen /\ Tabs(found).at = "tabs"
    BY <2>1, ScreenTypes
  <2>4. QED
    BY <1>1, <2>2, <2>3, LookKeeps
<1>3. ASSUME NEW n \in Names, DidSelectResult(d, n)
      PROVE  Inv(U)'
  <2> DEFINE s == [Tabs({}) EXCEPT !.at = "friend", !.who = FoundName(d, n),
                                   !.known = IsFriend(d, n)]
  <2>1. /\ Tabs({}) \in Screen /\ FoundName(d, n) \in Names \cup {NoName}
        /\ IsFriend(d, n) \in BOOLEAN
    BY ScreenTypes DEF FoundName, IsFriend
  <2>2. /\ s \in Screen /\ s.at = "friend" /\ s.who = FoundName(d, n)
        /\ s.known = IsFriend(d, n)
    BY <2>1 DEF Screen, Screens
  <2>3. screen[d].at # "login" /\ Show(d, s)
        /\ UNCHANGED <<storeVars, loaded, userDatabase, session, own,
                       recipients, taps>>
    BY <1>3 DEF DidSelectResult
  <2> HIDE DEF s
  <2>4. ~s.known => s.who = NoName \/ s.who \notin Elements(CurrUser(d).friends)
    BY <2>2 DEF FoundName, IsFriend
  <2>5. QED
    BY <1>1, <2>2, <2>3, <2>4, LookKeeps
<1>4. ASSUME NEW n \in Names, DidSelectFriend(d, n)
      PROVE  Inv(U)'
  <2> DEFINE s == [Tabs(screen[d].found) EXCEPT !.at = "friend",
                      !.who = FoundName(d, n), !.known = TRUE]
  <2>1. Tabs(screen[d].found) \in Screen
    BY <1>1, ScreenTypes
  <2>2. s \in Screen /\ s.at = "friend" /\ s.known
    BY <2>1 DEF Screen, Screens, FoundName
  <2>3. screen[d].at # "login" /\ Show(d, s)
        /\ UNCHANGED <<storeVars, loaded, userDatabase, session, own,
                       recipients, taps>>
    BY <1>4 DEF DidSelectFriend
  <2> HIDE DEF s
  <2>4. QED
    BY <1>1, <2>2, <2>3, LookKeeps
<1>5. QED
  BY <1>2, <1>3, <1>4, DidTapModifyFriendButtonKeeps DEF FriendsStep

\* A handler of the page in front that changes the user within U, issues the
\* fields it changed, and leaves the page as it is.
LEMMA FieldsChangeKeeps ==
    ASSUME NEW U, Mixable(U), Inv(U), NEW d \in Devices, NEW u \in U,
           NEW fields \in SUBSET Fields,
           screen[d].at \in {"tabs", "stock"}, Tap(d), ChangeCurrUser(d, u),
           Issue(d, <<Update(session[d], fields, u)>>),
           UNCHANGED <<loaded, session, recipients, screen>>
    PROVE  Inv(U)'
<1>1. session[d] \in Names /\ screen[d].at # "login"
  BY CurrUserIn
<1>2. <<Update(session[d], fields, u)>> \in Seq(WritesOf(U))
  <2>1. Update(session[d], fields, u) \in WritesOf(U)
    BY <1>1, WritesIn
  <2>2. QED
    BY <2>1
<1>3. /\ Show(d, screen[d]) /\ screen[d] \in Screen
      /\ recipients' \in [Devices -> Seq(Names \cup {NoName})]
      /\ UNCHANGED loaded /\ UNCHANGED session
  BY DEF Show, Inv, SessionTypes
<1>4. screen[d].at = "stock" => screen[d].symbol \in Symbols
  BY DEF Inv, PageSettled
<1>5. QED
  BY <1>1, <1>2, <1>3, <1>4, ChangeKeeps

\* The price of a sale tells in the investment balance alone.
LEMMA SoldAtAnyPrice ==
    ASSUME NEW U, Closed(U), AnyMoney(U), NEW u \in U, NEW s \in Symbols,
           NEW q \in Int, NEW p \in Int, CanSell(u, s, q)
    PROVE  Sold(u, s, q, p) \in U
<1> DEFINE free == Sold(u, s, q, 0)
           money == u.investmentBalance + q * p
<1>1. u \in User /\ free \in U
  BY DEF Closed, Mixable
<1>2. money \in Int
  BY <1>1 DEF User
<1>3. Sold(u, s, q, p) = [free EXCEPT !.investmentBalance = money]
  BY <1>1 DEF Sold, User
<1> HIDE DEF free, money
<1>4. QED
  BY <1>1, <1>2, <1>3 DEF AnyMoney

\* Every step of Trading keeps the invariant.
LEMMA TradingStepKeeps ==
    ASSUME NEW U, Closed(U), Inv(U), NEW d \in Devices, TradingStep(d),
           AnyMoney(U) \/ ~Overdraws(d)
    PROVE  Inv(U)'
<1>1. Mixable(U) /\ screen[d] \in Screen
  BY DEF Closed, Inv, SessionTypes
<1>2. ASSUME NEW symbol \in Symbols, NEW price \in Quotes,
             DidTapSearchStock(d, symbol, price)
      PROVE  Inv(U)'
  <2> DEFINE s == [screen[d] EXCEPT !.at = "stock", !.symbol = symbol,
                                    !.price = price]
  <2>1. s \in Screen /\ s.at = "stock" /\ s.symbol \in Symbols
    BY <1>1, TradingAssumption DEF Screen, Screens
  <2>2. screen[d].at # "login" /\ Show(d, s)
        /\ UNCHANGED <<storeVars, loaded, userDatabase, session, own,
                       recipients, taps>>
    BY <1>2 DEF DidTapSearchStock
  <2> HIDE DEF s
  <2>3. QED
    BY <1>1, <2>1, <2>2, LookKeeps
<1>3. ASSUME NEW u \in U, Trade(d, u)
      PROVE  Inv(U)'
  <2>1. {"stock", "investmentBalance"} \in SUBSET Fields
    BY DEF Fields
  <2>2. QED
    BY <1>1, <1>3, <2>1, FieldsChangeKeeps DEF Trade
<1>4. screen[d].at = "stock" =>
        CurrUser(d) \in U /\ screen[d].symbol \in Symbols
        /\ screen[d].price \in Int
  BY <1>1, CurrUserIn DEF Inv, PageSettled, Screen
<1>5. ASSUME NEW q \in Quantities, BuyButton(d, q)
      PROVE  Inv(U)'
  <2> DEFINE u == IF CanBuy(CurrUser(d), q, screen[d].price)
                  THEN Bought(CurrUser(d), screen[d].symbol, q,
                              screen[d].price)
                  ELSE CurrUser(d)
  <2>1. Trade(d, u)
    BY <1>5 DEF BuyButton
  <2>2. u \in U
    BY <1>4, <2>1, TradingAssumption DEF Trade, Closed
  <2>3. QED
    BY <1>3, <2>1, <2>2
<1>6. ASSUME NEW q \in Quantities, SellButton(d, q)
      PROVE  Inv(U)'
  <2> DEFINE u == IF CanSell(CurrUser(d), screen[d].symbol, q)
                  THEN Sold(CurrUser(d), screen[d].symbol, q,
                            screen[d].price)
                  ELSE CurrUser(d)
  <2>1. Trade(d, u)
    BY <1>6 DEF SellButton
  <2>2. /\ CurrUser(d) \in U /\ screen[d].symbol \in Symbols
        /\ screen[d].price \in Int /\ q \in Int
    BY <1>4, <2>1, TradingAssumption DEF Trade
  <2>3. CASE screen[d].price >= 0
    BY <1>3, <2>1, <2>2, <2>3 DEF Closed
  <2>4. CASE ~(screen[d].price >= 0)
    <3>1. AnyMoney(U)
      BY <1>6, <2>2, <2>4 DEF Overdraws
    <3>2. u \in U
      BY <2>2, <3>1, SoldAtAnyPrice
    <3>3. QED
      BY <1>3, <2>1, <3>2
  <2>5. QED
    BY <2>3, <2>4
<1>7. QED
  BY <1>2, <1>5, <1>6 DEF TradingStep

\* Every step of Settings keeps the invariant.
LEMMA SettingsStepKeeps ==
    ASSUME NEW U, Closed(U), Inv(U), NEW d \in Devices, SettingsStep(d)
    PROVE  Inv(U)'
<1>1. Mixable(U)
  BY DEF Closed
<1>2. ASSUME NEW c \in NewCards, DidTapAddCardButton(d, c)
      PROVE  Inv(U)'
  <2> DEFINE u == [CurrUser(d) EXCEPT !.cards = Append(@, c)]
  <2>1. /\ screen[d].at = "tabs" /\ Tap(d) /\ ChangeCurrUser(d, u)
        /\ Issue(d, <<Update(session[d], {"cards"}, u)>>)
        /\ UNCHANGED <<loaded, session, recipients, screen>>
    BY <1>2 DEF DidTapAddCardButton
  <2>2. CurrUser(d) \in U
    BY <1>1, <2>1, CurrUserIn
  <2>3. u \in U
    BY <2>2, SettingsAssumption DEF Closed
  <2>4. {"cards"} \in SUBSET Fields
    BY DEF Fields
  <2> HIDE DEF u
  <2>5. QED
    BY <1>1, <2>1, <2>3, <2>4, FieldsChangeKeeps
<1>3. ASSUME NEW p \in Passwords, NEW q \in NewPasswords,
             DidTapChangePassword(d, p, q)
      PROVE  Inv(U)'
  <2> DEFINE u == [CurrUser(d) EXCEPT !.password = q]
  <2>1. /\ screen[d].at = "tabs" /\ Tap(d) /\ ChangeCurrUser(d, u)
        /\ Issue(d, <<Update(session[d], {"password"}, u)>>)
        /\ UNCHANGED <<loaded, session, recipients, screen>>
    BY <1>3 DEF DidTapChangePassword
  <2>2. CurrUser(d) \in U
    BY <1>1, <2>1, CurrUserIn
  <2>3. u \in U
    BY <2>2, SettingsAssumption DEF Closed
  <2>4. {"password"} \in SUBSET Fields
    BY DEF Fields
  <2> HIDE DEF u
  <2>5. QED
    BY <1>1, <2>1, <2>3, <2>4, FieldsChangeKeeps
<1>4. QED
  BY <1>2, <1>3 DEF SettingsStep

--------------------------------------------------------------------------------
(* The induction.                                                             *)

\* When the server's first documents are of U, the app starts in order.
LEMMA InitInv ==
    ASSUME NEW U, InitialDocs \in ViewsOf(U), Init
    PROVE  Inv(U)
<1>1. EmptyView \in ViewsOf(U)
  BY EmptyViewIn
<1>2. StoreOver(U) /\ StoreCounters
  <2>1. <<[behind |-> 0, ready |-> FALSE, view |-> EmptyView]>>
        \in Seq(LoadsOf(U))
    <3>1. [behind |-> 0, ready |-> FALSE, view |-> EmptyView] \in LoadsOf(U)
      BY <1>1 DEF LoadsOf
    <3>2. QED
      BY <3>1
  <2>2. QED
    BY <1>1, <2>1 DEF Init, StoreInit, StoreOver, StoreCounters
<1>3. LoginScreen \in Screen /\ LoginScreen.at = "login"
  BY ScreenTypes
<1>4. SessionOver(U) /\ SessionTypes
  BY <1>1, <1>3 DEF Init, SessionInit, SessionOver, SessionTypes
<1>5. SessionHasUser /\ \A d \in Devices : PageSettled(d)
  BY <1>3 DEF Init, SessionInit, SessionHasUser, PageSettled
<1>6. QED
  BY <1>2, <1>4, <1>5 DEF Inv, Everywhere

\* No step leads out of the invariant of a closed set, unless it overdraws an
\* account and the set does not allow for that.
LEMMA NextInv ==
    ASSUME NEW U, Closed(U), Inv(U), [Next]_vars,
           AnyMoney(U) \/ \A d \in Devices : ~Overdraws(d)
    PROVE  Inv(U)'
<1>1. ASSUME NEW d \in Devices, Step(d)
      PROVE  Inv(U)'
  <2>1. Mixable(U)
    BY DEF Closed
  <2>2. QED
    BY <1>1, <2>1, BackgroundKeeps, SessionStepKeeps, PaymentStepKeeps,
       FriendsStepKeeps, TradingStepKeeps, SettingsStepKeeps DEF Step
<1>2. CASE UNCHANGED vars
  <2>1. UNCHANGED storeVars /\ UNCHANGED appVars
    BY <1>2 DEF vars
  <2>2. StoreOver(U)' /\ StoreCounters'
    BY <2>1, StoreUntouched DEF Inv, Everywhere
  <2>3. QED
    BY <2>1, <2>2, AppUntouched
<1>3. QED
  BY <1>1, <1>2 DEF Next

--------------------------------------------------------------------------------
(* The closed sets.                                                           *)

\* What a trade leaves is a user, whatever was traded.
LEMMA TradedTypes ==
    ASSUME NEW u \in User, NEW s \in Symbols, NEW q \in Int, NEW p \in Int
    PROVE  /\ Bought(u, s, q, p) \in User /\ Sold(u, s, q, p) \in User
           /\ q * p \in Int
<1>1. /\ u.investmentBalance \in Int /\ u.stock \in [Symbols -> Int]
      /\ q * p \in Int
  BY DEF User
<1>2. u.stock[s] \in Int /\ Holding(u, s) + q \in Int
  BY <1>1 DEF Holding
<1>3. Bought(u, s, q, p) \in User
  <2> DEFINE held == [u.stock EXCEPT ![s] = Holding(u, s) + q]
             money == u.investmentBalance - q * p
  <2>1. held \in [Symbols -> Int] /\ money \in Int
    BY <1>1, <1>2
  <2>2. Bought(u, s, q, p) =
          [u EXCEPT !.investmentBalance = money, !.stock = held]
    BY DEF Bought, User
  <2> HIDE DEF held, money
  <2>3. QED
    BY <2>1, <2>2 DEF User
<1>4. Sold(u, s, q, p) \in User
  <2> DEFINE held == [u.stock EXCEPT ![s] =
                        IF @ = q THEN NotHeld ELSE @ - q]
             money == u.investmentBalance + q * p
  <2>1. held \in [Symbols -> Int] /\ money \in Int
    BY <1>1, <1>2 DEF NotHeld
  <2>2. Sold(u, s, q, p) =
          [u EXCEPT !.investmentBalance = money, !.stock = held]
    BY DEF Sold, User
  <2> HIDE DEF held, money
  <2>3. QED
    BY <2>1, <2>2 DEF User
<1>5. QED
  BY <1>3, <1>4

\* The handlers keep a user's fields within their types.
LEMMA UserClosed == Closed(User) /\ AnyMoney(User)
<1>1. Mixable(User)
  <2>1. BlankUser \in User
    <3>1. <<>> \in Seq(Names \cup {NoName}) /\ <<>> \in Seq(Cards)
      OBVIOUS
    <3>2. [s \in Symbols |-> NotHeld] \in [Symbols -> Int]
      BY DEF NotHeld
    <3>3. QED
      BY <3>1, <3>2 DEF BlankUser, User
  <2>2. QED
    BY <2>1 DEF Mixable, User
<1>2. ASSUME NEW u \in User
      PROVE  /\ \A p \in Passwords : [u EXCEPT !.password = p] \in User
             /\ \A a \in Int : [u EXCEPT !.balance = a] \in User
             /\ \A k \in Nat : [u EXCEPT !.investmentBalance = @ + k] \in User
             /\ \A c \in Cards : [u EXCEPT !.cards = Append(@, c)] \in User
             /\ \A n \in Names \cup {NoName} :
                  [u EXCEPT !.friends = Append(@, n)] \in User
  <2>1. /\ u.investmentBalance \in Int /\ u.cards \in Seq(Cards)
        /\ u.friends \in Seq(Names \cup {NoName})
    BY DEF User
  <2>2. /\ \A k \in Nat : u.investmentBalance + k \in Int
        /\ \A c \in Cards : Append(u.cards, c) \in Seq(Cards)
        /\ \A n \in Names \cup {NoName} :
             Append(u.friends, n) \in Seq(Names \cup {NoName})
    BY <2>1
  <2>3. QED
    BY <2>2 DEF User
<1>3. AnyMoney(User)
  BY DEF AnyMoney, User
<1>4. QED
  BY <1>1, <1>2, <1>3, TradedTypes DEF Closed

\* Two users that agree in what a set looks at, and in all else: what carries
\* the changes of other fields for the sets below.
SameHoldings(v, u) == /\ v.stock = u.stock
                      /\ v.investmentBalance = u.investmentBalance

\* The handlers that touch neither shares nor the money to invest.
LEMMA OtherFieldsClosed ==
    ASSUME NEW U, U \subseteq User, NEW u \in U,
           \A v \in User : SameHoldings(v, u) => v \in U
    PROVE  /\ \A p \in Passwords : [u EXCEPT !.password = p] \in U
           /\ \A a \in Int : [u EXCEPT !.balance = a] \in U
           /\ \A c \in Cards : [u EXCEPT !.cards = Append(@, c)] \in U
           /\ \A n \in Names \cup {NoName} :
                n = NoName \/ n \notin Elements(u.friends) =>
                    [u EXCEPT !.friends = Append(@, n)] \in U
<1>1. u \in User
  OBVIOUS
<1>2. ASSUME NEW x
      PROVE  /\ SameHoldings([u EXCEPT !.password = x], u)
             /\ SameHoldings([u EXCEPT !.balance = x], u)
             /\ SameHoldings([u EXCEPT !.cards = x], u)
             /\ SameHoldings([u EXCEPT !.friends = x], u)
  BY <1>1 DEF User, SameHoldings
<1>3. /\ \A p \in Passwords : [u EXCEPT !.password = p] \in User
      /\ \A a \in Int : [u EXCEPT !.balance = a] \in User
      /\ \A c \in Cards : [u EXCEPT !.cards = Append(@, c)] \in User
      /\ \A n \in Names \cup {NoName} :
           n = NoName \/ n \notin Elements(u.friends) =>
               [u EXCEPT !.friends = Append(@, n)] \in User
  BY <1>1, UserClosed DEF Closed
<1>4. QED
  BY <1>2, <1>3

UsersFrom(floor) == {u \in User : u.investmentBalance >= floor}

\* A purchase is checked against the money of the very object it changes, and
\* everything else only adds to it: for any floor that is not above zero.
LEMMA FromClosed ==
    ASSUME NEW floor \in Int, floor <= 0
    PROVE  Closed(UsersFrom(floor))
<1> DEFINE U == UsersFrom(floor)
<1>1. Mixable(U)
  <2>1. BlankUser \in U
    BY UserClosed DEF Closed, Mixable, UsersFrom, BlankUser
  <2>2. ASSUME NEW a \in U, NEW b \in U, NEW c \in U, NEW e \in U,
               NEW f \in U, NEW g \in U
        PROVE  [password |-> a.password, balance |-> b.balance,
                investmentBalance |-> c.investmentBalance,
                friends |-> e.friends, cards |-> f.cards,
                stock |-> g.stock] \in U
    <3>1. [password |-> a.password, balance |-> b.balance,
           investmentBalance |-> c.investmentBalance, friends |-> e.friends,
           cards |-> f.cards, stock |-> g.stock] \in User
      BY UserClosed, MixedIn DEF Closed, UsersFrom
    <3>2. QED
      BY <3>1 DEF UsersFrom
  <2>3. QED
    BY <2>1, <2>2 DEF Mixable, UsersFrom
<1>2. ASSUME NEW u \in U
      PROVE  /\ u \in User /\ u.investmentBalance \in Int
             /\ u.investmentBalance >= floor
             /\ \A v \in User :
                  v.investmentBalance >= u.investmentBalance => v \in U
  <2>1. u \in User /\ u.investmentBalance >= floor
    BY DEF UsersFrom
  <2>2. \A v \in User : v.investmentBalance \in Int
    BY DEF User
  <2>3. QED
    BY <2>1, <2>2 DEF UsersFrom
<1>3. ASSUME NEW u \in U
      PROVE  /\ \A p \in Passwords : [u EXCEPT !.password = p] \in U
             /\ \A a \in Int : [u EXCEPT !.balance = a] \in U
             /\ \A k \in Nat : [u EXCEPT !.investmentBalance = @ + k] \in U
             /\ \A c \in Cards : [u EXCEPT !.cards = Append(@, c)] \in U
             /\ \A n \in Names \cup {NoName} :
                  n = NoName \/ n \notin Elements(u.friends) =>
                      [u EXCEPT !.friends = Append(@, n)] \in U
  <2>1. \A v \in User : SameHoldings(v, u) => v \in U
    BY <1>2 DEF SameHoldings
  <2>2. \A k \in Nat : [u EXCEPT !.investmentBalance = @ + k] \in U
    <3>1. ASSUME NEW k \in Nat
          PROVE  LET v == [u EXCEPT !.investmentBalance = @ + k]
                 IN v \in User /\ v.investmentBalance >= u.investmentBalance
      <4> DEFINE n == u.investmentBalance + k
      <4>1. n \in Int /\ n >= u.investmentBalance
        BY <1>2
      <4>2. [u EXCEPT !.investmentBalance = @ + k] =
              [u EXCEPT !.investmentBalance = n]
        OBVIOUS
      <4> HIDE DEF n
      <4>3. QED
        BY <1>2, <4>1, <4>2 DEF User
    <3>2. QED
      BY <1>2, <3>1
  <2>3. U \subseteq User
    BY DEF UsersFrom
  <2> HIDE DEF U
  <2>4. QED
    BY <2>1, <2>2, <2>3, OtherFieldsClosed
<1>4. ASSUME NEW u \in U, NEW s \in Symbols, NEW q \in Int, NEW p \in Int
      PROVE  /\ CanBuy(u, q, p) => Bought(u, s, q, p) \in U
             /\ CanSell(u, s, q) /\ p >= 0 => Sold(u, s, q, p) \in U
  <2>1. /\ Bought(u, s, q, p) \in User /\ Sold(u, s, q, p) \in User
        /\ q * p \in Int
    BY <1>2, TradedTypes
  <2>2. /\ Bought(u, s, q, p).investmentBalance = u.investmentBalance - q * p
        /\ Sold(u, s, q, p).investmentBalance = u.investmentBalance + q * p
    BY <1>2 DEF Bought, Sold, User
  <2>3. ASSUME CanBuy(u, q, p)
        PROVE  Bought(u, s, q, p) \in U
    <3>1. u.investmentBalance - q * p >= 0
      BY <1>2, <2>1, <2>3 DEF CanBuy
    <3>2. u.investmentBalance - q * p >= floor
      BY <1>2, <2>1, <3>1
    <3>3. QED
      BY <2>1, <2>2, <3>2 DEF UsersFrom
  <2>4. ASSUME CanSell(u, s, q), p >= 0
        PROVE  Sold(u, s, q, p) \in U
    <3>1. q * p >= 0
      BY <2>4 DEF CanSell
    <3>2. u.investmentBalance + q * p >= u.investmentBalance
      BY <1>2, <2>1, <3>1
    <3>3. QED
      BY <1>2, <2>1, <2>2, <3>2
  <2>5. QED
    BY <2>3, <2>4
<1> HIDE DEF U
<1>5. QED
  BY <1>1, <1>3, <1>4 DEF Closed, U

HoldingUsers == {u \in User : \A s \in Symbols : u.stock[s] >= NotHeld}

\* A sale is checked against the shares of the very object it changes.
LEMMA HoldingClosed == Closed(HoldingUsers) /\ AnyMoney(HoldingUsers)
<1>1. Mixable(HoldingUsers)
  <2>1. BlankUser \in HoldingUsers
    BY UserClosed DEF Closed, Mixable, HoldingUsers, BlankUser, NotHeld
  <2>2. ASSUME NEW a \in HoldingUsers, NEW b \in HoldingUsers,
               NEW c \in HoldingUsers, NEW e \in HoldingUsers,
               NEW f \in HoldingUsers, NEW g \in HoldingUsers
        PROVE  [password |-> a.password, balance |-> b.balance,
                investmentBalance |-> c.investmentBalance,
                friends |-> e.friends, cards |-> f.cards,
                stock |-> g.stock] \in HoldingUsers
    <3>1. [password |-> a.password, balance |-> b.balance,
           investmentBalance |-> c.investmentBalance, friends |-> e.friends,
           cards |-> f.cards, stock |-> g.stock] \in User
      BY UserClosed, MixedIn DEF Closed, HoldingUsers
    <3>2. QED
      BY <3>1 DEF HoldingUsers
  <2>3. QED
    BY <2>1, <2>2 DEF Mixable, HoldingUsers
<1>2. ASSUME NEW u \in HoldingUsers, NEW v \in User, v.stock = u.stock
      PROVE  v \in HoldingUsers
  BY <1>2 DEF HoldingUsers
<1>3. ASSUME NEW u \in HoldingUsers
      PROVE  /\ u \in User
             /\ \A p \in Passwords : [u EXCEPT !.password = p] \in HoldingUsers
             /\ \A a \in Int : [u EXCEPT !.balance = a] \in HoldingUsers
             /\ \A c \in Cards :
                  [u EXCEPT !.cards = Append(@, c)] \in HoldingUsers
             /\ \A n \in Names \cup {NoName} :
                  n = NoName \/ n \notin Elements(u.friends) =>
                      [u EXCEPT !.friends = Append(@, n)] \in HoldingUsers
  <2>1. u \in User /\ HoldingUsers \subseteq User
    BY DEF HoldingUsers
  <2>2. \A v \in User : SameHoldings(v, u) => v \in HoldingUsers
    BY <1>2 DEF SameHoldings
  <2>3. QED
    BY <2>1, <2>2, OtherFieldsClosed
<1>4. ASSUME NEW u \in HoldingUsers, NEW m \in Int
      PROVE  [u EXCEPT !.investmentBalance = m] \in HoldingUsers
  <2>1. u \in User
    BY <1>3
  <2>2. /\ [u EXCEPT !.investmentBalance = m] \in User
        /\ [u EXCEPT !.investmentBalance = m].stock = u.stock
    BY <2>1 DEF User
  <2>3. QED
    BY <1>2, <2>2
<1>5. ASSUME NEW u \in HoldingUsers, NEW k \in Nat
      PROVE  [u EXCEPT !.investmentBalance = @ + k] \in HoldingUsers
  <2>1. u.investmentBalance + k \in Int
    BY <1>3 DEF User
  <2>2. QED
    BY <1>4, <2>1
<1>6. ASSUME NEW u \in HoldingUsers, NEW s \in Symbols, NEW q \in Int,
             NEW p \in Int
      PROVE  /\ CanBuy(u, q, p) => Bought(u, s, q, p) \in HoldingUsers
             /\ CanSell(u, s, q) => Sold(u, s, q, p) \in HoldingUsers
  <2>1. /\ u \in User /\ u.stock \in [Symbols -> Int]
        /\ \A t \in Symbols : u.stock[t] >= NotHeld
    BY DEF HoldingUsers, User
  <2>2. Bought(u, s, q, p) \in User /\ Sold(u, s, q, p) \in User
    BY <2>1, TradedTypes
  <2>3. /\ Bought(u, s, q, p).stock
             = [u.stock EXCEPT ![s] = Holding(u, s) + q]
        /\ Sold(u, s, q, p).stock
             = [u.stock EXCEPT ![s] = IF @ = q THEN NotHeld ELSE @ - q]
    BY <2>1 DEF Bought, Sold, User
  <2>4. CanBuy(u, q, p) => Bought(u, s, q, p) \in HoldingUsers
    <3>1. CanBuy(u, q, p) => Holding(u, s) + q >= NotHeld
      BY <2>1 DEF CanBuy, Holding, NotHeld
    <3>2. QED
      BY <2>1, <2>2, <2>3, <3>1 DEF HoldingUsers
  <2>5. CanSell(u, s, q) => Sold(u, s, q, p) \in HoldingUsers
    <3>1. CanSell(u, s, q) => u.stock[s] - q >= NotHeld
      BY <2>1 DEF CanSell, NotHeld
    <3>2. NotHeld >= NotHeld
      BY DEF NotHeld
    <3>3. QED
      BY <2>1, <2>2, <2>3, <3>1, <3>2 DEF HoldingUsers
  <2>6. QED
    BY <2>4, <2>5
<1>7. AnyMoney(HoldingUsers)
  BY <1>4 DEF AnyMoney
<1>8. QED
  BY <1>1, <1>3, <1>5, <1>6, <1>7 DEF Closed

DistinctUsers == {u \in User : NoRepeats(u)}

\* A name is appended to a friend list only when it is not in it.
LEMMA DistinctClosed == Closed(DistinctUsers) /\ AnyMoney(DistinctUsers)
<1>1. Mixable(DistinctUsers)
  <2>1. BlankUser \in DistinctUsers
    BY UserClosed DEF Closed, Mixable, DistinctUsers, NoRepeats, BlankUser
  <2>2. ASSUME NEW a \in DistinctUsers, NEW b \in DistinctUsers,
               NEW c \in DistinctUsers, NEW e \in DistinctUsers,
               NEW f \in DistinctUsers, NEW g \in DistinctUsers
        PROVE  [password |-> a.password, balance |-> b.balance,
                investmentBalance |-> c.investmentBalance,
                friends |-> e.friends, cards |-> f.cards,
                stock |-> g.stock] \in DistinctUsers
    <3>1. [password |-> a.password, balance |-> b.balance,
           investmentBalance |-> c.investmentBalance, friends |-> e.friends,
           cards |-> f.cards, stock |-> g.stock] \in User
      BY UserClosed, MixedIn DEF Closed, DistinctUsers
    <3>2. QED
      BY <3>1 DEF DistinctUsers, NoRepeats
  <2>3. QED
    BY <2>1, <2>2 DEF Mixable, DistinctUsers
<1>2. ASSUME NEW u \in DistinctUsers, NEW v \in User, v.friends = u.friends
      PROVE  v \in DistinctUsers
  BY <1>2 DEF DistinctUsers, NoRepeats
<1>3. ASSUME NEW u \in DistinctUsers, NEW n \in Names \cup {NoName},
             n = NoName \/ n \notin Elements(u.friends)
      PROVE  [u EXCEPT !.friends = Append(@, n)] \in DistinctUsers
  <2> DEFINE v == [u EXCEPT !.friends = Append(@, n)]
             fs == u.friends
  <2>1. /\ u \in User /\ NoRepeats(u)
        /\ fs \in Seq(Names \cup {NoName})
    BY DEF DistinctUsers, User
  <2>2. v \in User /\ v.friends = Append(fs, n)
    BY <1>3, <2>1, UserClosed DEF Closed, User
  <2>3. ASSUME NEW i \in DOMAIN v.friends, NEW j \in DOMAIN v.friends,
               v.friends[i] \in Names, v.friends[i] = v.friends[j]
        PROVE  i = j
    <3>1. /\ DOMAIN v.friends = 1..(Len(fs) + 1) /\ Len(fs) \in Nat
          /\ DOMAIN fs = 1..Len(fs)
          /\ v.friends[Len(fs) + 1] = n
          /\ \A k \in DOMAIN fs : v.friends[k] = fs[k]
      BY <2>1, <2>2
    <3>2. n \in Names => \A k \in DOMAIN fs : fs[k] # n
      BY <1>3, SessionAssumption DEF Elements
    <3>3. CASE i \in DOMAIN fs /\ j \in DOMAIN fs
      BY <2>1, <2>3, <3>1, <3>3 DEF NoRepeats
    <3>4. CASE i \notin DOMAIN fs \/ j \notin DOMAIN fs
      BY <2>3, <3>1, <3>2, <3>4
    <3>5. QED
      BY <3>3, <3>4
  <2>4. NoRepeats(v)
    BY <2>3 DEF NoRepeats
  <2>5. QED
    BY <2>2, <2>4 DEF DistinctUsers
<1>4. ASSUME NEW u \in DistinctUsers
      PROVE  /\ \A p \in Passwords : [u EXCEPT !.password = p] \in DistinctUsers
             /\ \A a \in Int : [u EXCEPT !.balance = a] \in DistinctUsers
             /\ \A k \in Nat :
                  [u EXCEPT !.investmentBalance = @ + k] \in DistinctUsers
             /\ \A c \in Cards :
                  [u EXCEPT !.cards = Append(@, c)] \in DistinctUsers
  <2>1. u \in User
    BY DEF DistinctUsers
  <2>2. /\ \A p \in Passwords : [u EXCEPT !.password = p] \in User
        /\ \A a \in Int : [u EXCEPT !.balance = a] \in User
        /\ \A k \in Nat : [u EXCEPT !.investmentBalance = @ + k] \in User
        /\ \A c \in Cards : [u EXCEPT !.cards = Append(@, c)] \in User
    BY <2>1, UserClosed DEF Closed
  <2>3. QED
    BY <1>2, <2>1, <2>2 DEF User
<1>5. ASSUME NEW u \in DistinctUsers, NEW s \in Symbols, NEW q \in Int,
             NEW p \in Int
      PROVE  Bought(u, s, q, p) \in DistinctUsers
             /\ Sold(u, s, q, p) \in DistinctUsers
  <2>1. u \in User
    BY DEF DistinctUsers
  <2>2. Bought(u, s, q, p) \in User /\ Sold(u, s, q, p) \in User
    BY <2>1, TradedTypes
  <2>3. /\ Bought(u, s, q, p).friends = u.friends
        /\ Sold(u, s, q, p).friends = u.friends
    BY <2>1 DEF Bought, Sold, User
  <2>4. QED
    BY <1>2, <2>2, <2>3
<1>6. ASSUME NEW u \in DistinctUsers, NEW m \in Int
      PROVE  [u EXCEPT !.investmentBalance = m] \in DistinctUsers
  <2>1. u \in User
    BY DEF DistinctUsers
  <2>2. /\ [u EXCEPT !.investmentBalance = m] \in User
        /\ [u EXCEPT !.investmentBalance = m].friends = u.friends
    BY <2>1 DEF User
  <2>3. QED
    BY <1>2, <2>2
<1>7. QED
  BY <1>1, <1>3, <1>4, <1>5, <1>6 DEF Closed, AnyMoney

--------------------------------------------------------------------------------
(* The theorems.                                                              *)

\* Every variable keeps its type, the SDK's positions in a queue stay in order
\* (no answer without a commit, no commit before the write is stored, nothing
\* stored that was not issued), and a session always has its user: the forced
\* uses of currUser behind the login screen find an object.
THEOREM TypeCorrect == Spec => []TypeOK
<1>1. InitialDocs \in ViewsOf(User)
  BY SessionAssumption DEF View, ViewsOf
<1>2. Init => Inv(User)
  BY <1>1, InitInv
<1>3. Inv(User) /\ [Next]_vars => Inv(User)'
  BY UserClosed, NextInv
<1>4. Inv(User) => TypeOK
  BY DEF Inv, Everywhere, TypeOK
<1>5. QED
  BY <1>2, <1>3, <1>4, PTL DEF Spec

\* If no account starts short of shares, no copy of an account is ever short: not
\* on the server, in a cache, on its way in a queue or a read, nor in the app,
\* whatever devices trade on whatever copies (BuyButton, SellButton).
THEOREM SharesAreHeld ==
    ASSUME InitialDocs \in ViewsOf(HoldingUsers)
    PROVE  Spec => []NobodyShort
<1>1. Init => Inv(HoldingUsers)
  BY InitInv
<1>2. Inv(HoldingUsers) /\ [Next]_vars => Inv(HoldingUsers)'
  BY HoldingClosed, NextInv
<1>3. Inv(HoldingUsers) => NobodyShort
  BY DEF Inv, NobodyShort, HoldingUsers
<1>4. QED
  BY <1>1, <1>2, <1>3, PTL DEF Spec

\* Whatever is typed and whatever prices are quoted, a step that overdraws an
\* investment account, or takes one deeper than any copy of any account was,
\* confirms a payment of a negative amount with its tenth or sells at a negative
\* price: purchases, the SDK's merging, resending and reading, and crashes
\* never do (BuyButton, SellButton, PayViewController's OK handler).
THEOREM OverdraftsHaveCause == Spec => OverdrawnByNegativesOnly
<1> DEFINE Kept == \A floor \in Floors :
                      NoneBelow(floor) => NoneBelow(floor)'
                                          \/ \E d \in Devices : Overdraws(d)
<1>1. Init => Inv(User)
  <2>1. InitialDocs \in ViewsOf(User)
    BY SessionAssumption DEF View, ViewsOf
  <2>2. QED
    BY <2>1, InitInv
<1>2. Inv(User) /\ [Next]_vars => Inv(User)'
  BY UserClosed, NextInv
<1>3. Inv(User) /\ [Next]_vars => Kept
  <2> SUFFICES ASSUME Inv(User), [Next]_vars, NEW floor \in Floors,
                      NoneBelow(floor), \A d \in Devices : ~Overdraws(d)
               PROVE  NoneBelow(floor)'
    OBVIOUS
  <2>1. floor \in Int /\ floor <= 0
    <3>1. \A n \in Names : docs[n] # NoDoc => docs[n].investmentBalance \in Int
      BY DEF Inv, Everywhere, StoreOver, ViewsOf, User
    <3>2. QED
      BY <3>1 DEF Floors
  <2>2. Inv(UsersFrom(floor))
    BY DEF Inv, NoneBelow, UsersFrom
  <2>3. Inv(UsersFrom(floor))'
    BY <2>1, <2>2, FromClosed, NextInv
  <2>4. QED
    BY <2>3 DEF Inv, NoneBelow, UsersFrom
<1>4. QED
  BY <1>1, <1>2, <1>3, PTL DEF Spec, OverdrawnByNegativesOnly

\* If no account starts with a friend listed twice, no copy of an account ever
\* lists one twice: the friend page's decision to offer the button, made when
\* the page opened, still holds when the button is tapped, reads delivered in
\* between included (FriendViewController).
THEOREM FriendListsDistinct ==
    ASSUME InitialDocs \in ViewsOf(DistinctUsers)
    PROVE  Spec => []FriendsDistinct
<1>1. Init => Inv(DistinctUsers)
  BY InitInv
<1>2. Inv(DistinctUsers) /\ [Next]_vars => Inv(DistinctUsers)'
  BY DistinctClosed, NextInv
<1>3. Inv(DistinctUsers) => FriendsDistinct
  BY DEF Inv, FriendsDistinct, DistinctUsers
<1>4. QED
  BY <1>1, <1>2, <1>3, PTL DEF Spec

--------------------------------------------------------------------------------
(* Who knows which account, on any number of phones: no update is issued for  *)
(* a document that will not be there, friends are accounts, and payees are    *)
(* known.  Behind all of them is one invariant: whatever name a phone holds,  *)
(* in a read, a friend list, a write or on the screen, it has met as an       *)
(* account, in its cache or in a sign-up of its own that is ahead.            *)
(*                                                                            *)
(* The server is taken to refuse nothing (~MayRefuse): a sign-up that is      *)
(* refused leaves the phone with an account that is nowhere else.             *)

Present(view) == {n \in Names : view[n] # NoDoc}

\* The accounts that the writes of ws before the i-th create.
CreatedBefore(ws, i) ==
    {ws[j].doc : j \in {k \in DOMAIN ws : k < i /\ ws[k].set}}

\* The accounts phone d has met when it issues its i-th pending write, and now.
KnownBefore(d, i) == Present(cache[d]) \cup CreatedBefore(queue[d], i)
Known(d) == KnownBefore(d, Len(queue[d]) + 1)

\* Users who do not wait for a read may add the name of the blank User().
Blank == IF Patient THEN {} ELSE {NoName}

Among(u, accounts) == Elements(u.friends) \subseteq accounts \cup Blank

SelfContained(view) ==
    \A n \in Present(view) : Among(view[n], Present(view))

\* The i-th pending write of d: an update knows its document, a friend list
\* its names; what the server has answered or a read has brought is there.
WriteBacked(d, i) ==
    LET w == queue[d][i]
    IN /\ w.set => w.mask = Fields
       /\ ~w.set => w.doc \in KnownBefore(d, i)
       /\ Among(w.value, KnownBefore(d, i))
       /\ i <= applied[d] => w.doc \in Present(docs)
       /\ i <= covered[d] => w.doc \in Present(cache[d])

QueueBacked(d) == \A i \in DOMAIN queue[d] : WriteBacked(d, i)

CacheBacked(d) ==
    Present(cache[d]) \subseteq Present(docs) /\ SelfContained(cache[d])

ViewBacked(d, view) == Present(view) \subseteq Known(d) /\ SelfContained(view)

ReadsBacked(d) == \A i \in DOMAIN loads[d] : ViewBacked(d, loads[d][i].view)

StoreBacked ==
    /\ SelfContained(docs)
    /\ \A d \in Devices : CacheBacked(d) /\ QueueBacked(d) /\ ReadsBacked(d)

\* The accounts the session of d is about: those in userDatabase, or, once a
\* read has replaced that array, those the phone has met.
Circle(d) == IF own[d] = NoDoc THEN Present(userDatabase[d]) ELSE Known(d)

\* The user who is logged in, and what the screen shows, are of that circle.
UserBacked(d) ==
    session[d] # NoName =>
        /\ session[d] \in Known(d)
        /\ Among(CurrUser(d), Circle(d))
        /\ screen[d].at = "friend" => screen[d].who \in Circle(d) \cup Blank
        /\ screen[d].at \in {"pay", "sheet", "confirm"} =>
               screen[d].who \in Elements(recipients[d])
        /\ own[d] = NoDoc => screen[d].found \subseteq Present(userDatabase[d])

\* With users who wait, no read replaces the array during a session.
Waited(d) ==
    Patient => own[d] = NoDoc /\ (session[d] # NoName => loads[d] = <<>>)

SessionBacked(d) ==
    ViewBacked(d, userDatabase[d]) /\ UserBacked(d) /\ Waited(d)

AllBacked == StoreBacked /\ \A d \in Devices : SessionBacked(d)

--------------------------------------------------------------------------------
(* Views, writes and what they make known.                                    *)

\* The types of the variables, as the steps below need them.
LEMMA Types ==
    ASSUME Inv(User)
    PROVE  /\ docs \in ViewsOf(User)
           /\ cache \in [Devices -> ViewsOf(User)]
           /\ queue \in [Devices -> Seq(WritesOf(User))]
           /\ loads \in [Devices -> Seq(LoadsOf(User))]
           /\ durable \in [Devices -> Nat] /\ applied \in [Devices -> Nat]
           /\ covered \in [Devices -> Nat]
           /\ userDatabase \in [Devices -> ViewsOf(User)]
           /\ own \in [Devices -> User \cup {NoDoc}]
           /\ loaded \in [Devices -> BOOLEAN]
           /\ session \in [Devices -> Names \cup {NoName}]
           /\ recipients \in [Devices -> Seq(Names \cup {NoName})]
           /\ screen \in [Devices -> Screen]
           /\ taps \in [Devices -> Nat]
  BY DEF Inv, Everywhere, StoreOver, StoreCounters, SessionOver, SessionTypes

\* The positions of the SDK in a queue are in order and within it.
LEMMA Positions ==
    ASSUME Inv(User), NEW d \in Devices
    PROVE  /\ covered[d] \in Nat /\ applied[d] \in Nat /\ durable[d] \in Nat
           /\ Len(queue[d]) \in Nat
           /\ covered[d] <= applied[d] /\ applied[d] <= durable[d]
           /\ durable[d] <= Len(queue[d])
           /\ DOMAIN queue[d] = 1..Len(queue[d])
<1>1. queue[d] \in Seq(WritesOf(User))
  BY Types
<1>2. QED
  BY <1>1 DEF Inv, Everywhere, StoreCounters

\* A pending write is a write.
LEMMA WriteType ==
    ASSUME NEW ws \in Seq(WritesOf(User)), NEW i \in DOMAIN ws
    PROVE  /\ ws[i] \in WritesOf(User)
           /\ ws[i].doc \in Names /\ ws[i].set \in BOOLEAN
           /\ ws[i].mask \in SUBSET Fields /\ ws[i].value \in User
<1>1. ws[i] \in WritesOf(User)
  OBVIOUS
<1>2. QED
  BY <1>1 DEF WritesOf

\* More accounts are known later in a queue, and none that is no name.
LEMMA KnownGrows ==
    ASSUME Inv(User), NEW d \in Devices, NEW i \in Int, NEW j \in Int, i <= j
    PROVE  /\ KnownBefore(d, i) \subseteq KnownBefore(d, j)
           /\ KnownBefore(d, j) \subseteq Known(d)
           /\ Known(d) \subseteq Names
           /\ Present(cache[d]) \subseteq KnownBefore(d, i)
<1>1. queue[d] \in Seq(WritesOf(User))
  BY Types
<1>2. DOMAIN queue[d] = 1..Len(queue[d]) /\ Len(queue[d]) \in Nat
  BY <1>1
<1>3. CreatedBefore(queue[d], i) \subseteq CreatedBefore(queue[d], j)
  BY <1>2 DEF CreatedBefore
<1>4. CreatedBefore(queue[d], j) \subseteq CreatedBefore(queue[d], Len(queue[d]) + 1)
  BY <1>2 DEF CreatedBefore
<1>5. CreatedBefore(queue[d], Len(queue[d]) + 1) \subseteq Names
  BY <1>1, WriteType DEF CreatedBefore
<1>6. QED
  BY <1>3, <1>4, <1>5 DEF KnownBefore, Known, Present

\* A blank user has no friends.
LEMMA BlankAmong ==
    ASSUME NEW accounts
    PROVE  Among(BlankUser, accounts) /\ BlankUser \in User /\ BlankUser # NoDoc
<1>1. BlankUser \in User
  BY UserClosed DEF Closed, Mixable
<1>2. Elements(BlankUser.friends) = {}
  BY DEF BlankUser, Elements
<1>3. QED
  BY <1>1, <1>2, SessionAssumption DEF Among

\* An update brings friends from the users it is made of.
LEMMA PatchedAmong ==
    ASSUME NEW u, NEW v, NEW fields, NEW accounts,
           Among(u, accounts), Among(v, accounts)
    PROVE  Among(Patched(u, fields, v), accounts)
<1>1. \/ Patched(u, fields, v).friends = u.friends
      \/ Patched(u, fields, v).friends = v.friends
  BY DEF Patched
<1>2. QED
  BY <1>1 DEF Among

\* Among is monotonic.
LEMMA AmongMore ==
    ASSUME NEW u, NEW some, NEW more, Among(u, some), some \subseteq more
    PROVE  Among(u, more)
  BY DEF Among

\* Documents are users where they are present.
LEMMA PresentUser ==
    ASSUME NEW view \in ViewsOf(User)
    PROVE  /\ \A n \in Present(view) : n \in Names /\ view[n] \in User
           /\ \A n \in Names : view[n] \in User => n \in Present(view)
  BY SessionAssumption DEF Present, ViewsOf

\* What the server or a cache has after a write whose friends it knows.
LEMMA AppliedBacked ==
    ASSUME NEW view \in ViewsOf(User), NEW w \in WritesOf(User),
           SelfContained(view), Among(w.value, Present(view)),
           Accepts(view, w)
    PROVE  /\ Present(Applied(view, w)) = Present(view) \cup {w.doc}
           /\ SelfContained(Applied(view, w))
<1>1. w.doc \in Names /\ w.value \in User
  BY DEF WritesOf
<1> DEFINE u == IF w.set THEN w.value ELSE Patched(view[w.doc], w.mask, w.value)
<1>2. Applied(view, w) = [view EXCEPT ![w.doc] = u]
  BY DEF Applied
<1>3. w.set \/ w.doc \in Present(view)
  BY <1>1 DEF Accepts, Present
<1>4. u \in User
  <2>1. CASE w.set
    BY <1>1, <2>1
  <2>2. CASE ~w.set
    <3>1. view[w.doc] \in User
      BY <1>3, <2>2, PresentUser
    <3>2. QED
      BY <1>1, <2>2, <3>1, UserClosed, PatchedIn DEF Closed
  <2>3. QED
    BY <2>1, <2>2
<1>5. Among(u, Present(view) \cup {w.doc})
  <2>1. ~w.set => Among(view[w.doc], Present(view))
    BY <1>3 DEF SelfContained
  <2>2. Among(u, Present(view))
    BY <2>1, PatchedAmong
  <2>3. QED
    BY <2>2 DEF Among
<1> HIDE DEF u
<1>6. Present(Applied(view, w)) = Present(view) \cup {w.doc}
  BY <1>1, <1>2, <1>4, SessionAssumption DEF Present, ViewsOf
<1>7. ASSUME NEW n \in Present(view) \cup {w.doc}
      PROVE  Among(Applied(view, w)[n], Present(view) \cup {w.doc})
  <2>1. CASE n = w.doc
    BY <1>1, <1>2, <1>5, <2>1 DEF ViewsOf
  <2>2. CASE n # w.doc
    <3>1. Applied(view, w)[n] = view[n] /\ Among(view[n], Present(view))
      BY <1>2, <2>2 DEF SelfContained, ViewsOf, Present
    <3>2. QED
      BY <3>1, AmongMore
  <2>3. QED
    BY <2>1, <2>2
<1>8. QED
  BY <1>6, <1>7 DEF SelfContained

\* What a query finds is again self-contained, if every friend a write adds is
\* in the view or has been created by then.
LEMMA OverlayBacked ==
    ASSUME NEW view \in ViewsOf(User), NEW ws \in Seq(WritesOf(User)),
           SelfContained(view),
           \A i \in DOMAIN ws :
               Among(ws[i].value, Present(view) \cup CreatedBefore(ws, i))
    PROVE  /\ Present(Overlay(view, ws))
              = Present(view) \cup CreatedBefore(ws, Len(ws) + 1)
           /\ SelfContained(Overlay(view, ws))
<1> DEFINE all == Present(view) \cup CreatedBefore(ws, Len(ws) + 1)
<1>1. DOMAIN ws = 1..Len(ws) /\ Len(ws) \in Nat
  OBVIOUS
<1>2. \A n \in Names : Exists(view, ws, n) <=> n \in all
  BY <1>1, WriteType DEF Exists, Present, CreatedBefore
<1>3. all \subseteq Names
  BY WriteType DEF Present, CreatedBefore
<1>4. Present(Overlay(view, ws)) = all
  <2>1. \A n \in Names : Overlaid(view, ws, n) # NoDoc
    BY OverlaidIn, UserClosed, SessionAssumption DEF Closed
  <2>2. QED
    BY <1>2, <1>3, <2>1 DEF Overlay, Present
<1>5. ASSUME NEW n \in all
      PROVE  Among(Overlay(view, ws)[n], all)
  <2> DEFINE i == LastWrite(ws, n, "friends")
             from == Source(view, ws, n, "friends")
  <2>1. Overlay(view, ws)[n].friends = from.friends
    BY <1>2, <1>3 DEF Overlay, Overlaid
  <2>2. Among(from, all)
    <3>1. CASE i # 0
      <4>1. i \in DOMAIN ws
        BY <3>1 DEF LastWrite
      <4>2. CreatedBefore(ws, i) \subseteq CreatedBefore(ws, Len(ws) + 1)
        BY <1>1, <4>1 DEF CreatedBefore
      <4>3. Among(ws[i].value, all)
        <5>1. Among(ws[i].value, Present(view) \cup CreatedBefore(ws, i))
          BY <4>1
        <5>2. QED
          BY <4>2, <5>1 DEF Among
      <4>4. QED
        BY <3>1, <4>3 DEF Source
    <3>2. CASE i = 0
      <4>1. from = IF view[n] = NoDoc THEN BlankUser ELSE view[n]
        BY <3>2 DEF Source
      <4>2. view[n] # NoDoc => Among(view[n], Present(view))
        BY <1>3 DEF SelfContained, Present
      <4>3. QED
        BY <4>1, <4>2, BlankAmong, AmongMore
    <3>3. QED
      BY <3>1, <3>2
  <2>3. QED
    BY <2>1, <2>2 DEF Among
<1>6. QED
  BY <1>4, <1>5 DEF SelfContained

\* A prefix of a queue creates what the queue does up to there.
LEMMA PrefixCreates ==
    ASSUME NEW ws \in Seq(WritesOf(User)), NEW k \in 0..Len(ws),
           NEW more \in Seq(WritesOf(User)), Len(more) >= k,
           \A i \in 1..k : more[i] = ws[i],
           NEW j \in 1..(k + 1)
    PROVE  CreatedBefore(more, j) = CreatedBefore(ws, j)
  BY DEF CreatedBefore

\* Without its first write a queue creates the same, that account apart.
LEMMA TailCreates ==
    ASSUME NEW ws \in Seq(WritesOf(User)), ws # <<>>, NEW i \in Nat \ {0}
    PROVE  /\ CreatedBefore(Tail(ws), i) \subseteq CreatedBefore(ws, i + 1)
           /\ CreatedBefore(ws, i + 1)
              \subseteq CreatedBefore(Tail(ws), i)
                        \cup (IF ws[1].set THEN {ws[1].doc} ELSE {})
<1>1. /\ Len(Tail(ws)) = Len(ws) - 1 /\ Len(ws) \in Nat \ {0}
      /\ DOMAIN ws = 1..Len(ws) /\ DOMAIN Tail(ws) = 1..(Len(ws) - 1)
      /\ \A j \in 1..(Len(ws) - 1) : Tail(ws)[j] = ws[j + 1]
  OBVIOUS
<1>2. ASSUME NEW n \in CreatedBefore(Tail(ws), i)
      PROVE  n \in CreatedBefore(ws, i + 1)
  <2>1. PICK j \in DOMAIN Tail(ws) :
            j < i /\ Tail(ws)[j].set /\ n = Tail(ws)[j].doc
    BY DEF CreatedBefore
  <2>2. j + 1 \in DOMAIN ws /\ j + 1 < i + 1 /\ ws[j + 1] = Tail(ws)[j]
    BY <1>1, <2>1
  <2>3. QED
    BY <2>1, <2>2 DEF CreatedBefore
<1>3. ASSUME NEW n \in CreatedBefore(ws, i + 1)
      PROVE  n \in CreatedBefore(Tail(ws), i)
                   \cup (IF ws[1].set THEN {ws[1].doc} ELSE {})
  <2>1. PICK j \in DOMAIN ws : j < i + 1 /\ ws[j].set /\ n = ws[j].doc
    BY DEF CreatedBefore
  <2>2. CASE j = 1
    BY <2>1, <2>2
  <2>3. CASE j # 1
    <3>1. /\ j - 1 \in DOMAIN Tail(ws) /\ j - 1 < i
          /\ Tail(ws)[j - 1] = ws[j]
      BY <1>1, <2>1, <2>3
    <3>2. QED
      BY <2>1, <3>1 DEF CreatedBefore
  <2>4. QED
    BY <2>2, <2>3
<1>4. QED
  BY <1>2, <1>3

--------------------------------------------------------------------------------
(* The store.                                                                 *)

\* A phone whose part of the store is left alone stays in order while the
\* server's documents become more.
LEMMA OtherStore ==
    ASSUME StoreBacked, NEW e \in Devices,
           Present(docs) \subseteq Present(docs)',
           cache'[e] = cache[e], queue'[e] = queue[e], loads'[e] = loads[e],
           applied'[e] = applied[e], covered'[e] = covered[e]
    PROVE  /\ CacheBacked(e)' /\ QueueBacked(e)' /\ ReadsBacked(e)'
           /\ Known(e)' = Known(e)
<1>1. CacheBacked(e) /\ QueueBacked(e) /\ ReadsBacked(e)
  BY DEF StoreBacked
<1>2. Known(e)' = Known(e) /\ \A i : KnownBefore(e, i)' = KnownBefore(e, i)
  BY DEF Known, KnownBefore, Present
<1>3. QueueBacked(e)'
  BY <1>1, <1>2 DEF QueueBacked, WriteBacked, Present
<1>4. QED
  BY <1>1, <1>2, <1>3 DEF CacheBacked, ReadsBacked, ViewBacked, Present

\* A step of the store of one phone.
LEMMA StoreStep ==
    ASSUME StoreBacked, Inv(User), NEW d \in Devices,
           SelfContained(docs)', Present(docs) \subseteq Present(docs)',
           NEW c, NEW q, NEW reads, NEW a, NEW v,
           cache' = [cache EXCEPT ![d] = c],
           queue' = [queue EXCEPT ![d] = q],
           loads' = [loads EXCEPT ![d] = reads],
           applied' = [applied EXCEPT ![d] = a],
           covered' = [covered EXCEPT ![d] = v],
           CacheBacked(d)', QueueBacked(d)', ReadsBacked(d)'
    PROVE  /\ StoreBacked'
           /\ \A e \in Devices \ {d} : Known(e)' = Known(e)
<1>1. ASSUME NEW e \in Devices \ {d}
      PROVE  /\ CacheBacked(e)' /\ QueueBacked(e)' /\ ReadsBacked(e)'
             /\ Known(e)' = Known(e)
  <2>1. /\ cache'[e] = cache[e] /\ queue'[e] = queue[e]
        /\ loads'[e] = loads[e] /\ applied'[e] = applied[e]
        /\ covered'[e] = covered[e]
    BY Types
  <2>2. QED
    BY <2>1, OtherStore
<1>2. QED
  BY <1>1 DEF StoreBacked

\* Reads stay backed while the phone forgets no account.
LEMMA ReadsStay ==
    ASSUME NEW d \in Devices, ReadsBacked(d), loads'[d] = loads[d],
           Known(d) \subseteq Known(d)'
    PROVE  ReadsBacked(d)'
  BY DEF ReadsBacked, ViewBacked, Present, SelfContained, Among, Blank

\* The worker queue's storing of a write changes no account.
LEMMA PersistBacked ==
    ASSUME StoreBacked, Inv(User), NEW d \in Devices, Persist(d)
    PROVE  StoreBacked' /\ \A e \in Devices : Known(e) \subseteq Known(e)'
<1> DEFINE reads == [i \in DOMAIN loads[d] |-> MovedUp(loads[d][i])]
<1>1. /\ loads' = [loads EXCEPT ![d] = reads]
      /\ UNCHANGED <<docs, cache, queue, applied, covered>>
  BY DEF Persist
<1>2. /\ cache' = [cache EXCEPT ![d] = cache[d]]
      /\ queue' = [queue EXCEPT ![d] = queue[d]]
      /\ applied' = [applied EXCEPT ![d] = applied[d]]
      /\ covered' = [covered EXCEPT ![d] = covered[d]]
      /\ loads'[d] = reads
  BY <1>1, Types
<1>3. \A e \in Devices : Known(e)' = Known(e)
  BY <1>1 DEF Known, KnownBefore
<1>4. CacheBacked(d)' /\ QueueBacked(d)' /\ SelfContained(docs)'
  BY <1>1 DEF StoreBacked, CacheBacked, QueueBacked, WriteBacked, KnownBefore
<1>5. ReadsBacked(d)'
  <2>1. \A i \in DOMAIN loads[d] : reads[i].view = loads[d][i].view
    <3>1. loads[d] \in Seq(LoadsOf(User))
      BY Types
    <3>2. \A i \in DOMAIN loads[d] : loads[d][i] \in LoadsOf(User)
      BY <3>1
    <3>3. QED
      BY <3>2 DEF MovedUp, LoadsOf
  <2>2. ReadsBacked(d)
    BY DEF StoreBacked
  <2>3. QED
    BY <1>2, <1>3, <2>1, <2>2 DEF ReadsBacked, ViewBacked
<1> HIDE DEF reads
<1>6. StoreBacked'
  BY <1>1, <1>2, <1>4, <1>5, StoreStep
<1>7. QED
  BY <1>3, <1>6

\* A commit makes its document present, and knows the friends it brings.
LEMMA CommitBacked ==
    ASSUME StoreBacked, Inv(User), NEW d \in Devices, Commit(d)
    PROVE  StoreBacked' /\ \A e \in Devices : Known(e) \subseteq Known(e)'
<1> DEFINE k == applied[d] + 1
           w == queue[d][k]
<1>1. /\ Accepts(docs, w) /\ docs' = Applied(docs, w)
      /\ applied' = [applied EXCEPT ![d] = k] /\ k <= durable[d]
      /\ UNCHANGED <<cache, queue, durable, covered, loads>>
  BY Positions DEF Commit
<1>2. /\ cache' = [cache EXCEPT ![d] = cache[d]]
      /\ queue' = [queue EXCEPT ![d] = queue[d]]
      /\ loads' = [loads EXCEPT ![d] = loads[d]]
      /\ covered' = [covered EXCEPT ![d] = covered[d]]
      /\ applied'[d] = k
  BY <1>1, Types
<1>3. /\ CacheBacked(d) /\ QueueBacked(d) /\ ReadsBacked(d)
      /\ SelfContained(docs)
  BY DEF StoreBacked
<1>4. k \in DOMAIN queue[d] /\ w \in WritesOf(User) /\ k \in Nat
      /\ queue[d] \in Seq(WritesOf(User))
  <2>1. k \in DOMAIN queue[d] /\ k \in Nat
    BY <1>1, Positions
  <2>2. QED
    BY <2>1, Types
<1>5. KnownBefore(d, k) \subseteq Present(docs)
  <2>1. \A i \in DOMAIN queue[d] : i < k => queue[d][i].doc \in Present(docs)
    BY <1>3, Positions DEF QueueBacked, WriteBacked
  <2>2. CreatedBefore(queue[d], k) \subseteq Present(docs)
    BY <2>1 DEF CreatedBefore
  <2>3. QED
    BY <1>3, <2>2 DEF KnownBefore, CacheBacked
<1>6. /\ Present(docs)' = Present(docs) \cup {w.doc}
      /\ SelfContained(docs)'
  <2>1. Among(w.value, KnownBefore(d, k))
    BY <1>3, <1>4 DEF QueueBacked, WriteBacked
  <2>2. Among(w.value, Present(docs))
    BY <1>5, <2>1, AmongMore
  <2>3. docs \in ViewsOf(User)
    BY Types
  <2>4. /\ Present(Applied(docs, w)) = Present(docs) \cup {w.doc}
        /\ SelfContained(Applied(docs, w))
    BY <1>1, <1>3, <1>4, <2>2, <2>3, AppliedBacked
  <2>5. QED
    BY <1>1, <2>4 DEF Present, SelfContained, Among, Blank
<1>7. /\ \A e \in Devices : Known(e)' = Known(e)
      /\ \A i : KnownBefore(d, i)' = KnownBefore(d, i)
  BY <1>1 DEF Known, KnownBefore
<1>8. CacheBacked(d)' /\ ReadsBacked(d)'
  <2>1. CacheBacked(d)'
    BY <1>1, <1>3, <1>6 DEF CacheBacked
  <2>2. loads'[d] = loads[d] /\ Known(d) \subseteq Known(d)'
    BY <1>1, <1>7
  <2>3. QED
    BY <1>3, <2>1, <2>2, ReadsStay
<1>9. QueueBacked(d)'
  <2> SUFFICES ASSUME NEW i \in DOMAIN queue[d]
               PROVE  WriteBacked(d, i)'
    BY <1>1 DEF QueueBacked
  <2>1. WriteBacked(d, i)
    BY <1>3 DEF QueueBacked
  <2>2. i <= k => queue[d][i].doc \in Present(docs)'
    <3>1. i <= k => i <= applied[d] \/ i = k
      BY <1>4, Positions
    <3>2. QED
      BY <1>6, <2>1, <3>1 DEF WriteBacked
  <2> HIDE DEF k, w
  <2>3. QED
    BY <1>1, <1>2, <1>7, <2>1, <2>2 DEF WriteBacked
<1> HIDE DEF k, w
<1>10. Present(docs) \subseteq Present(docs)'
  BY <1>6
<1>11. StoreBacked'
  BY <1>1, <1>2, <1>6, <1>8, <1>9, <1>10, StoreStep
<1>12. QED
  BY <1>7, <1>11

\* An answer takes the head of the queue into the cache: what the write made
\* known by its place in the queue is known by the cache from then on.
LEMMA AckBacked ==
    ASSUME StoreBacked, Inv(User), NEW d \in Devices, Ack(d)
    PROVE  StoreBacked' /\ \A e \in Devices : Known(e) \subseteq Known(e)'
<1> DEFINE w == queue[d][1]
           c == IF covered[d] > 0 THEN cache[d] ELSE Applied(cache[d], w)
           v == IF covered[d] > 0 THEN covered[d] - 1 ELSE covered[d]
<1>1. /\ queue[d] \in Seq(WritesOf(User)) /\ queue[d] # <<>>
      /\ DOMAIN queue[d] = 1..Len(queue[d]) /\ Len(queue[d]) \in Nat
      /\ 1 \in DOMAIN queue[d] /\ w \in WritesOf(User)
      /\ Head(queue[d]) = w
      /\ applied[d] \in Nat /\ 1 <= applied[d] /\ covered[d] \in Nat
  <2>1. queue[d] \in Seq(WritesOf(User)) /\ applied[d] > 0
    BY Types DEF Ack
  <2>2. Len(queue[d]) > 0
    BY <2>1, Positions
  <2>3. QED
    BY <2>1, <2>2, Positions
<1>2. /\ cache' = [cache EXCEPT ![d] = c]
      /\ queue' = [queue EXCEPT ![d] = Tail(queue[d])]
      /\ loads' = [loads EXCEPT ![d] = loads[d]]
      /\ applied' = [applied EXCEPT ![d] = applied[d] - 1]
      /\ covered' = [covered EXCEPT ![d] = v]
      /\ UNCHANGED <<docs, loads>>
  BY <1>1, Types DEF Ack
<1>3. /\ cache'[d] = c /\ queue'[d] = Tail(queue[d])
      /\ applied'[d] = applied[d] - 1 /\ covered'[d] = v
      /\ loads'[d] = loads[d]
  BY <1>2, Types
<1>4. /\ CacheBacked(d) /\ QueueBacked(d) /\ ReadsBacked(d)
      /\ SelfContained(docs)
  BY DEF StoreBacked
<1>5. KnownBefore(d, 1) = Present(cache[d])
  BY <1>1 DEF KnownBefore, CreatedBefore
<1>6. WriteBacked(d, 1)
  BY <1>1, <1>4 DEF QueueBacked
<1>7. /\ Present(cache[d]) \subseteq Present(c)
      /\ w.set => w.doc \in Present(c)
      /\ Present(c) \subseteq Present(docs)
      /\ SelfContained(c)
  <2>1. CASE covered[d] > 0
    <3>1. w.doc \in Present(cache[d])
      BY <1>1, <1>6, <2>1 DEF WriteBacked
    <3>2. QED
      BY <1>4, <2>1, <3>1 DEF CacheBacked
  <2>2. CASE ~(covered[d] > 0)
    <3>1. Accepts(cache[d], w)
      BY <1>5, <1>6 DEF WriteBacked, Accepts, Present
    <3>2. Among(w.value, Present(cache[d]))
      BY <1>5, <1>6 DEF WriteBacked
    <3>3. cache[d] \in ViewsOf(User) /\ SelfContained(cache[d])
      BY <1>4, Types DEF CacheBacked
    <3>4. /\ Present(Applied(cache[d], w)) = Present(cache[d]) \cup {w.doc}
          /\ SelfContained(Applied(cache[d], w))
      BY <1>1, <3>1, <3>2, <3>3, AppliedBacked
    <3>5. w.doc \in Present(docs)
      BY <1>1, <1>6 DEF WriteBacked
    <3>6. QED
      BY <1>4, <2>2, <3>4, <3>5 DEF CacheBacked
  <2>3. QED
    BY <2>1, <2>2
<1> HIDE DEF c, v
<1>8. ASSUME NEW i \in Nat \ {0}
      PROVE  KnownBefore(d, i + 1) \subseteq KnownBefore(d, i)'
  <2>1. /\ KnownBefore(d, i)' = Present(c) \cup CreatedBefore(Tail(queue[d]), i)
        /\ KnownBefore(d, i + 1)
           = Present(cache[d]) \cup CreatedBefore(queue[d], i + 1)
    BY <1>3 DEF KnownBefore, Present
  <2>2. CreatedBefore(queue[d], i + 1)
        \subseteq CreatedBefore(Tail(queue[d]), i)
                  \cup (IF w.set THEN {w.doc} ELSE {})
    BY <1>1, TailCreates
  <2>3. QED
    BY <1>7, <2>1, <2>2
<1>9. Known(d) \subseteq Known(d)'
  <2>1. PICK m \in Nat \ {0} : m = Len(queue[d])
    BY <1>1
  <2>2. KnownBefore(d, m + 1) \subseteq KnownBefore(d, m)'
    BY <1>8
  <2>3. Len(queue[d])' + 1 = m
    BY <1>1, <1>3, <2>1
  <2>4. QED
    BY <2>1, <2>2, <2>3 DEF Known, KnownBefore
<1>10. QueueBacked(d)'
  <2> SUFFICES ASSUME NEW i \in DOMAIN Tail(queue[d])
               PROVE  WriteBacked(d, i)'
    BY <1>3 DEF QueueBacked
  <2>1. /\ i \in Nat \ {0} /\ i + 1 \in DOMAIN queue[d]
        /\ Tail(queue[d])[i] = queue[d][i + 1]
    BY <1>1
  <2>2. WriteBacked(d, i + 1)
    BY <1>4, <2>1 DEF QueueBacked
  <2>3. KnownBefore(d, i + 1) \subseteq KnownBefore(d, i)'
    BY <1>8, <2>1
  <2>4. /\ i <= applied[d] - 1 => i + 1 <= applied[d]
        /\ i <= v => i + 1 <= covered[d]
    BY <1>1, <2>1 DEF v
  <2>5. queue'[d][i] = queue[d][i + 1]
    BY <1>3, <2>1
  <2>6. Among(queue[d][i + 1].value, KnownBefore(d, i)')
    BY <2>2, <2>3, AmongMore DEF WriteBacked
  <2>7. docs' = docs
    BY <1>2
  <2>8. QED
    BY <1>3, <1>7, <2>2, <2>3, <2>4, <2>5, <2>6, <2>7
    DEF WriteBacked, Present, Among, Blank
<1>11. CacheBacked(d)' /\ ReadsBacked(d)' /\ SelfContained(docs)'
       /\ Present(docs) \subseteq Present(docs)'
  <2>1. CacheBacked(d)'
    BY <1>2, <1>3, <1>7 DEF CacheBacked, Present, SelfContained, Among, Blank
  <2>2. ReadsBacked(d)'
    BY <1>3, <1>4, <1>9, ReadsStay
  <2>3. QED
    BY <1>2, <1>4, <2>1, <2>2 DEF SelfContained, Present, Among, Blank
<1>12. StoreBacked' /\ \A e \in Devices \ {d} : Known(e)' = Known(e)
  BY <1>2, <1>10, <1>11, StoreStep
<1>13. QED
  BY <1>9, <1>12

\* A server that refuses nothing rejects nothing: every pending update has its
\* document.
LEMMA NothingRejected ==
    ASSUME ~MayRefuse, StoreBacked, Inv(User), NEW d \in Devices
    PROVE  ~Reject(d)
<1> SUFFICES ASSUME Reject(d)
             PROVE  FALSE
  OBVIOUS
<1>1. 1 \in DOMAIN queue[d] /\ Head(queue[d]) = queue[d][1]
  <2>1. queue[d] \in Seq(WritesOf(User)) /\ Len(queue[d]) > 0
    BY Types, Positions DEF Reject
  <2>2. QED
    BY <2>1
<1>2. WriteBacked(d, 1) /\ CacheBacked(d)
  BY <1>1 DEF StoreBacked, QueueBacked
<1>3. KnownBefore(d, 1) = Present(cache[d])
  BY <1>1, Positions DEF KnownBefore, CreatedBefore
<1>4. Accepts(docs, queue[d][1])
  BY <1>2, <1>3 DEF WriteBacked, CacheBacked, Accepts, Present
<1>5. QED
  BY <1>1, <1>4 DEF Reject

\* A break forgets what was answered, and nothing else.
LEMMA BreakBacked ==
    ASSUME StoreBacked, Inv(User), NEW d \in Devices, Break(d)
    PROVE  StoreBacked' /\ \A e \in Devices : Known(e) \subseteq Known(e)'
<1>1. /\ applied' = [applied EXCEPT ![d] = 0]
      /\ covered' = [covered EXCEPT ![d] = 0]
      /\ UNCHANGED <<docs, cache, queue, durable, loads>>
  BY DEF Break
<1>2. \A e \in Devices : Known(e)' = Known(e)
  BY <1>1 DEF Known, KnownBefore
<1>3. ASSUME NEW e \in Devices, NEW i \in DOMAIN queue[e]
      PROVE  /\ i <= applied'[e] => i <= applied[e]
             /\ i <= covered'[e] => i <= covered[e]
  <2>1. i \in Nat \ {0}
    BY Positions
  <2>2. QED
    BY <1>1, <2>1, Types
<1>4. \A e \in Devices : QueueBacked(e)'
  BY <1>1, <1>3 DEF StoreBacked, QueueBacked, WriteBacked, KnownBefore
<1>5. StoreBacked'
  BY <1>1, <1>2, <1>4 DEF StoreBacked, CacheBacked, ReadsBacked, ViewBacked
<1>6. QED
  BY <1>2, <1>5

\* The result of a read, from the server or from the cache, is backed.
LEMMA AnswerBacked ==
    ASSUME StoreBacked, Inv(User), NEW d \in Devices,
           NEW view \in ViewsOf(User), SelfContained(view),
           Present(cache[d]) \subseteq Present(view)
    PROVE  /\ SelfContained(Overlay(view, Persisted(d)))
           /\ Present(Overlay(view, Persisted(d)))
              \subseteq Present(view) \cup Known(d)
<1> DEFINE ws == Persisted(d)
           k == durable[d]
<1>1. /\ queue[d] \in Seq(WritesOf(User)) /\ k \in 0..Len(queue[d])
      /\ ws \in Seq(WritesOf(User)) /\ Len(ws) = k
      /\ \A i \in 1..k : ws[i] = queue[d][i]
      /\ DOMAIN ws = 1..k
  BY Types, Positions DEF Persisted
<1> HIDE DEF ws, k
<1>2. \A j \in 1..(k + 1) : CreatedBefore(ws, j) = CreatedBefore(queue[d], j)
  <2> TAKE j \in 1..(k + 1)
  <2>1. k \in 0..Len(ws)
    BY <1>1
  <2>2. \A i \in 1..k : queue[d][i] = ws[i]
    BY <1>1
  <2>3. QED
    BY <1>1, <2>1, <2>2, PrefixCreates
<1>3. ASSUME NEW i \in DOMAIN ws
      PROVE  Among(ws[i].value, Present(view) \cup CreatedBefore(ws, i))
  <2>1. /\ i \in DOMAIN queue[d] /\ ws[i] = queue[d][i]
        /\ CreatedBefore(ws, i) = CreatedBefore(queue[d], i)
    BY <1>1, <1>2
  <2>2. Among(queue[d][i].value, KnownBefore(d, i))
    BY <2>1 DEF StoreBacked, QueueBacked, WriteBacked
  <2>3. QED
    BY <2>1, <2>2 DEF Among, KnownBefore
<1>4. /\ Present(Overlay(view, ws))
         = Present(view) \cup CreatedBefore(ws, Len(ws) + 1)
      /\ SelfContained(Overlay(view, ws))
  BY <1>1, <1>3, OverlayBacked
<1>5. CreatedBefore(ws, Len(ws) + 1) \subseteq Known(d)
  <2>1. CreatedBefore(ws, Len(ws) + 1) = CreatedBefore(queue[d], k + 1)
    BY <1>1, <1>2
  <2>2. KnownBefore(d, k + 1) \subseteq Known(d)
    BY <1>1, KnownGrows
  <2>3. QED
    BY <2>1, <2>2 DEF KnownBefore
<1>6. QED
  BY <1>4, <1>5 DEF ws

\* A read answered by the server fills the cache, and brings what is known.
LEMMA RaiseBacked ==
    ASSUME StoreBacked, Inv(User), NEW d \in Devices, Raise(d)
    PROVE  StoreBacked' /\ \A e \in Devices : Known(e) \subseteq Known(e)'
<1>1. PICK i \in DOMAIN loads[d] : Answered(d, i, docs)
  BY DEF Raise
<1> DEFINE answer == Overlay(docs, Persisted(d))
           reads == [loads[d] EXCEPT ![i].ready = TRUE, ![i].view = answer]
<1>2. /\ loads' = [loads EXCEPT ![d] = reads]
      /\ cache' = [cache EXCEPT ![d] = docs]
      /\ covered' = [covered EXCEPT ![d] = applied[d]]
      /\ queue' = [queue EXCEPT ![d] = queue[d]]
      /\ applied' = [applied EXCEPT ![d] = applied[d]]
      /\ UNCHANGED <<docs, queue, durable, applied>>
  BY <1>1, Types DEF Raise, Answered
<1>3. /\ cache'[d] = docs /\ loads'[d] = reads /\ covered'[d] = applied[d]
      /\ queue'[d] = queue[d] /\ applied'[d] = applied[d]
  BY <1>2, Types
<1>4. /\ CacheBacked(d) /\ QueueBacked(d) /\ ReadsBacked(d)
      /\ SelfContained(docs) /\ docs \in ViewsOf(User)
  BY Types DEF StoreBacked
<1>5. /\ Known(d) \subseteq Known(d)'
      /\ \A j : KnownBefore(d, j) \subseteq KnownBefore(d, j)'
      /\ Present(docs) \subseteq Known(d)'
  BY <1>3, <1>4 DEF Known, KnownBefore, CacheBacked, Present
<1>6. SelfContained(answer) /\ Present(answer) \subseteq Present(docs) \cup Known(d)
  BY <1>4, AnswerBacked DEF CacheBacked
<1>7. DOMAIN reads = DOMAIN loads[d]
      /\ \A j \in DOMAIN loads[d] :
             reads[j].view = IF j = i THEN answer ELSE loads[d][j].view
  <2>1. loads[d] \in Seq(LoadsOf(User))
    BY Types
  <2>2. \A j \in DOMAIN loads[d] : loads[d][j] \in LoadsOf(User)
    BY <2>1
  <2> HIDE DEF answer
  <2>3. QED
    BY <2>1, <2>2 DEF LoadsOf
<1> HIDE DEF reads, answer
<1>8. ReadsBacked(d)'
  <2> SUFFICES ASSUME NEW j \in DOMAIN loads[d]
               PROVE  /\ Present(reads[j].view) \subseteq Known(d)'
                      /\ SelfContained(reads[j].view)
    BY <1>3, <1>7
    DEF ReadsBacked, ViewBacked, Present, SelfContained, Among, Blank
  <2>1. ViewBacked(d, loads[d][j].view)
    BY <1>4 DEF ReadsBacked
  <2>2. QED
    BY <1>5, <1>6, <1>7, <2>1 DEF ViewBacked
<1>9. QueueBacked(d)'
  <2> SUFFICES ASSUME NEW j \in DOMAIN queue[d]
               PROVE  WriteBacked(d, j)'
    BY <1>3 DEF QueueBacked
  <2>1. WriteBacked(d, j) /\ KnownBefore(d, j) \subseteq KnownBefore(d, j)'
    BY <1>4, <1>5 DEF QueueBacked
  <2>2. Among(queue[d][j].value, KnownBefore(d, j)')
    BY <2>1, AmongMore DEF WriteBacked
  <2>3. QED
    BY <1>2, <1>3, <2>1, <2>2 DEF WriteBacked, Present, Among, Blank
<1>10. CacheBacked(d)' /\ SelfContained(docs)'
       /\ Present(docs) \subseteq Present(docs)'
  BY <1>2, <1>3, <1>4
  DEF CacheBacked, Present, SelfContained, Among, Blank
<1>11. StoreBacked' /\ \A e \in Devices \ {d} : Known(e)' = Known(e)
  BY <1>2, <1>8, <1>9, <1>10, StoreStep
<1>12. QED
  BY <1>5, <1>11

\* So does a read answered from the cache, which stays as it is.
LEMMA RaiseFromCacheBacked ==
    ASSUME StoreBacked, Inv(User), NEW d \in Devices, RaiseFromCache(d)
    PROVE  StoreBacked' /\ \A e \in Devices : Known(e) \subseteq Known(e)'
<1>1. PICK i \in DOMAIN loads[d] : Answered(d, i, cache[d])
  BY DEF RaiseFromCache
<1> DEFINE answer == Overlay(cache[d], Persisted(d))
           reads == [loads[d] EXCEPT ![i].ready = TRUE, ![i].view = answer]
<1>2. /\ loads' = [loads EXCEPT ![d] = reads]
      /\ cache' = [cache EXCEPT ![d] = cache[d]]
      /\ covered' = [covered EXCEPT ![d] = covered[d]]
      /\ queue' = [queue EXCEPT ![d] = queue[d]]
      /\ applied' = [applied EXCEPT ![d] = applied[d]]
      /\ UNCHANGED <<docs, cache, queue, durable, applied, covered>>
  BY <1>1, Types DEF RaiseFromCache, Answered
<1>3. loads'[d] = reads
  BY <1>2, Types
<1>4. /\ CacheBacked(d) /\ QueueBacked(d) /\ ReadsBacked(d)
      /\ SelfContained(docs) /\ cache[d] \in ViewsOf(User)
  BY Types DEF StoreBacked
<1>5. /\ \A e \in Devices : Known(e)' = Known(e)
      /\ \A j : KnownBefore(d, j)' = KnownBefore(d, j)
      /\ Present(cache[d]) \subseteq Known(d)
  BY <1>2 DEF Known, KnownBefore
<1>6. SelfContained(answer) /\ Present(answer) \subseteq Known(d)
  BY <1>4, <1>5, AnswerBacked DEF CacheBacked
<1>7. DOMAIN reads = DOMAIN loads[d]
      /\ \A j \in DOMAIN loads[d] :
             reads[j].view = IF j = i THEN answer ELSE loads[d][j].view
  <2>1. loads[d] \in Seq(LoadsOf(User))
    BY Types
  <2>2. \A j \in DOMAIN loads[d] : loads[d][j] \in LoadsOf(User)
    BY <2>1
  <2> HIDE DEF answer
  <2>3. QED
    BY <2>1, <2>2 DEF LoadsOf
<1> HIDE DEF reads, answer
<1>8. ReadsBacked(d)'
  <2> SUFFICES ASSUME NEW j \in DOMAIN loads[d]
               PROVE  /\ Present(reads[j].view) \subseteq Known(d)
                      /\ SelfContained(reads[j].view)
    BY <1>3, <1>5, <1>7
    DEF ReadsBacked, ViewBacked, Present, SelfContained, Among, Blank
  <2>1. ViewBacked(d, loads[d][j].view)
    BY <1>4 DEF ReadsBacked
  <2>2. QED
    BY <1>6, <1>7, <2>1 DEF ViewBacked
<1>9. CacheBacked(d)' /\ QueueBacked(d)' /\ SelfContained(docs)'
      /\ Present(docs) \subseteq Present(docs)'
  BY <1>2, <1>4, <1>5 DEF CacheBacked, QueueBacked, WriteBacked
<1>10. StoreBacked'
  BY <1>2, <1>8, <1>9, StoreStep
<1>11. QED
  BY <1>5, <1>10

\* A write that a handler may issue on phone d.
Issuable(d, w) ==
    /\ w.set => w.mask = Fields
    /\ ~w.set => w.doc \in Known(d)
    /\ Among(w.value, Known(d))

\* A queue that goes on with such writes, or is cut, is backed.
LEMMA QueueReplaced ==
    ASSUME StoreBacked, Inv(User), NEW d \in Devices,
           NEW q \in Seq(WritesOf(User)), queue'[d] = q,
           \A i \in DOMAIN q :
               IF i <= Len(queue[d]) THEN q[i] = queue[d][i]
                                     ELSE Issuable(d, q[i]),
           UNCHANGED <<docs, cache>>,
           applied'[d] \in Nat, applied'[d] <= applied[d],
           covered'[d] \in Nat, covered'[d] <= covered[d]
    PROVE  /\ QueueBacked(d)'
           /\ Len(queue[d]) <= Len(q) => Known(d) \subseteq Known(d)'
<1>1. /\ queue[d] \in Seq(WritesOf(User)) /\ QueueBacked(d)
      /\ DOMAIN q = 1..Len(q) /\ Len(q) \in Nat /\ Len(queue[d]) \in Nat
      /\ DOMAIN queue[d] = 1..Len(queue[d])
  BY Types DEF StoreBacked
<1>2. ASSUME NEW i \in DOMAIN q
      PROVE  WriteBacked(d, i)'
  <2>1. CASE i <= Len(queue[d])
    <3>1. /\ i \in DOMAIN queue[d] /\ q[i] = queue[d][i]
          /\ WriteBacked(d, i)
      BY <1>1, <2>1 DEF QueueBacked
    <3>2. CreatedBefore(q, i) = CreatedBefore(queue[d], i)
      <4>1. /\ i \in Nat /\ i >= 1 /\ i - 1 \in 0..Len(queue[d])
            /\ Len(q) >= i - 1 /\ i \in 1..((i - 1) + 1)
        BY <1>1, <1>2, <2>1
      <4>a. ASSUME NEW j \in 1..(i - 1)
            PROVE  q[j] = queue[d][j]
        <5>1. j \in DOMAIN q /\ j <= Len(queue[d])
          BY <1>1, <1>2, <2>1, <4>1
        <5>2. QED
          BY <5>1
      <4>2. QED
        BY <1>1, <4>1, <4>a, PrefixCreates
    <3>3. KnownBefore(d, i)' = KnownBefore(d, i)
      BY <3>2 DEF KnownBefore
    <3>4. i <= applied'[d] => i <= applied[d]
      BY <1>1, Positions
    <3>5. i <= covered'[d] => i <= covered[d]
      BY <1>1, Positions
    <3>6. QED
      BY <3>1, <3>3, <3>4, <3>5 DEF WriteBacked
  <2>2. CASE ~(i <= Len(queue[d]))
    <3>1. Issuable(d, q[i])
      BY <2>2
    <3>2. Known(d) \subseteq KnownBefore(d, i)'
      <4>1. \A j \in DOMAIN queue[d] : j \in DOMAIN q /\ q[j] = queue[d][j] /\ j < i
        BY <1>1, <2>2
      <4>2. CreatedBefore(queue[d], Len(queue[d]) + 1) \subseteq CreatedBefore(q, i)
        BY <4>1 DEF CreatedBefore
      <4>3. QED
        BY <4>2 DEF Known, KnownBefore
    <3>3. ~(i <= applied'[d]) /\ ~(i <= covered'[d])
      BY <1>1, <2>2, Positions
    <3>4. Among(q[i].value, KnownBefore(d, i)')
      BY <3>1, <3>2, AmongMore DEF Issuable
    <3>5. QED
      BY <3>1, <3>2, <3>3, <3>4 DEF Issuable, WriteBacked, Among, Blank
  <2>3. QED
    BY <2>1, <2>2
<1>3. ASSUME Len(queue[d]) <= Len(q)
      PROVE  Known(d) \subseteq Known(d)'
  <2>1. \A j \in DOMAIN queue[d] : /\ j \in DOMAIN q /\ q[j] = queue[d][j]
                                  /\ j < Len(q) + 1
    BY <1>1, <1>3
  <2>2. CreatedBefore(queue[d], Len(queue[d]) + 1)
        \subseteq CreatedBefore(q, Len(q) + 1)
    BY <2>1 DEF CreatedBefore
  <2>3. QED
    BY <2>2 DEF Known, KnownBefore
<1>4. QED
  BY <1>2, <1>3 DEF QueueBacked

\* Issuing such writes.
LEMMA IssueBacked ==
    ASSUME StoreBacked, Inv(User), NEW d \in Devices,
           NEW ws \in Seq(WritesOf(User)), Issue(d, ws),
           \A i \in DOMAIN ws : Issuable(d, ws[i])
    PROVE  StoreBacked' /\ \A e \in Devices : Known(e) \subseteq Known(e)'
<1> DEFINE q == queue[d] \o ws
<1>1. /\ cache' = [cache EXCEPT ![d] = cache[d]]
      /\ covered' = [covered EXCEPT ![d] = covered[d]]
      /\ queue' = [queue EXCEPT ![d] = q]
      /\ applied' = [applied EXCEPT ![d] = applied[d]]
      /\ loads' = [loads EXCEPT ![d] = loads[d]]
      /\ UNCHANGED <<docs, cache, applied, covered, loads>>
  BY Types DEF Issue
<1>2. /\ queue[d] \in Seq(WritesOf(User)) /\ q \in Seq(WritesOf(User))
      /\ queue'[d] = q /\ Len(queue[d]) <= Len(q)
      /\ \A i \in DOMAIN q :
             IF i <= Len(queue[d]) THEN q[i] = queue[d][i]
             ELSE i - Len(queue[d]) \in DOMAIN ws /\ q[i] = ws[i - Len(queue[d])]
  BY <1>1, Types
<1> HIDE DEF q
<1>3. /\ QueueBacked(d)' /\ Known(d) \subseteq Known(d)'
  <2>1. /\ applied'[d] \in Nat /\ applied'[d] <= applied[d]
        /\ covered'[d] \in Nat /\ covered'[d] <= covered[d]
    BY <1>1, Positions
  <2>2. \A i \in DOMAIN q :
            IF i <= Len(queue[d]) THEN q[i] = queue[d][i]
                                  ELSE Issuable(d, q[i])
    BY <1>2
  <2>3. QED
    BY <1>1, <1>2, <2>1, <2>2, QueueReplaced
<1>4. CacheBacked(d)' /\ SelfContained(docs)'
      /\ Present(docs) \subseteq Present(docs)'
  BY <1>1 DEF StoreBacked, CacheBacked
<1>5. ReadsBacked(d)'
  BY <1>1, <1>3, ReadsStay DEF StoreBacked
<1>6. StoreBacked' /\ \A e \in Devices \ {d} : Known(e)' = Known(e)
  BY <1>1, <1>3, <1>4, <1>5, StoreStep
<1>7. QED
  BY <1>3, <1>6

\* Asking for the users adds a read with nothing in it yet.
LEMMA AskBacked ==
    ASSUME StoreBacked, Inv(User), NEW d \in Devices, AskForUsers(d)
    PROVE  StoreBacked' /\ \A e \in Devices : Known(e) \subseteq Known(e)'
<1> DEFINE reads == Append(loads[d], NewLoad(d))
<1>1. /\ cache' = [cache EXCEPT ![d] = cache[d]]
      /\ covered' = [covered EXCEPT ![d] = covered[d]]
      /\ queue' = [queue EXCEPT ![d] = queue[d]]
      /\ applied' = [applied EXCEPT ![d] = applied[d]]
      /\ loads' = [loads EXCEPT ![d] = reads]
      /\ UNCHANGED <<docs, cache, queue, applied, covered>>
  BY Types DEF AskForUsers
<1>2. loads'[d] = reads
  BY <1>1, Types
<1>3. \A e \in Devices : Known(e)' = Known(e)
  BY <1>1 DEF Known, KnownBefore
<1>4. CacheBacked(d)' /\ QueueBacked(d)' /\ SelfContained(docs)'
      /\ Present(docs) \subseteq Present(docs)'
  BY <1>1
  DEF StoreBacked, CacheBacked, QueueBacked, WriteBacked, KnownBefore
<1>5. ReadsBacked(d)'
  <2>1. \A i \in DOMAIN reads :
            \/ i \in DOMAIN loads[d] /\ reads[i] = loads[d][i]
            \/ reads[i] = NewLoad(d)
    <3>1. loads[d] \in Seq(LoadsOf(User))
      BY Types
    <3>2. QED
      BY <3>1
  <2>2. Present(NewLoad(d).view) = {} /\ SelfContained(NewLoad(d).view)
    BY DEF NewLoad, EmptyView, Present, SelfContained
  <2>3. ReadsBacked(d)
    BY DEF StoreBacked
  <2> HIDE DEF reads
  <2>4. \A i \in DOMAIN reads : /\ Present(reads[i].view) \subseteq Known(d)
                                /\ SelfContained(reads[i].view)
    BY <2>1, <2>2, <2>3 DEF ReadsBacked, ViewBacked
  <2>5. QED
    BY <1>2, <1>3, <2>4
    DEF ReadsBacked, ViewBacked, Present, SelfContained, Among, Blank
<1> HIDE DEF reads
<1>6. StoreBacked'
  BY <1>1, <1>4, <1>5, StoreStep
<1>7. QED
  BY <1>3, <1>6

\* A restart with a part of the queue, or with writes issued just before.
LEMMA ReopenBacked ==
    ASSUME StoreBacked, Inv(User), NEW d \in Devices,
           NEW kept \in Seq(WritesOf(User)), Reopen(d, kept),
           \A i \in DOMAIN kept :
               IF i <= Len(queue[d]) THEN kept[i] = queue[d][i]
                                     ELSE Issuable(d, kept[i])
    PROVE  /\ StoreBacked'
           /\ \A e \in Devices \ {d} : Known(e)' = Known(e)
<1> DEFINE reads == <<[behind |-> 0, ready |-> FALSE, view |-> EmptyView]>>
<1>1. /\ cache' = [cache EXCEPT ![d] = cache[d]]
      /\ covered' = [covered EXCEPT ![d] = 0]
      /\ queue' = [queue EXCEPT ![d] = kept]
      /\ applied' = [applied EXCEPT ![d] = 0]
      /\ loads' = [loads EXCEPT ![d] = reads]
      /\ UNCHANGED <<docs, cache>>
  BY Types DEF Reopen
<1>2. /\ loads'[d] = reads /\ queue'[d] = kept
      /\ applied'[d] = 0 /\ covered'[d] = 0
  BY <1>1, Types
<1>3. QueueBacked(d)'
  <2>1. 0 <= applied[d] /\ 0 <= covered[d]
    BY Positions
  <2>2. QED
    BY <1>1, <1>2, <2>1, QueueReplaced
<1>4. CacheBacked(d)' /\ SelfContained(docs)'
      /\ Present(docs) \subseteq Present(docs)'
  BY <1>1 DEF StoreBacked, CacheBacked
<1>5. ReadsBacked(d)'
  <2>1. \A i \in DOMAIN reads : reads[i].view = EmptyView
    OBVIOUS
  <2>2. Present(EmptyView) = {} /\ SelfContained(EmptyView)
    BY DEF EmptyView, Present, SelfContained
  <2>3. QED
    BY <1>2, <2>1, <2>2
    DEF ReadsBacked, ViewBacked, Present, SelfContained, Among, Blank
<1> HIDE DEF reads
<1>6. QED
  BY <1>1, <1>3, <1>4, <1>5, StoreStep

--------------------------------------------------------------------------------
(* The payee table.                                                           *)

\* The object of a session of n, given the list of users and currUser's own.
Object(view, object, n) == IF object = NoDoc THEN view[n] ELSE object

\* A handler of d replaces d's part of the session; the table follows if it
\* does there.
LEMMA TableStep ==
    ASSUME Inv(User), RecipientsAreFriends, NEW d \in Devices,
           NEW view, NEW object, NEW n, NEW r,
           userDatabase' = [userDatabase EXCEPT ![d] = view],
           own' = [own EXCEPT ![d] = object],
           session' = [session EXCEPT ![d] = n],
           recipients' = [recipients EXCEPT ![d] = r],
           n # NoName => Object(view, object, n).friends = r
    PROVE  RecipientsAreFriends'
<1>1. ASSUME NEW e \in Devices, session'[e] # NoName
      PROVE  recipients'[e]
             = Object(userDatabase'[e], own'[e], session'[e]).friends
  <2>1. CASE e = d
    BY <1>1, <2>1, Types
  <2>2. CASE e # d
    <3>1. /\ userDatabase'[e] = userDatabase[e] /\ own'[e] = own[e]
          /\ session'[e] = session[e] /\ recipients'[e] = recipients[e]
      BY <2>2, Types
    <3>2. QED
      BY <1>1, <3>1 DEF RecipientsAreFriends, Object, CurrUser
  <2>3. QED
    BY <2>1, <2>2
<1>2. QED
  BY <1>1 DEF RecipientsAreFriends, CurrUser, Object

\* The handlers that change currUser in place, as a step of d's session.
LEMMA ChangedUser ==
    ASSUME Inv(User), NEW d \in Devices, NEW u \in User,
           screen[d].at # "login", ChangeCurrUser(d, u)
    PROVE  LET view == IF own[d] = NoDoc
                       THEN [userDatabase[d] EXCEPT ![session[d]] = u]
                       ELSE userDatabase[d]
               object == IF own[d] = NoDoc THEN NoDoc ELSE u
           IN /\ userDatabase' = [userDatabase EXCEPT ![d] = view]
              /\ own' = [own EXCEPT ![d] = object]
              /\ Object(view, object, session[d]) = u
              /\ object = NoDoc <=> own[d] = NoDoc
              /\ session[d] \in Names /\ session[d] # NoName
              /\ view \in ViewsOf(User)
              /\ own[d] = NoDoc => userDatabase[d][session[d]] # NoDoc
<1>1. /\ session[d] \in Names /\ session[d] # NoName
      /\ own[d] = NoDoc => userDatabase[d][session[d]] # NoDoc
      /\ u # NoDoc /\ userDatabase[d] \in [Names -> User \cup {NoDoc}]
  <2>1. CurrUser(d) \in User /\ session[d] \in Names
        /\ (own[d] = NoDoc => userDatabase[d][session[d]] = CurrUser(d))
    BY CurrUserIn, UserClosed DEF Closed
  <2>2. QED
    BY <2>1, SessionAssumption, Types DEF ViewsOf
<1>2. CASE own[d] = NoDoc
  BY <1>1, <1>2, Types DEF ChangeCurrUser, Object, ViewsOf
<1>3. CASE own[d] # NoDoc
  BY <1>1, <1>3, Types DEF ChangeCurrUser, Object, ViewsOf
<1>4. QED
  BY <1>2, <1>3

\* With another balance a user is otherwise the same.
LEMMA BalanceOnly ==
    ASSUME NEW u \in User, NEW a \in Int
    PROVE  /\ [u EXCEPT !.balance = a] \in User
           /\ [u EXCEPT !.balance = a].balance = a
           /\ \A f \in Fields \ {"balance"} :
                  [u EXCEPT !.balance = a][f] = u[f]
<1>1. [u EXCEPT !.balance = a] \in User
  BY UserClosed DEF Closed
<1>2. QED
  BY <1>1 DEF User, Fields

\* The loop of the OK handler changes nobody but payer and payee, and nothing
\* of them but the balance; the ten per cent go to the payer's investments.
LEMMA PaymentObjects ==
    ASSUME Inv(User), NEW d \in Devices,
           screen[d].at = "confirm", screen[d].who \in Names
    PROVE  /\ Credited(d) \in ViewsOf(User)
           /\ \A n \in Names :
                  /\ Credited(d)[n] = NoDoc <=> userDatabase[d][n] = NoDoc
                  /\ userDatabase[d][n] # NoDoc =>
                         \A f \in Fields \ {"balance"} :
                             Credited(d)[n][f] = userDatabase[d][n][f]
           /\ Invested(d) \in User
           /\ \A f \in Fields \ {"balance", "investmentBalance"} :
                  Invested(d)[f] = CurrUser(d)[f]
<1> DEFINE a == screen[d].amount
           n == screen[d].who
           me == session[d]
           users == userDatabase[d]
           less(u) == [u EXCEPT !.balance = @ - a]
           more(u) == [u EXCEPT !.balance = @ + a]
<1>1. /\ Credited(d) \in ViewsOf(User) /\ Invested(d) \in User
      /\ users \in [Names -> User \cup {NoDoc}] /\ NoDoc \notin User
      /\ a \in Int /\ n \in Names /\ screen[d] \in Screen
  BY PaymentIn, UserClosed, Types, SessionAssumption DEF Screen, ViewsOf
<1>2. /\ me \in Names /\ CurrUser(d) \in User
      /\ own[d] = NoDoc => users[me] = CurrUser(d)
      /\ own[d] # NoDoc => own[d] = CurrUser(d)
  BY CurrUserIn, UserClosed DEF Closed
<1>3. \A u \in User :
          /\ u.balance \in Int
          /\ less(u) = [u EXCEPT !.balance = u.balance - a]
          /\ more(u) = [u EXCEPT !.balance = u.balance + a]
  BY DEF User
<1>4. \A u \in User :
          /\ less(u) \in User /\ more(u) \in User
          /\ \A f \in Fields \ {"balance"} : less(u)[f] = u[f] /\ more(u)[f] = u[f]
  <2>1. ASSUME NEW u \in User
        PROVE  u.balance - a \in Int /\ u.balance + a \in Int
    BY <1>1, <1>3
  <2>2. QED
    BY <1>3, <2>1, BalanceOnly
<1>a. /\ own[d] = NoDoc => Debited(d) = [users EXCEPT ![me] = less(users[me])]
      /\ Debited(d)[n] # NoDoc =>
             Credited(d) = [Debited(d) EXCEPT ![n] = more(Debited(d)[n])]
      /\ own[d] # NoDoc => Payer(d) = less(own[d])
  BY <1>1, <1>2 DEF Debited, Credited, Payer
<1> HIDE DEF less, more
<1> DEFINE paid == Debited(d)
<1>5. /\ paid \in [Names -> User \cup {NoDoc}]
      /\ \A m \in Names :
             /\ paid[m] = NoDoc <=> users[m] = NoDoc
             /\ users[m] # NoDoc => \A f \in Fields \ {"balance"} :
                                        paid[m][f] = users[m][f]
  <2>1. CASE own[d] = NoDoc
    <3>1. paid = [users EXCEPT ![me] = less(users[me])]
      BY <1>a, <2>1
    <3>2. users[me] \in User /\ CurrUser(d) = users[me]
      BY <1>1, <1>2, <2>1
    <3>3. /\ paid[me] \in User
          /\ \A f \in Fields \ {"balance"} : paid[me][f] = users[me][f]
      BY <1>1, <1>2, <1>4, <3>1, <3>2
    <3>4. /\ \A m \in Names \ {me} : paid[m] = users[m]
          /\ paid \in [Names -> User \cup {NoDoc}]
      BY <1>1, <1>2, <1>4, <3>1, <3>2
    <3> HIDE DEF paid
    <3>5. QED
      BY <1>1, <3>2, <3>3, <3>4
  <2>2. CASE own[d] # NoDoc
    BY <1>1, <2>2 DEF Debited
  <2>3. QED
    BY <2>1, <2>2
<1>6. \A m \in Names :
          /\ Credited(d)[m] = NoDoc <=> users[m] = NoDoc
          /\ users[m] # NoDoc => \A f \in Fields \ {"balance"} :
                                     Credited(d)[m][f] = users[m][f]
  <2>1. CASE paid[n] = NoDoc
    BY <1>5, <2>1 DEF Credited
  <2>2. CASE paid[n] # NoDoc
    <3>1. Credited(d) = [paid EXCEPT ![n] = more(paid[n])]
      BY <1>a, <2>2
    <3> HIDE DEF paid
    <3>2. paid[n] \in User
      BY <1>1, <1>5, <2>2
    <3>3. /\ Credited(d)[n] \in User
          /\ \A f \in Fields \ {"balance"} : Credited(d)[n][f] = paid[n][f]
      BY <1>1, <1>4, <1>5, <3>1, <3>2
    <3>4. \A m \in Names \ {n} : Credited(d)[m] = paid[m]
      BY <1>1, <1>5, <3>1
    <3>5. QED
      BY <1>1, <1>5, <3>2, <3>3, <3>4
  <2>3. QED
    BY <2>1, <2>2
<1>7. /\ Payer(d) \in User
      /\ \A f \in Fields \ {"balance"} : Payer(d)[f] = CurrUser(d)[f]
  <2>1. CASE own[d] = NoDoc
    BY <1>1, <1>2, <1>6, <2>1 DEF Payer, ViewsOf
  <2>2. CASE own[d] # NoDoc
    BY <1>2, <1>4, <1>a, <2>2
  <2>3. QED
    BY <2>1, <2>2
<1>8. \A f \in Fields \ {"balance", "investmentBalance"} :
          Invested(d)[f] = CurrUser(d)[f]
  <2>1. \A f \in Fields \ {"investmentBalance"} : Invested(d)[f] = Payer(d)[f]
    BY <1>7 DEF Invested, User, Fields
  <2>2. QED
    BY <1>7, <2>1
<1>9. QED
  BY <1>1, <1>6, <1>8

\* Nothing the table depends on changes.
LEMMA TableStays ==
    ASSUME RecipientsAreFriends,
           UNCHANGED <<userDatabase, own, session, recipients>>
    PROVE  RecipientsAreFriends'
  BY DEF RecipientsAreFriends, CurrUser

\* A process that starts over has no session.
LEMMA TableRestarts ==
    ASSUME Inv(User), RecipientsAreFriends, NEW d \in Devices,
           NEW kept, Restart(d, kept)
    PROVE  RecipientsAreFriends'
<1>1. /\ userDatabase' = [userDatabase EXCEPT ![d] = EmptyView]
      /\ own' = [own EXCEPT ![d] = NoDoc]
      /\ session' = [session EXCEPT ![d] = NoName]
      /\ recipients' = [recipients EXCEPT ![d] = <<>>]
  BY DEF Restart
<1>2. QED
  BY <1>1, TableStep

\* The login screen's handlers, and the completion of its read.
LEMMA TableSession ==
    ASSUME Inv(User), RecipientsAreFriends, NEW d \in Devices, SessionStep(d)
    PROVE  RecipientsAreFriends'
<1>1. CASE Deliver(d)
  <2> DEFINE view == Head(loads[d]).view
             object == IF session[d] = NoName THEN NoDoc ELSE CurrUser(d)
  <2>1. /\ userDatabase' = [userDatabase EXCEPT ![d] = view]
        /\ own' = [own EXCEPT ![d] = object]
        /\ session' = [session EXCEPT ![d] = session[d]]
        /\ recipients' = [recipients EXCEPT ![d] = recipients[d]]
    BY <1>1, Types DEF Deliver
  <2>2. session[d] # NoName => Object(view, object, session[d]) = CurrUser(d)
    BY DEF Object, Inv, SessionHasUser
  <2> HIDE DEF view, object
  <2>3. session[d] # NoName =>
            Object(view, object, session[d]).friends = recipients[d]
    BY <2>2 DEF RecipientsAreFriends
  <2>4. QED
    BY <2>1, <2>3, TableStep
<1>2. ASSUME NEW n \in Users[d], NEW p \in Passwords, DidTapLogin(d, n, p)
      PROVE  RecipientsAreFriends'
  <2>1. /\ screen[d].at = "login" /\ session[d] = NoName /\ own[d] = NoDoc
    BY <1>2 DEF DidTapLogin, Ready, Inv, SessionHasUser
  <2>2. /\ userDatabase' = [userDatabase EXCEPT ![d] = userDatabase[d]]
        /\ own' = [own EXCEPT ![d] = own[d]]
        /\ session' = [session EXCEPT ![d] = n]
        /\ recipients' = [recipients EXCEPT ![d] = userDatabase[d][n].friends]
    BY <1>2, Types DEF DidTapLogin
  <2>3. Object(userDatabase[d], own[d], n) = userDatabase[d][n]
    BY <2>1 DEF Object
  <2>4. QED
    BY <2>2, <2>3, TableStep
<1>3. ASSUME NEW n \in Newcomers[d], NEW p \in Passwords, VeryfySignUp(d, n, p)
      PROVE  RecipientsAreFriends'
  <2>1. session[d] = NoName
    BY <1>3 DEF VeryfySignUp, Ready, Inv, SessionHasUser
  <2>2. PICK view : /\ userDatabase' = [userDatabase EXCEPT ![d] = view]
                    /\ own' = [own EXCEPT ![d] = own[d]]
                    /\ session' = [session EXCEPT ![d] = session[d]]
                    /\ recipients' = [recipients EXCEPT ![d] = recipients[d]]
    BY <1>3, Types DEF VeryfySignUp
  <2>3. QED
    BY <2>1, <2>2, TableStep
<1>4. CASE DidTapLogout(d)
  <2>1. /\ userDatabase' = [userDatabase EXCEPT ![d] = userDatabase[d]]
        /\ own' = [own EXCEPT ![d] = NoDoc]
        /\ session' = [session EXCEPT ![d] = NoName]
        /\ recipients' = [recipients EXCEPT ![d] = recipients[d]]
    BY <1>4, Types DEF DidTapLogout
  <2>2. QED
    BY <2>1, TableStep
<1>5. CASE LoadFails(d) \/ Dismiss(d)
  <2>1. UNCHANGED <<userDatabase, own, session, recipients>>
    BY <1>5 DEF LoadFails, Dismiss, appVars
  <2>2. QED
    BY <2>1, TableStays
<1>6. CASE DidTapTooEarly(d) \/ Crash(d)
  BY <1>6, TableRestarts DEF DidTapTooEarly, Crash
<1>7. QED
  BY <1>1, <1>2, <1>3, <1>4, <1>5, <1>6 DEF SessionStep

\* A payment changes no friend list.
LEMMA TablePayment ==
    ASSUME Inv(User), RecipientsAreFriends, NEW d \in Devices, PaymentStep(d)
    PROVE  RecipientsAreFriends'
<1>1. CASE \/ \E n \in Names \cup {NoName} : DidSelectRecipient(d, n)
           \/ \E a \in Amounts : DidTapPayButton(d, a)
           \/ \E invest \in BOOLEAN : ShowConfirmationAlert(d, invest)
           \/ DidTapDiscard(d)
  <2>1. UNCHANGED <<userDatabase, own, session, recipients>>
    BY <1>1
    DEF DidSelectRecipient, DidTapPayButton, ShowConfirmationAlert, DidTapDiscard
  <2>2. QED
    BY <2>1, TableStays
<1>2. CASE DidTapPayUnparsable(d) \/ DidConfirmPayNobody(d)
  BY <1>2, TableRestarts DEF DidTapPayUnparsable, DidConfirmPayNobody
<1>3. CASE DidConfirmPay(d)
  <2> DEFINE view == IF own[d] = NoDoc
                     THEN [Credited(d) EXCEPT ![session[d]] = Invested(d)]
                     ELSE Credited(d)
             object == IF own[d] = NoDoc THEN NoDoc ELSE Invested(d)
  <2>1. /\ userDatabase' = [userDatabase EXCEPT ![d] = view]
        /\ own' = [own EXCEPT ![d] = object]
        /\ session' = [session EXCEPT ![d] = session[d]]
        /\ recipients' = [recipients EXCEPT ![d] = recipients[d]]
        /\ screen[d].at = "confirm" /\ screen[d].who \in Names
    BY <1>3, Types DEF DidConfirmPay
  <2>2. /\ session[d] \in Names /\ session[d] # NoName
        /\ Credited(d) \in ViewsOf(User) /\ Invested(d) \in User
        /\ Invested(d).friends = CurrUser(d).friends
    BY <2>1, PaymentObjects, CurrUserIn, UserClosed, SessionAssumption
    DEF Closed, Fields
  <2>3. Object(view, object, session[d]) = Invested(d)
    BY <2>2, SessionAssumption DEF Object, ViewsOf
  <2> HIDE DEF view, object
  <2>4. Object(view, object, session[d]).friends = recipients[d]
    BY <2>2, <2>3 DEF RecipientsAreFriends
  <2>5. QED
    BY <2>1, <2>4, TableStep
<1>4. QED
  BY <1>1, <1>2, <1>3 DEF PaymentStep

\* A handler that changes currUser in place, and its friends only with the
\* table.
LEMMA TableChanged ==
    ASSUME Inv(User), RecipientsAreFriends, NEW d \in Devices, NEW u \in User,
           screen[d].at # "login", ChangeCurrUser(d, u), UNCHANGED session,
           NEW r, recipients' = [recipients EXCEPT ![d] = r], u.friends = r
    PROVE  RecipientsAreFriends'
<1> DEFINE view == IF own[d] = NoDoc
                   THEN [userDatabase[d] EXCEPT ![session[d]] = u]
                   ELSE userDatabase[d]
           object == IF own[d] = NoDoc THEN NoDoc ELSE u
<1>1. /\ userDatabase' = [userDatabase EXCEPT ![d] = view]
      /\ own' = [own EXCEPT ![d] = object]
      /\ Object(view, object, session[d]) = u
  BY ChangedUser
<1> HIDE DEF view, object
<1>2. session' = [session EXCEPT ![d] = session[d]]
  BY Types
<1>3. QED
  BY <1>1, <1>2, TableStep

\* Adding a friend refreshes the table; trades and settings change no friends.
LEMMA TableChanges ==
    ASSUME Inv(User), RecipientsAreFriends, NEW d \in Devices,
           FriendsStep(d) \/ TradingStep(d) \/ SettingsStep(d)
    PROVE  RecipientsAreFriends'
<1> DEFINE me == CurrUser(d)
<1>1. screen[d].at # "login" =>
          /\ me \in User /\ session[d] # NoName
          /\ recipients = [recipients EXCEPT ![d] = me.friends]
  BY CurrUserIn, UserClosed, Types, SessionAssumption
  DEF Closed, RecipientsAreFriends
<1>2. CASE \/ \E q \in Queries : DidTapSearchButton(d, q)
           \/ \E n \in Names : DidSelectResult(d, n) \/ DidSelectFriend(d, n)
           \/ \E s \in Symbols, p \in Quotes : DidTapSearchStock(d, s, p)
  <2>1. UNCHANGED <<userDatabase, own, session, recipients>>
    BY <1>2
    DEF DidTapSearchButton, DidSelectResult, DidSelectFriend, DidTapSearchStock
  <2>2. QED
    BY <2>1, TableStays
<1>3. CASE DidTapModifyFriendButton(d)
  <2> DEFINE u == [me EXCEPT !.friends = Append(@, screen[d].who)]
  <2>1. /\ ChangeCurrUser(d, u) /\ UNCHANGED session
        /\ recipients' = [recipients EXCEPT ![d] = u.friends]
        /\ screen[d].at # "login"
    BY <1>3 DEF DidTapModifyFriendButton
  <2>2. u \in User
    <3>1. /\ me \in User /\ screen[d] \in Screen
          /\ screen[d].who = NoName \/ screen[d].who \notin Elements(me.friends)
      BY <1>1, <1>3, Types DEF DidTapModifyFriendButton, Inv, PageSettled
    <3>2. screen[d].who \in Names \cup {NoName}
      BY <3>1 DEF Screen
    <3>3. QED
      BY <3>1, <3>2, UserClosed DEF Closed
  <2> HIDE DEF u
  <2>3. QED
    BY <2>1, <2>2, TableChanged
<1>4. ASSUME NEW u \in User, u.friends = me.friends, screen[d].at # "login",
             ChangeCurrUser(d, u), UNCHANGED <<session, recipients>>
      PROVE  RecipientsAreFriends'
  BY <1>1, <1>4, TableChanged
<1>5. ASSUME NEW u \in User, u.friends = me.friends, Trade(d, u)
      PROVE  RecipientsAreFriends'
  BY <1>4, <1>5 DEF Trade
<1>6. ASSUME NEW q \in Quantities, BuyButton(d, q) \/ SellButton(d, q)
      PROVE  RecipientsAreFriends'
  <2> DEFINE s == screen[d].symbol
             p == screen[d].price
  <2>1. screen[d].at = "stock" /\ s \in Symbols /\ p \in Int /\ q \in Int
    BY <1>6, Types, TradingAssumption
    DEF BuyButton, SellButton, Trade, Inv, PageSettled, Screen
  <2>2. /\ CanBuy(me, q, p) => /\ Bought(me, s, q, p) \in User
                               /\ Bought(me, s, q, p).friends = me.friends
        /\ CanSell(me, s, q) => /\ Sold(me, s, q, p) \in User
                                /\ Sold(me, s, q, p).friends = me.friends
    <3>1. me \in User
      BY <1>1, <2>1
    <3>2. /\ CanBuy(me, q, p) => Bought(me, s, q, p) \in User
          /\ CanSell(me, s, q) => Sold(me, s, q, p) \in User
      BY <2>1, <3>1, TradedTypes
    <3>3. QED
      BY <3>1, <3>2 DEF Bought, Sold, User
  <2>3. me \in User
    BY <1>1, <2>1
  <2>4. QED
    BY <1>5, <1>6, <2>2, <2>3 DEF BuyButton, SellButton
<1>7. CASE SettingsStep(d)
  <2>1. ASSUME NEW c \in NewCards, DidTapAddCardButton(d, c)
        PROVE  RecipientsAreFriends'
    <3> DEFINE u == [me EXCEPT !.cards = Append(@, c)]
    <3>1. /\ ChangeCurrUser(d, u) /\ UNCHANGED <<session, recipients>>
          /\ screen[d].at # "login"
      BY <2>1 DEF DidTapAddCardButton
    <3>2. me \in User
      BY <1>1, <3>1
    <3>3. u \in User
      BY <3>2, SettingsAssumption, UserClosed DEF Closed
    <3>4. u.friends = me.friends
      BY <3>2 DEF User
    <3> HIDE DEF u
    <3>5. QED
      BY <1>4, <3>1, <3>3, <3>4
  <2>2. ASSUME NEW p \in Passwords, NEW q \in NewPasswords,
               DidTapChangePassword(d, p, q)
        PROVE  RecipientsAreFriends'
    <3> DEFINE u == [me EXCEPT !.password = q]
    <3>1. /\ ChangeCurrUser(d, u) /\ UNCHANGED <<session, recipients>>
          /\ screen[d].at # "login"
      BY <2>2 DEF DidTapChangePassword
    <3>2. u \in User /\ u.friends = me.friends
      BY <1>1, <3>1, SettingsAssumption DEF User
    <3> HIDE DEF u
    <3>3. QED
      BY <1>4, <3>1, <3>2
  <2>3. QED
    BY <1>7, <2>1, <2>2 DEF SettingsStep
<1>8. QED
  BY <1>2, <1>3, <1>6, <1>7 DEF FriendsStep, TradingStep

\* Every step keeps the table.
LEMMA NextTable ==
    ASSUME Inv(User), RecipientsAreFriends, [Next]_vars
    PROVE  RecipientsAreFriends'
<1>1. CASE UNCHANGED vars
  <2>1. UNCHANGED <<userDatabase, own, session, recipients>>
    BY <1>1 DEF vars, appVars
  <2>2. QED
    BY <2>1, TableStays
<1>2. ASSUME NEW d \in Devices, Step(d)
      PROVE  RecipientsAreFriends'
  <2>1. CASE InBackground(d)
    <3>1. UNCHANGED <<userDatabase, own, session, recipients>>
      BY <2>1 DEF InBackground, appVars
    <3>2. QED
      BY <3>1, TableStays
  <2>2. QED
    BY <1>2, <2>1, TableSession, TablePayment, TableChanges DEF Step
<1>3. QED
  BY <1>1, <1>2 DEF Next

--------------------------------------------------------------------------------
(* The session.                                                               *)

\* A phone another phone's step leaves alone, or whose SDK takes a step.
LEMMA SessionStays ==
    ASSUME NEW d \in Devices, SessionBacked(d),
           userDatabase'[d] = userDatabase[d], own'[d] = own[d],
           session'[d] = session[d], recipients'[d] = recipients[d],
           screen'[d] = screen[d],
           Known(d) \subseteq Known(d)', loads[d] = <<>> => loads'[d] = <<>>
    PROVE  SessionBacked(d)'
<1>1. CurrUser(d)' = CurrUser(d) /\ Circle(d) \subseteq Circle(d)'
  BY DEF CurrUser, Circle, Present
<1>2. ViewBacked(d, userDatabase[d])'
  BY DEF SessionBacked, ViewBacked, Present, SelfContained, Among, Blank
<1>3. UserBacked(d)'
  BY <1>1 DEF SessionBacked, UserBacked, Among, Blank, Present
<1>4. Waited(d)'
  BY DEF SessionBacked, Waited
<1>5. QED
  BY <1>2, <1>3, <1>4 DEF SessionBacked

\* A handler of d replaces d's part of the session: what it has to show.
LEMMA HandlerBacked ==
    ASSUME Inv(User), AllBacked, NEW d \in Devices, StoreBacked',
           \A e \in Devices \ {d} :
               Known(e) \subseteq Known(e)' /\ loads'[e] = loads[e],
           NEW view, NEW object, NEW n, NEW r, NEW s, NEW known, NEW circle,
           userDatabase' = [userDatabase EXCEPT ![d] = view],
           own' = [own EXCEPT ![d] = object],
           session' = [session EXCEPT ![d] = n],
           recipients' = [recipients EXCEPT ![d] = r],
           screen' = [screen EXCEPT ![d] = s],
           known = Known(d)',
           circle = IF object = NoDoc THEN Present(view) ELSE known,
           Present(view) \subseteq known, SelfContained(view),
           n # NoName =>
               /\ n \in known
               /\ Among(Object(view, object, n), circle)
               /\ s.at = "friend" => s.who \in circle \cup Blank
               /\ s.at \in {"pay", "sheet", "confirm"} => s.who \in Elements(r)
               /\ object = NoDoc => s.found \subseteq Present(view),
           Patient => object = NoDoc /\ (n # NoName => loads'[d] = <<>>)
    PROVE  AllBacked'
<1>1. ASSUME NEW e \in Devices \ {d}
      PROVE  SessionBacked(e)'
  <2>1. /\ userDatabase'[e] = userDatabase[e] /\ own'[e] = own[e]
        /\ session'[e] = session[e] /\ recipients'[e] = recipients[e]
        /\ screen'[e] = screen[e]
    BY Types
  <2>2. QED
    BY <2>1, SessionStays DEF AllBacked
<1>2. /\ userDatabase'[d] = view /\ own'[d] = object /\ session'[d] = n
      /\ recipients'[d] = r /\ screen'[d] = s
  BY Types
<1>3. CurrUser(d)' = Object(view, object, n) /\ Circle(d)' = circle
  <2>1. CurrUser(d)' = Object(view, object, n)
    BY <1>2 DEF CurrUser, Object
  <2>2. Present(userDatabase[d])' = Present(view)
    BY <1>2 DEF Present
  <2>3. Circle(d)' = circle
    BY <1>2, <2>2 DEF Circle
  <2>4. QED
    BY <2>1, <2>3
<1>4. ViewBacked(d, userDatabase[d])'
  BY <1>2 DEF ViewBacked, Present, SelfContained, Among, Blank
<1>5. UserBacked(d)'
  BY <1>2, <1>3 DEF UserBacked, Among, Blank, Present
<1>6. Waited(d)'
  BY <1>2 DEF Waited
<1>7. QED
  BY <1>1, <1>4, <1>5, <1>6 DEF AllBacked, SessionBacked

\* A handler behind the login screen: the list keeps its accounts, and the
\* session its user.
LEMMA ActionBacked ==
    ASSUME Inv(User), AllBacked, NEW d \in Devices, session[d] # NoName,
           StoreBacked', UNCHANGED loads,
           \A e \in Devices : Known(e) \subseteq Known(e)',
           NEW view, NEW object, NEW r, NEW s,
           userDatabase' = [userDatabase EXCEPT ![d] = view],
           own' = [own EXCEPT ![d] = object], UNCHANGED session,
           recipients' = [recipients EXCEPT ![d] = r],
           screen' = [screen EXCEPT ![d] = s],
           object = NoDoc <=> own[d] = NoDoc,
           Present(view) = Present(userDatabase[d]), SelfContained(view),
           Among(Object(view, object, session[d]), Circle(d)),
           s.at = "friend" => s.who \in Circle(d) \cup Blank,
           s.at \in {"pay", "sheet", "confirm"} => s.who \in Elements(r),
           own[d] = NoDoc => s.found \subseteq Present(view)
    PROVE  AllBacked'
<1>1. PICK known, circle :
          /\ known = Known(d)'
          /\ circle = IF object = NoDoc THEN Present(view) ELSE known
  OBVIOUS
<1>2. session' = [session EXCEPT ![d] = session[d]]
  BY Types
<1>3. SessionBacked(d)
  BY DEF AllBacked
<1>4. Circle(d) \subseteq circle /\ Known(d) \subseteq known
  BY <1>1 DEF Circle
<1>5. /\ Present(view) \subseteq known
      /\ session[d] \in known
      /\ Patient => object = NoDoc /\ loads'[d] = <<>>
  BY <1>3, <1>4 DEF SessionBacked, ViewBacked, UserBacked, Waited
<1>6. /\ Among(Object(view, object, session[d]), circle)
      /\ s.at = "friend" => s.who \in circle \cup Blank
  BY <1>4, AmongMore
<1>7. QED
  BY <1>1, <1>2, <1>5, <1>6, HandlerBacked

\* A handler that only turns to another page.
LEMMA LookBacked ==
    ASSUME Inv(User), AllBacked, NEW d \in Devices, screen[d].at # "login",
           NEW s, Show(d, s),
           UNCHANGED <<storeVars, loaded, userDatabase, session, own,
                       recipients, taps>>,
           s.at = "friend" => s.who \in Circle(d) \cup Blank,
           s.at \in {"pay", "sheet", "confirm"} =>
               s.who \in Elements(recipients[d]),
           own[d] = NoDoc => s.found \subseteq Present(userDatabase[d])
    PROVE  AllBacked'
<1>1. /\ UNCHANGED docs /\ UNCHANGED cache /\ UNCHANGED queue
      /\ UNCHANGED applied /\ UNCHANGED covered /\ UNCHANGED loads
  BY DEF storeVars
<1>2. \A e \in Devices : Known(e)' = Known(e)
  BY <1>1 DEF Known, KnownBefore
<1>3. StoreBacked'
  BY <1>1, <1>2
  DEF AllBacked, StoreBacked, CacheBacked, QueueBacked, WriteBacked,
      ReadsBacked, ViewBacked, KnownBefore
<1>4. session[d] # NoName /\ SessionBacked(d)
  BY DEF Inv, SessionHasUser, AllBacked
<1>5. Among(Object(userDatabase[d], own[d], session[d]), Circle(d))
  BY <1>4 DEF SessionBacked, UserBacked, CurrUser, Object
<1>6. SelfContained(userDatabase[d])
  BY <1>4 DEF SessionBacked, ViewBacked
<1>7. /\ userDatabase' = [userDatabase EXCEPT ![d] = userDatabase[d]]
      /\ own' = [own EXCEPT ![d] = own[d]]
      /\ recipients' = [recipients EXCEPT ![d] = recipients[d]]
      /\ screen' = [screen EXCEPT ![d] = s]
  BY Types DEF Show
<1>8. QED
  BY <1>1, <1>2, <1>3, <1>4, <1>5, <1>6, <1>7, ActionBacked

\* A process that starts over keeps writes it had issued and nothing else.
LEMMA RestartBacked ==
    ASSUME Inv(User), AllBacked, NEW d \in Devices,
           NEW kept \in Seq(WritesOf(User)), Restart(d, kept),
           \A i \in DOMAIN kept :
               IF i <= Len(queue[d]) THEN kept[i] = queue[d][i]
                                     ELSE Issuable(d, kept[i])
    PROVE  AllBacked'
<1>1. /\ StoreBacked' /\ \A e \in Devices \ {d} : Known(e)' = Known(e)
  BY ReopenBacked DEF Restart, AllBacked
<1>2. \A e \in Devices \ {d} : loads'[e] = loads[e]
  BY Types DEF Restart, Reopen
<1>3. /\ userDatabase' = [userDatabase EXCEPT ![d] = EmptyView]
      /\ own' = [own EXCEPT ![d] = NoDoc]
      /\ session' = [session EXCEPT ![d] = NoName]
      /\ recipients' = [recipients EXCEPT ![d] = <<>>]
      /\ screen' = [screen EXCEPT ![d] = LoginScreen]
  BY DEF Restart, Show
<1>4. Present(EmptyView) = {} /\ SelfContained(EmptyView)
  BY DEF EmptyView, Present, SelfContained
<1>5. PICK known : known = Known(d)'
  OBVIOUS
<1>6. QED
  BY <1>1, <1>2, <1>3, <1>4, <1>5, HandlerBacked

\* ... among them what the worker queue has stored.
LEMMA KilledBacked ==
    ASSUME Inv(User), AllBacked, NEW d \in Devices, Restart(d, Persisted(d))
    PROVE  AllBacked'
<1>1. /\ Persisted(d) \in Seq(WritesOf(User))
      /\ \A i \in DOMAIN Persisted(d) : /\ i <= Len(queue[d])
                                        /\ Persisted(d)[i] = queue[d][i]
  <2>1. queue[d] \in Seq(WritesOf(User)) /\ durable[d] \in 0..Len(queue[d])
    BY PersistedIn DEF Inv, Everywhere
  <2>2. QED
    BY <2>1, PersistedIn DEF Persisted, Inv, Everywhere
<1>2. QED
  BY <1>1, RestartBacked

--------------------------------------------------------------------------------
(* The steps.                                                                 *)

\* The SDK leaves the session alone, and what it stores is backed.
LEMMA BackgroundBacked ==
    ASSUME ~MayRefuse, Inv(User), AllBacked, NEW d \in Devices, InBackground(d)
    PROVE  AllBacked'
<1>1. UNCHANGED appVars
  BY DEF InBackground
<1>2. StoreBacked' /\ \A e \in Devices : Known(e) \subseteq Known(e)'
  BY PersistBacked, CommitBacked, AckBacked, NothingRejected, BreakBacked,
     RaiseBacked, RaiseFromCacheBacked DEF InBackground, AllBacked
<1>3. ASSUME NEW e \in Devices, loads[e] = <<>>
      PROVE  loads'[e] = <<>>
  <2>1. CASE Persist(d)
    <3>1. loads' = [loads EXCEPT ![d] =
                       [i \in DOMAIN loads[d] |-> MovedUp(loads[d][i])]]
      BY <2>1 DEF Persist
    <3>2. loads[d] = <<>> =>
              [i \in DOMAIN loads[d] |-> MovedUp(loads[d][i])] = <<>>
      OBVIOUS
    <3>3. QED
      BY <1>3, <3>1, <3>2, Types
  <2>2. CASE Commit(d) \/ Ack(d) \/ Reject(d) \/ Break(d)
    BY <1>3, <2>2 DEF Commit, Ack, Reject, Break
  <2>3. CASE Raise(d) \/ RaiseFromCache(d)
    <3>0. PICK i \in DOMAIN loads[d] : \E view : Answered(d, i, view)
      BY <2>3 DEF Raise, RaiseFromCache
    <3>1. PICK view : Answered(d, i, view)
      BY <3>0
    <3> DEFINE answer == Overlay(view, Persisted(d))
    <3>2. loads' = [loads EXCEPT ![d] =
                        [loads[d] EXCEPT ![i].ready = TRUE, ![i].view = answer]]
      BY <3>1, Types DEF Answered
    <3> HIDE DEF answer
    <3>3. e # d
      BY <1>3
    <3>4. QED
      BY <1>3, <3>2, <3>3, Types
  <2>4. QED
    BY <2>1, <2>2, <2>3 DEF InBackground
<1>4. ASSUME NEW e \in Devices
      PROVE  SessionBacked(e)'
  <2>1. /\ userDatabase'[e] = userDatabase[e] /\ own'[e] = own[e]
        /\ session'[e] = session[e] /\ recipients'[e] = recipients[e]
        /\ screen'[e] = screen[e]
    BY <1>1 DEF appVars
  <2>2. QED
    BY <1>2, <1>3, <2>1, SessionStays DEF AllBacked
<1>5. QED
  BY <1>2, <1>4 DEF AllBacked

\* What a handler behind the login screen finds.
LEMMA SessionFacts ==
    ASSUME Inv(User), AllBacked, NEW d \in Devices, screen[d].at # "login"
    PROVE  /\ session[d] \in Names /\ session[d] # NoName
           /\ session[d] \in Known(d) /\ CurrUser(d) \in User
           /\ Among(CurrUser(d), Circle(d)) /\ Circle(d) \subseteq Known(d)
           /\ SelfContained(userDatabase[d])
           /\ Present(userDatabase[d]) \subseteq Known(d)
           /\ SessionBacked(d)
<1>1. /\ session[d] \in Names /\ session[d] # NoName /\ CurrUser(d) \in User
  BY CurrUserIn, UserClosed, SessionAssumption DEF Closed
<1>2. SessionBacked(d)
  BY DEF AllBacked
<1>3. QED
  BY <1>1, <1>2 DEF SessionBacked, ViewBacked, UserBacked, Circle

\* An update of an account the phone knows, with friends it knows.
LEMMA UpdateIssuable ==
    ASSUME NEW d \in Devices, NEW n \in Known(d), NEW u, NEW fields,
           Among(u, Known(d))
    PROVE  Issuable(d, Update(n, fields, u))
<1>1. Among(Patched(BlankUser, fields, u), Known(d))
  BY BlankAmong, PatchedAmong
<1>2. QED
  BY <1>1 DEF Issuable, Update

\* A handler that changes currUser in place and updates its document.
LEMMA ChangeBacked ==
    ASSUME Inv(User), AllBacked, NEW d \in Devices, NEW u \in User,
           NEW fields \in SUBSET Fields, NEW r, NEW s,
           screen[d].at # "login", ChangeCurrUser(d, u), UNCHANGED session,
           Issue(d, <<Update(session[d], fields, u)>>),
           Among(u, Circle(d)),
           recipients' = [recipients EXCEPT ![d] = r],
           screen' = [screen EXCEPT ![d] = s],
           s.at = "friend" => s.who \in Circle(d) \cup Blank,
           s.at \in {"pay", "sheet", "confirm"} => s.who \in Elements(r),
           own[d] = NoDoc => s.found \subseteq Present(userDatabase[d])
    PROVE  AllBacked'
<1> DEFINE view == IF own[d] = NoDoc
                   THEN [userDatabase[d] EXCEPT ![session[d]] = u]
                   ELSE userDatabase[d]
           object == IF own[d] = NoDoc THEN NoDoc ELSE u
           w == Update(session[d], fields, u)
<1>1. /\ session[d] \in Names /\ session[d] # NoName
      /\ session[d] \in Known(d) /\ Circle(d) \subseteq Known(d)
      /\ SelfContained(userDatabase[d])
  BY SessionFacts
<1>2. /\ userDatabase' = [userDatabase EXCEPT ![d] = view]
      /\ own' = [own EXCEPT ![d] = object]
      /\ Object(view, object, session[d]) = u
      /\ object = NoDoc <=> own[d] = NoDoc
      /\ own[d] = NoDoc => userDatabase[d][session[d]] # NoDoc
  BY ChangedUser
<1>3. StoreBacked' /\ \A e \in Devices : Known(e) \subseteq Known(e)'
  <2>1. w \in WritesOf(User)
    BY <1>1, WritesIn, UserClosed DEF Closed
  <2>2. Issuable(d, w)
    BY <1>1, AmongMore, UpdateIssuable
  <2> HIDE DEF w
  <2>3. /\ <<w>> \in Seq(WritesOf(User)) /\ DOMAIN <<w>> = {1}
        /\ \A i \in DOMAIN <<w>> : <<w>>[i] = w
    BY <2>1
  <2>4. \A i \in DOMAIN <<w>> : Issuable(d, <<w>>[i])
    BY <2>2, <2>3
  <2>5. Issue(d, <<w>>)
    BY DEF w
  <2>6. QED
    BY <2>3, <2>4, <2>5, IssueBacked DEF AllBacked
<1>4. UNCHANGED loads
  BY DEF Issue
<1>5. Present(view) = Present(userDatabase[d]) /\ SelfContained(view)
  <2>1. CASE own[d] = NoDoc
    <3>1. /\ userDatabase[d] \in [Names -> User \cup {NoDoc}] /\ u # NoDoc
          /\ Circle(d) = Present(userDatabase[d])
      BY <2>1, Types, SessionAssumption DEF ViewsOf, Circle
    <3>2. Present(view) = Present(userDatabase[d])
      BY <1>1, <1>2, <2>1, <3>1 DEF Present
    <3>3. ASSUME NEW n \in Present(view)
          PROVE  Among(view[n], Present(userDatabase[d]))
      <4>1. view[n] = IF n = session[d] THEN u ELSE userDatabase[d][n]
        BY <2>1, <3>1, <3>3 DEF Present
      <4>2. Among(userDatabase[d][n], Present(userDatabase[d]))
        BY <1>1, <3>2, <3>3 DEF SelfContained
      <4>3. QED
        BY <3>1, <4>1, <4>2
    <3> HIDE DEF view
    <3>4. QED
      BY <3>2, <3>3 DEF SelfContained
  <2>2. CASE own[d] # NoDoc
    BY <1>1, <2>2
  <2>3. QED
    BY <2>1, <2>2
<1> HIDE DEF view, object
<1>6. own[d] = NoDoc => s.found \subseteq Present(view)
  BY <1>5
<1>7. QED
  BY <1>1, <1>2, <1>3, <1>4, <1>5, <1>6, ActionBacked

\* A completion that has brought what the phone knew when it was asked.
LEMMA DeliverBacked ==
    ASSUME Inv(User), AllBacked, NEW d \in Devices, Deliver(d)
    PROVE  AllBacked'
<1> DEFINE view == Head(loads[d]).view
           object == IF session[d] = NoName THEN NoDoc ELSE CurrUser(d)
<1>1. /\ userDatabase' = [userDatabase EXCEPT ![d] = view]
      /\ own' = [own EXCEPT ![d] = object]
      /\ session' = [session EXCEPT ![d] = session[d]]
      /\ recipients' = [recipients EXCEPT ![d] = recipients[d]]
      /\ screen' = [screen EXCEPT ![d] = screen[d]]
      /\ loads' = [loads EXCEPT ![d] = Tail(loads[d])]
      /\ cache' = [cache EXCEPT ![d] = cache[d]]
      /\ covered' = [covered EXCEPT ![d] = covered[d]]
      /\ queue' = [queue EXCEPT ![d] = queue[d]]
      /\ applied' = [applied EXCEPT ![d] = applied[d]]
      /\ UNCHANGED <<docs, cache, queue, applied, covered>>
      /\ loads[d] # <<>>
  BY Types DEF Deliver
<1>2. /\ SessionBacked(d) /\ StoreBacked
      /\ \A e \in Devices : Known(e)' = Known(e)
  BY <1>1 DEF AllBacked, Known, KnownBefore
<1>3. loads[d] \in Seq(LoadsOf(User)) /\ loads'[d] = Tail(loads[d])
  BY <1>1, Types
<1>4. StoreBacked'
  <2>1. CacheBacked(d)' /\ QueueBacked(d)' /\ SelfContained(docs)'
        /\ Present(docs) \subseteq Present(docs)'
    BY <1>1, <1>2
    DEF StoreBacked, CacheBacked, QueueBacked, WriteBacked, KnownBefore
  <2>2. \A i \in DOMAIN Tail(loads[d]) :
            i + 1 \in DOMAIN loads[d] /\ Tail(loads[d])[i] = loads[d][i + 1]
    BY <1>1, <1>3
  <2>3. ReadsBacked(d)'
    BY <1>2, <1>3, <2>2
    DEF StoreBacked, ReadsBacked, ViewBacked, Present, SelfContained, Among, Blank
  <2>4. QED
    BY <1>1, <1>2, <2>1, <2>3, StoreStep
<1>5. /\ Present(view) \subseteq Known(d) /\ SelfContained(view)
  <2>1. 1 \in DOMAIN loads[d] /\ Head(loads[d]) = loads[d][1]
    BY <1>1, <1>3
  <2>2. QED
    BY <1>2, <2>1 DEF StoreBacked, ReadsBacked, ViewBacked
<1>6. \A e \in Devices \ {d} : loads'[e] = loads[e]
  BY <1>1, Types
<1>7. PICK known, circle :
          /\ known = Known(d)'
          /\ circle = IF object = NoDoc THEN Present(view) ELSE known
  OBVIOUS
<1>8. ASSUME session[d] # NoName
      PROVE  /\ session[d] \in known /\ object # NoDoc /\ circle = known
             /\ Object(view, object, session[d]) = CurrUser(d)
             /\ Among(CurrUser(d), known) /\ Circle(d) \subseteq known
             /\ ~Patient
  <2>1. screen[d].at # "login" /\ CurrUser(d) # NoDoc
    BY <1>8 DEF Inv, SessionHasUser
  <2>2. /\ session[d] \in Known(d) /\ Among(CurrUser(d), Circle(d))
        /\ Circle(d) \subseteq Known(d)
    BY <2>1, SessionFacts
  <2>3. object = CurrUser(d) /\ known = Known(d)
    BY <1>2, <1>7, <1>8
  <2>4. ~Patient
    BY <1>1, <1>2, <1>8 DEF SessionBacked, Waited
  <2>5. QED
    BY <1>7, <2>1, <2>2, <2>3, <2>4, AmongMore DEF Object
<1>9. session[d] = NoName => object = NoDoc
  OBVIOUS
<1> HIDE DEF view, object
<1>10. session[d] # NoName =>
           /\ session[d] \in known
           /\ Among(Object(view, object, session[d]), circle)
           /\ screen[d].at = "friend" => screen[d].who \in circle \cup Blank
           /\ screen[d].at \in {"pay", "sheet", "confirm"} =>
                  screen[d].who \in Elements(recipients[d])
           /\ object = NoDoc => screen[d].found \subseteq Present(view)
  BY <1>2, <1>8 DEF SessionBacked, UserBacked
<1>11. Patient => object = NoDoc /\ (session[d] # NoName => loads'[d] = <<>>)
  BY <1>8, <1>9
<1>12. Present(view) \subseteq known
  BY <1>2, <1>5, <1>7
<1>13. QED
  BY <1>1, <1>2, <1>4, <1>5, <1>6, <1>7, <1>10, <1>11, <1>12, HandlerBacked

\* The user logs in to an account of the list.
LEMMA LoginBacked ==
    ASSUME Inv(User), AllBacked, NEW d \in Devices, NEW n \in Users[d],
           NEW password, DidTapLogin(d, n, password)
    PROVE  AllBacked'
<1> DEFINE view == userDatabase[d]
           r == view[n].friends
<1>1. /\ userDatabase' = [userDatabase EXCEPT ![d] = view]
      /\ own' = [own EXCEPT ![d] = NoDoc]
      /\ session' = [session EXCEPT ![d] = n]
      /\ recipients' = [recipients EXCEPT ![d] = r]
      /\ screen' = [screen EXCEPT ![d] = Tabs({})]
      /\ UNCHANGED storeVars
      /\ Patient => loads[d] = <<>>
      /\ n \in Present(view)
  <2>1. own[d] = NoDoc
    BY DEF DidTapLogin, Ready, Inv, SessionHasUser
  <2>2. n \in Names
    BY SessionAssumption
  <2>3. QED
    BY <2>1, <2>2, Types DEF DidTapLogin, Show, Present, Ready
<1>2. SessionBacked(d)
  BY DEF AllBacked
<1>3. StoreBacked' /\ \A e \in Devices : Known(e)' = Known(e)
  BY <1>1
  DEF storeVars, AllBacked, StoreBacked, CacheBacked, QueueBacked, WriteBacked,
      ReadsBacked, ViewBacked, KnownBefore, Known
<1>4. UNCHANGED loads
  BY <1>1 DEF storeVars
<1>5. /\ Present(view) \subseteq Known(d)' /\ SelfContained(view)
      /\ Among(view[n], Present(view))
  BY <1>1, <1>2, <1>3 DEF SessionBacked, ViewBacked, SelfContained
<1>6. Object(view, NoDoc, n) = view[n] /\ Tabs({}).at = "tabs" /\ Tabs({}).found = {}
  BY DEF Object, Tabs, LoginScreen
<1>7. PICK known, circle :
          /\ known = Known(d)'
          /\ circle = IF NoDoc = NoDoc THEN Present(view) ELSE known
  OBVIOUS
<1> HIDE DEF view, r
<1>8. /\ Present(view) \subseteq known /\ n \in known
      /\ Among(Object(view, NoDoc, n), circle)
      /\ Tabs({}).at \notin {"friend", "pay", "sheet", "confirm"}
      /\ Tabs({}).found \subseteq Present(view)
      /\ Patient => loads'[d] = <<>>
      /\ \A e \in Devices \ {d} :
             Known(e) \subseteq Known(e)' /\ loads'[e] = loads[e]
  BY <1>1, <1>3, <1>4, <1>5, <1>6, <1>7
<1>9. QED
  BY <1>1, <1>3, <1>5, <1>7, <1>8, HandlerBacked

\* A sign-up makes its account known before the server has it.
LEMMA SignUpBacked ==
    ASSUME Inv(User), AllBacked, NEW d \in Devices, NEW n \in Newcomers[d],
           NEW password \in Passwords, VeryfySignUp(d, n, password)
    PROVE  AllBacked'
<1> DEFINE newUser == [BlankUser EXCEPT !.password = password]
           view == [userDatabase[d] EXCEPT ![n] = newUser]
           w == Create(n, newUser)
<1>1. /\ n \in Names /\ newUser \in User /\ newUser # NoDoc
      /\ newUser.friends = <<>>
  <2>1. n \in Names /\ BlankUser \in User /\ BlankUser.friends = <<>>
    BY SessionAssumption, BlankAmong DEF BlankUser
  <2>2. newUser \in User
    BY <2>1, UserClosed DEF Closed
  <2>3. QED
    BY <2>1, <2>2, SessionAssumption DEF User
<1>2. /\ userDatabase' = [userDatabase EXCEPT ![d] = view]
      /\ own' = [own EXCEPT ![d] = NoDoc]
      /\ session' = [session EXCEPT ![d] = NoName]
      /\ recipients' = [recipients EXCEPT ![d] = recipients[d]]
      /\ screen' = [screen EXCEPT ![d] = screen[d]]
      /\ Issue(d, <<w>>)
  <2>1. own[d] = NoDoc /\ session[d] = NoName
    BY DEF VeryfySignUp, Ready, Inv, SessionHasUser
  <2>2. QED
    BY <2>1, Types DEF VeryfySignUp
<1>3. \A accounts : Among(newUser, accounts)
  BY <1>1 DEF Among, Elements
<1>4. /\ w.doc = n /\ w.set /\ w.mask = Fields /\ w.value = newUser
      /\ w \in WritesOf(User)
  BY <1>1, WritesIn, UserClosed DEF Create, Closed
<1> HIDE DEF newUser, w
<1>5. StoreBacked' /\ \A e \in Devices : Known(e) \subseteq Known(e)'
  <2>1. <<w>> \in Seq(WritesOf(User)) /\ \A i \in DOMAIN <<w>> : <<w>>[i] = w
    BY <1>4
  <2>2. Issuable(d, w)
    BY <1>3, <1>4 DEF Issuable
  <2>3. QED
    BY <1>2, <2>1, <2>2, IssueBacked DEF AllBacked
<1>6. UNCHANGED loads
  BY <1>2 DEF Issue
<1>7. n \in Known(d)'
  <2>1. queue'[d] = queue[d] \o <<w>> /\ queue[d] \in Seq(WritesOf(User))
    BY <1>2, Types DEF Issue
  <2>2. /\ Len(queue'[d]) = Len(queue[d]) + 1 /\ Len(queue[d]) \in Nat
        /\ Len(queue'[d]) \in DOMAIN queue'[d]
        /\ queue'[d][Len(queue'[d])] = w
    BY <2>1
  <2>3. QED
    BY <1>4, <2>2 DEF Known, KnownBefore, CreatedBefore
<1>8. SessionBacked(d) /\ userDatabase[d] \in [Names -> User \cup {NoDoc}]
  BY Types DEF AllBacked, ViewsOf
<1>9. Present(view) = Present(userDatabase[d]) \cup {n}
  BY <1>1, <1>8 DEF Present
<1>10. ASSUME NEW m \in Present(view)
       PROVE  Among(view[m], Present(view))
  <2>1. CASE m = n
    BY <1>1, <1>3, <1>8, <2>1
  <2>2. CASE m # n
    <3>1. view[m] = userDatabase[d][m] /\ m \in Present(userDatabase[d])
      BY <1>8, <1>9, <1>10, <2>2
    <3>2. Among(userDatabase[d][m], Present(userDatabase[d]))
      BY <1>8, <3>1 DEF SessionBacked, ViewBacked, SelfContained
    <3>3. QED
      BY <1>9, <3>1, <3>2, AmongMore
  <2>3. QED
    BY <2>1, <2>2
<1> HIDE DEF view
<1>11. SelfContained(view)
  BY <1>10 DEF SelfContained
<1>12. PICK known : known = Known(d)'
  OBVIOUS
<1>13. Present(view) \subseteq known
  BY <1>5, <1>7, <1>8, <1>9, <1>12 DEF SessionBacked, ViewBacked
<1>14. QED
  BY <1>2, <1>5, <1>6, <1>11, <1>12, <1>13, HandlerBacked

\* The next login screen keeps the list until its read has arrived.
LEMMA LogoutBacked ==
    ASSUME Inv(User), AllBacked, NEW d \in Devices, DidTapLogout(d)
    PROVE  AllBacked'
<1>1. /\ userDatabase' = [userDatabase EXCEPT ![d] = userDatabase[d]]
      /\ own' = [own EXCEPT ![d] = NoDoc]
      /\ session' = [session EXCEPT ![d] = NoName]
      /\ recipients' = [recipients EXCEPT ![d] = recipients[d]]
      /\ screen' = [screen EXCEPT ![d] = LoginScreen]
      /\ AskForUsers(d)
  BY Types DEF DidTapLogout, Show
<1>2. StoreBacked' /\ \A e \in Devices : Known(e) \subseteq Known(e)'
  BY <1>1, AskBacked DEF AllBacked
<1>3. \A e \in Devices \ {d} : loads'[e] = loads[e]
  BY <1>1, Types DEF AskForUsers
<1>4. SessionBacked(d)
  BY DEF AllBacked
<1>5. PICK known : known = Known(d)'
  OBVIOUS
<1>6. Present(userDatabase[d]) \subseteq known /\ SelfContained(userDatabase[d])
  BY <1>2, <1>4, <1>5 DEF SessionBacked, ViewBacked
<1>7. QED
  BY <1>1, <1>2, <1>3, <1>5, <1>6, HandlerBacked

\* The login, sign-up and setting screens, and the completion of the read.
LEMMA SessionBackedNext ==
    ASSUME ~MayRefuse, Inv(User), AllBacked, NEW d \in Devices, SessionStep(d)
    PROVE  AllBacked'
<1>1. CASE Dismiss(d)
  <2> DEFINE s == Tabs(screen[d].found)
  <2>1. /\ Show(d, s) /\ screen[d].at # "login"
        /\ UNCHANGED <<storeVars, loaded, userDatabase, session, own,
                       recipients, taps>>
    BY <1>1 DEF Dismiss
  <2>2. s.at = "tabs" /\ s.found = screen[d].found
    BY DEF Tabs, LoginScreen
  <2>3. own[d] = NoDoc => screen[d].found \subseteq Present(userDatabase[d])
    BY <2>1, SessionFacts DEF SessionBacked, UserBacked
  <2> HIDE DEF s
  <2>4. QED
    BY <2>1, <2>2, <2>3, LookBacked
<1>2. CASE DidTapTooEarly(d) \/ Crash(d)
  BY <1>2, KilledBacked DEF DidTapTooEarly, Crash
<1>3. ~LoadFails(d)
  BY DEF LoadFails
<1>4. QED
  BY <1>1, <1>2, <1>3, DeliverBacked, LoginBacked, SignUpBacked, LogoutBacked
  DEF SessionStep

\* The writes of a payment: the payer's balance, the payee's, and with the ten
\* per cent the payer's investments.
LEMMA PaymentWritesAre ==
    ASSUME Inv(User), NEW d \in Devices,
           screen[d].at = "confirm", screen[d].who \in Names
    PROVE  LET ws == PaymentWrites(d)
               payee == IF Credited(d)[screen[d].who] = NoDoc THEN BlankUser
                        ELSE Credited(d)[screen[d].who]
           IN /\ ws \in Seq(WritesOf(User))
              /\ DOMAIN ws = IF screen[d].invest THEN 1..3 ELSE 1..2
              /\ ws[1] = Update(session[d], {"balance"},
                        [CurrUser(d) EXCEPT !.balance = @ - screen[d].amount])
              /\ ws[2] = Update(screen[d].who, {"balance"}, payee)
              /\ screen[d].invest =>
                    ws[3] = Update(session[d], {"investmentBalance"}, Invested(d))
<1>1. PaymentWrites(d) \in Seq(WritesOf(User))
  BY PaymentIn, UserClosed
<1>2. PICK one, two, three :
          /\ one = Update(session[d], {"balance"},
                        [CurrUser(d) EXCEPT !.balance = @ - screen[d].amount])
          /\ two = Update(screen[d].who, {"balance"},
                        IF Credited(d)[screen[d].who] = NoDoc THEN BlankUser
                        ELSE Credited(d)[screen[d].who])
          /\ three = Update(session[d], {"investmentBalance"}, Invested(d))
  OBVIOUS
<1>3. PICK balances, invested : /\ balances = <<one, two>>
                               /\ invested = IF screen[d].invest THEN <<three>>
                                             ELSE <<>>
  OBVIOUS
<1>4. PaymentWrites(d) = balances \o invested
  BY <1>2, <1>3 DEF PaymentWrites
<1>5. /\ balances \in Seq({one, two, three}) /\ Len(balances) = 2
      /\ balances[1] = one /\ balances[2] = two
  BY <1>3
<1>6. /\ invested \in Seq({one, two, three})
      /\ IF screen[d].invest THEN Len(invested) = 1 /\ invested[1] = three
                             ELSE Len(invested) = 0
  <2>1. CASE screen[d].invest
    <3>1. invested = <<three>>
      BY <1>3, <2>1
    <3>2. QED
      BY <2>1, <3>1
  <2>2. CASE ~screen[d].invest
    <3>1. invested = <<>>
      BY <1>3, <2>2
    <3>2. QED
      BY <2>2, <3>1
  <2>3. QED
    BY <2>1, <2>2
<1> DEFINE ws == PaymentWrites(d)
<1> HIDE DEF ws
<1>7. /\ Len(ws) = Len(balances) + Len(invested)
      /\ \A i \in 1..(Len(balances) + Len(invested)) :
             ws[i] = IF i <= Len(balances) THEN balances[i]
                     ELSE invested[i - Len(balances)]
  <2>1. /\ balances \in Seq({one, two, three})
        /\ invested \in Seq({one, two, three})
    BY <1>5, <1>6
  <2>2. ws = balances \o invested
    BY <1>4 DEF ws
  <2>3. QED
    BY <2>1, <2>2, ConcatProperties
<1>8. ws[1] = one /\ ws[2] = two /\ (screen[d].invest => ws[3] = three)
  BY <1>5, <1>6, <1>7
<1>9. DOMAIN ws = IF screen[d].invest THEN 1..3 ELSE 1..2
  <2>1. ws \in Seq(WritesOf(User))
    BY <1>1 DEF ws
  <2>2. DOMAIN ws = 1..Len(ws)
    BY <2>1
  <2>3. Len(ws) = IF screen[d].invest THEN 3 ELSE 2
    BY <1>5, <1>6, <1>7
  <2>4. QED
    BY <2>2, <2>3
<1>10. QED
  BY <1>1, <1>2, <1>8, <1>9 DEF ws

\* An update that leaves the friends alone sends none.
LEMMA OtherFieldsIssuable ==
    ASSUME NEW d \in Devices, NEW n \in Known(d), NEW u, NEW fields,
           "friends" \notin fields
    PROVE  Issuable(d, Update(n, fields, u))
<1>1. Patched(BlankUser, fields, u).friends = <<>>
  BY DEF Patched, BlankUser
<1>2. Among(Patched(BlankUser, fields, u), Known(d))
  BY <1>1 DEF Among, Elements
<1>3. QED
  BY <1>2 DEF Issuable, Update

\* The payee of a payment is an account the user has met.
LEMMA PayeeMet ==
    ASSUME Inv(User), AllBacked, RecipientsAreFriends, NEW d \in Devices,
           screen[d].at \in {"pay", "sheet", "confirm"}, screen[d].who \in Names
    PROVE  screen[d].who \in Circle(d)
<1>1. /\ session[d] # NoName /\ SessionBacked(d)
      /\ Among(CurrUser(d), Circle(d))
  BY SessionFacts
<1>2. /\ recipients[d] = CurrUser(d).friends
      /\ screen[d].who \in Elements(recipients[d])
  BY <1>1 DEF RecipientsAreFriends, SessionBacked, UserBacked
<1>3. QED
  BY <1>1, <1>2, SessionAssumption DEF Among, Blank

\* The OK handler changes no friends and pays an account that is known.
LEMMA ConfirmBacked ==
    ASSUME Inv(User), AllBacked, RecipientsAreFriends, NEW d \in Devices,
           DidConfirmPay(d)
    PROVE  AllBacked'
<1> DEFINE view == IF own[d] = NoDoc
                   THEN [Credited(d) EXCEPT ![session[d]] = Invested(d)]
                   ELSE Credited(d)
           object == IF own[d] = NoDoc THEN NoDoc ELSE Invested(d)
           s == Tabs(screen[d].found)
           ws == PaymentWrites(d)
<1>1. /\ screen[d].at = "confirm" /\ screen[d].who \in Names
      /\ userDatabase' = [userDatabase EXCEPT ![d] = view]
      /\ own' = [own EXCEPT ![d] = object]
      /\ recipients' = [recipients EXCEPT ![d] = recipients[d]]
      /\ screen' = [screen EXCEPT ![d] = s]
      /\ Issue(d, ws) /\ UNCHANGED session
  BY Types DEF DidConfirmPay, Show
<1>2. /\ session[d] \in Names /\ session[d] # NoName
      /\ session[d] \in Known(d) /\ CurrUser(d) \in User
      /\ Among(CurrUser(d), Circle(d)) /\ Circle(d) \subseteq Known(d)
      /\ SelfContained(userDatabase[d]) /\ SessionBacked(d)
  BY <1>1, SessionFacts
<1>3. screen[d].who \in Known(d)
  BY <1>1, <1>2, PayeeMet
<1>4. StoreBacked' /\ \A e \in Devices : Known(e) \subseteq Known(e)'
  <2>1. ws \in Seq(WritesOf(User))
    BY <1>1, PaymentWritesAre
  <2>2. ASSUME NEW i \in DOMAIN ws
        PROVE  Issuable(d, ws[i])
    <3>0. PICK n \in Known(d), fields \in {{"balance"}, {"investmentBalance"}} :
              \E u : ws[i] = Update(n, fields, u)
      <4>1. i = 1 \/ i = 2 \/ (i = 3 /\ screen[d].invest)
        <5>1. DOMAIN ws = IF screen[d].invest THEN 1..3 ELSE 1..2
          BY <1>1, PaymentWritesAre
        <5>2. QED
          BY <5>1
      <4>2. \E u : ws[1] = Update(session[d], {"balance"}, u)
        BY <1>1, PaymentWritesAre
      <4>3. \E u : ws[2] = Update(screen[d].who, {"balance"}, u)
        BY <1>1, PaymentWritesAre
      <4>4. screen[d].invest =>
                ws[3] = Update(session[d], {"investmentBalance"}, Invested(d))
        BY <1>1, PaymentWritesAre
      <4> HIDE DEF ws
      <4>5. QED
        BY <1>2, <1>3, <4>1, <4>2, <4>3, <4>4
    <3>1. PICK u : ws[i] = Update(n, fields, u)
      BY <3>0
    <3>2. QED
      BY <3>1, OtherFieldsIssuable
  <2>3. QED
    BY <1>1, <2>1, <2>2, IssueBacked DEF AllBacked
<1>5. UNCHANGED loads
  BY <1>1 DEF Issue
<1>6. /\ Credited(d) \in ViewsOf(User) /\ Invested(d) \in User
      /\ Invested(d).friends = CurrUser(d).friends
      /\ \A n \in Names :
             /\ Credited(d)[n] = NoDoc <=> userDatabase[d][n] = NoDoc
             /\ userDatabase[d][n] # NoDoc =>
                    Credited(d)[n].friends = userDatabase[d][n].friends
      /\ userDatabase[d] \in [Names -> User \cup {NoDoc}] /\ NoDoc \notin User
  BY <1>1, PaymentObjects, Types, SessionAssumption DEF Fields, ViewsOf
<1>7. own[d] = NoDoc => userDatabase[d][session[d]] = CurrUser(d)
  BY DEF CurrUser
<1>8. \A n \in Names :
          /\ view[n] = NoDoc <=> userDatabase[d][n] = NoDoc
          /\ userDatabase[d][n] # NoDoc =>
                 view[n].friends = userDatabase[d][n].friends
  BY <1>2, <1>6, <1>7 DEF ViewsOf
<1>9. /\ Object(view, object, session[d]) = Invested(d)
      /\ object = NoDoc <=> own[d] = NoDoc
  BY <1>2, <1>6 DEF Object, ViewsOf
<1> HIDE DEF view, object
<1>10. Present(view) = Present(userDatabase[d]) /\ SelfContained(view)
  <2>1. Present(view) = Present(userDatabase[d])
    BY <1>8 DEF Present
  <2>2. QED
    BY <1>2, <1>8, <2>1 DEF SelfContained, Among, Present
<1>11. Among(Object(view, object, session[d]), Circle(d))
  BY <1>2, <1>6, <1>9 DEF Among
<1>12. /\ s.at = "tabs" /\ s.found = screen[d].found
       /\ own[d] = NoDoc => screen[d].found \subseteq Present(view)
  BY <1>2, <1>10 DEF Tabs, LoginScreen, SessionBacked, UserBacked
<1> HIDE DEF s
<1>13. QED
  BY <1>1, <1>2, <1>4, <1>5, <1>9, <1>10, <1>11, <1>12, ActionBacked

\* The payer's debit may be stored before a payee with no name ends the app.
LEMMA NobodyBacked ==
    ASSUME Inv(User), AllBacked, NEW d \in Devices, DidConfirmPayNobody(d)
    PROVE  AllBacked'
<1> DEFINE debit == Update(session[d], {"balance"},
                      [CurrUser(d) EXCEPT !.balance = @ - screen[d].amount])
           issued == Append(queue[d], debit)
<1>1. PICK stored \in durable[d]..Len(issued) :
          Restart(d, SubSeq(issued, 1, stored))
  BY DEF DidConfirmPayNobody
<1>2. /\ session[d] \in Names /\ session[d] \in Known(d)
      /\ CurrUser(d) \in User /\ screen[d].amount \in Int
  BY SessionFacts, Types DEF DidConfirmPayNobody, Screen
<1>3. debit \in WritesOf(User) /\ Issuable(d, debit)
  <2>1. [CurrUser(d) EXCEPT !.balance = @ - screen[d].amount] \in User
    BY <1>2, BalanceIn, UserClosed
  <2>2. QED
    BY <1>2, <2>1, WritesIn, UserClosed, OtherFieldsIssuable DEF Closed, Fields
<1> HIDE DEF debit
<1>4. /\ queue[d] \in Seq(WritesOf(User)) /\ durable[d] \in Nat
      /\ issued \in Seq(WritesOf(User)) /\ Len(issued) = Len(queue[d]) + 1
      /\ Len(queue[d]) \in Nat
  BY <1>3, Types
<1> DEFINE kept == SubSeq(issued, 1, stored)
<1>5. /\ kept \in Seq(WritesOf(User)) /\ DOMAIN kept = 1..stored
      /\ \A i \in 1..stored : kept[i] = issued[i]
  BY <1>4
<1>6. \A i \in DOMAIN kept :
          IF i <= Len(queue[d]) THEN kept[i] = queue[d][i]
                                ELSE Issuable(d, kept[i])
  BY <1>3, <1>4, <1>5
<1> HIDE DEF kept
<1>7. Restart(d, kept)
  BY <1>1 DEF kept
<1>8. QED
  BY <1>5, <1>6, <1>7, RestartBacked

\* Paying a friend, page by page.
LEMMA PaymentBacked ==
    ASSUME Inv(User), AllBacked, RecipientsAreFriends, NEW d \in Devices,
           PaymentStep(d)
    PROVE  AllBacked'
<1>1. ASSUME NEW s, Show(d, s), screen[d].at # "login",
             UNCHANGED <<storeVars, loaded, userDatabase, session, own,
                         recipients, taps>>,
             s.at # "friend", s.found = screen[d].found,
             \/ /\ s.who = screen[d].who
                /\ screen[d].at \in {"pay", "sheet", "confirm"}
             \/ s.who \in Elements(recipients[d])
      PROVE  AllBacked'
  <2>1. SessionBacked(d) /\ session[d] # NoName
    BY <1>1, SessionFacts
  <2>2. /\ s.who \in Elements(recipients[d])
        /\ own[d] = NoDoc => s.found \subseteq Present(userDatabase[d])
    BY <1>1, <2>1 DEF SessionBacked, UserBacked
  <2>3. QED
    BY <1>1, <2>2, LookBacked
<1>2. screen[d] \in Screen
  BY Types
<1>3. ASSUME NEW n \in Names \cup {NoName}, DidSelectRecipient(d, n)
      PROVE  AllBacked'
  <2> DEFINE s == [screen[d] EXCEPT !.at = "pay", !.who = n]
  <2>1. /\ s.at = "pay" /\ s.who = n /\ s.found = screen[d].found
    BY <1>2 DEF Screen
  <2>2. Show(d, s) /\ n \in Elements(recipients[d]) /\ screen[d].at = "tabs"
        /\ UNCHANGED <<storeVars, loaded, userDatabase, session, own,
                       recipients, taps>>
    BY <1>3 DEF DidSelectRecipient
  <2> HIDE DEF s
  <2>3. QED
    BY <1>1, <2>1, <2>2
<1>4. ASSUME NEW a \in Amounts, DidTapPayButton(d, a)
      PROVE  AllBacked'
  <2> DEFINE s == [screen[d] EXCEPT !.at = "sheet", !.amount = a]
  <2>1. /\ s.at = "sheet" /\ s.who = screen[d].who /\ s.found = screen[d].found
    BY <1>2 DEF Screen
  <2>2. Show(d, s) /\ screen[d].at = "pay"
        /\ UNCHANGED <<storeVars, loaded, userDatabase, session, own,
                       recipients, taps>>
    BY <1>4 DEF DidTapPayButton
  <2> HIDE DEF s
  <2>3. QED
    BY <1>1, <2>1, <2>2
<1>5. ASSUME NEW invest \in BOOLEAN, ShowConfirmationAlert(d, invest)
      PROVE  AllBacked'
  <2> DEFINE s == [screen[d] EXCEPT !.at = "confirm", !.invest = invest]
  <2>1. /\ s.at = "confirm" /\ s.who = screen[d].who
        /\ s.found = screen[d].found
    BY <1>2 DEF Screen
  <2>2. Show(d, s) /\ screen[d].at = "sheet"
        /\ UNCHANGED <<storeVars, loaded, userDatabase, session, own,
                       recipients, taps>>
    BY <1>5 DEF ShowConfirmationAlert
  <2> HIDE DEF s
  <2>3. QED
    BY <1>1, <2>1, <2>2
<1>6. CASE DidTapDiscard(d)
  <2> DEFINE s == [screen[d] EXCEPT !.at = "pay", !.amount = 0,
                                    !.invest = FALSE]
  <2>1. /\ s.at = "pay" /\ s.who = screen[d].who /\ s.found = screen[d].found
    BY <1>2 DEF Screen
  <2>2. Show(d, s) /\ screen[d].at \in {"sheet", "confirm"}
        /\ UNCHANGED <<storeVars, loaded, userDatabase, session, own,
                       recipients, taps>>
    BY <1>6 DEF DidTapDiscard
  <2> HIDE DEF s
  <2>3. QED
    BY <1>1, <2>1, <2>2
<1>7. CASE DidTapPayUnparsable(d)
  BY <1>7, KilledBacked DEF DidTapPayUnparsable
<1>8. QED
  BY <1>3, <1>4, <1>5, <1>6, <1>7, ConfirmBacked, NobodyBacked DEF PaymentStep

\* The search shows accounts of the list; the friend page the one it finds
\* again, and with users who wait it does find it.
LEMMA FriendsBacked ==
    ASSUME Inv(User), AllBacked, NEW d \in Devices, FriendsStep(d)
    PROVE  AllBacked'
<1> DEFINE present == Present(userDatabase[d])
<1>1. screen[d].at # "login"
  BY DEF FriendsStep, DidTapSearchButton, DidSelectResult, DidSelectFriend,
         DidTapModifyFriendButton
<1>2. /\ session[d] \in Names /\ CurrUser(d) \in User
      /\ Among(CurrUser(d), Circle(d)) /\ Circle(d) \subseteq Known(d)
      /\ SessionBacked(d) /\ session[d] # NoName /\ present \subseteq Known(d)
      /\ screen[d] \in Screen
  BY <1>1, SessionFacts, Types
<1>3. present \subseteq Circle(d)
  BY <1>2 DEF Circle
<1>4. \A n \in Names : n \in present => FoundName(d, n) \in Circle(d)
  BY <1>3 DEF FoundName, Present
<1>5. \A n \in Names : n \notin present => FoundName(d, n) = NoName
  BY DEF FoundName, Present
<1>6. ASSUME NEW q \in Queries, DidTapSearchButton(d, q)
      PROVE  AllBacked'
  <2> DEFINE s == Tabs({n \in q : userDatabase[d][n] # NoDoc})
  <2>1. q \subseteq Names
    BY QueriesAssumption
  <2>2. s.at = "tabs" /\ s.found \subseteq present
    BY <2>1 DEF Tabs, LoginScreen, Present
  <2>3. Show(d, s) /\ UNCHANGED <<storeVars, loaded, userDatabase, session, own,
                                 recipients, taps>>
    BY <1>6 DEF DidTapSearchButton
  <2> HIDE DEF s
  <2>4. QED
    BY <1>1, <2>2, <2>3, LookBacked
<1>7. ASSUME NEW n \in Names, DidSelectResult(d, n)
      PROVE  AllBacked'
  <2> DEFINE s == [Tabs({}) EXCEPT !.at = "friend", !.who = FoundName(d, n),
                                   !.known = IsFriend(d, n)]
  <2>1. s.at = "friend" /\ s.who = FoundName(d, n) /\ s.found = {}
    BY DEF Tabs, LoginScreen
  <2>2. Show(d, s) /\ UNCHANGED <<storeVars, loaded, userDatabase, session, own,
                                 recipients, taps>>
        /\ n \in screen[d].found
    BY <1>7 DEF DidSelectResult
  <2> HIDE DEF s
  <2>3. s.who \in Circle(d) \cup Blank
    <3>1. Patient => n \in present
      BY <1>2, <2>2 DEF SessionBacked, UserBacked, Waited
    <3>2. QED
      BY <1>4, <1>5, <2>1, <3>1 DEF Blank
  <2>4. QED
    BY <1>1, <2>1, <2>2, <2>3, LookBacked
<1>8. ASSUME NEW n \in Names, DidSelectFriend(d, n)
      PROVE  AllBacked'
  <2> DEFINE s == [Tabs(screen[d].found) EXCEPT !.at = "friend",
                      !.who = FoundName(d, n), !.known = TRUE]
  <2>1. s.at = "friend" /\ s.who = FoundName(d, n) /\ s.found = screen[d].found
    BY DEF Tabs, LoginScreen
  <2>2. Show(d, s) /\ UNCHANGED <<storeVars, loaded, userDatabase, session, own,
                                 recipients, taps>>
        /\ n \in Elements(CurrUser(d).friends)
    BY <1>8 DEF DidSelectFriend
  <2> HIDE DEF s
  <2>3. s.who \in Circle(d) \cup Blank
    <3>1. n \in Circle(d)
      BY <1>2, <2>2, SessionAssumption DEF Among, Blank
    <3>2. Patient => n \in present
      BY <1>2, <3>1 DEF SessionBacked, Waited, Circle
    <3>3. QED
      BY <1>4, <1>5, <2>1, <3>2 DEF Blank
  <2>4. own[d] = NoDoc => s.found \subseteq present
    BY <1>2, <2>1 DEF SessionBacked, UserBacked
  <2>5. QED
    BY <1>1, <2>1, <2>2, <2>3, <2>4, LookBacked
<1>9. CASE DidTapModifyFriendButton(d)
  <2> DEFINE n == screen[d].who
             u == [CurrUser(d) EXCEPT !.friends = Append(@, n)]
             s == [screen[d] EXCEPT !.known = TRUE, !.found = {}]
  <2>1. /\ ChangeCurrUser(d, u) /\ UNCHANGED session
        /\ Issue(d, <<Update(session[d], {"friends"}, u)>>)
        /\ recipients' = [recipients EXCEPT ![d] = u.friends]
        /\ screen' = [screen EXCEPT ![d] = s]
        /\ screen[d].at = "friend" /\ ~screen[d].known
    BY <1>9 DEF DidTapModifyFriendButton, Show
  <2>2. s.at = "friend" /\ s.who = n /\ s.found = {}
    BY <1>2, <2>1 DEF Screen
  <2>3. n \in Circle(d) \cup Blank
    BY <1>2, <2>1 DEF SessionBacked, UserBacked
  <2>4. n \in Names \cup {NoName}
    BY <1>2 DEF Screen
  <2>5. u \in User
    <3>1. n = NoName \/ n \notin Elements(CurrUser(d).friends)
      BY <2>1 DEF Inv, PageSettled
    <3>2. QED
      BY <1>2, <2>4, <3>1, UserClosed DEF Closed
  <2>6. Among(u, Circle(d))
    <3>1. /\ CurrUser(d).friends \in Seq(Names \cup {NoName})
          /\ u.friends = Append(CurrUser(d).friends, n)
      BY <1>2 DEF User
    <3>2. Elements(u.friends) \subseteq Elements(CurrUser(d).friends) \cup {n}
      BY <2>4, <3>1 DEF Elements
    <3>3. QED
      BY <1>2, <2>3, <3>2 DEF Among
  <2> HIDE DEF u, s
  <2>7. {"friends"} \in SUBSET Fields
    BY DEF Fields
  <2>8. QED
    BY <1>1, <2>1, <2>2, <2>3, <2>5, <2>6, <2>7, ChangeBacked
<1>10. QED
  BY <1>6, <1>7, <1>8, <1>9 DEF FriendsStep

\* Trades, cards and passwords have nothing to do with friends.
LEMMA OtherChangesBacked ==
    ASSUME Inv(User), AllBacked, NEW d \in Devices,
           TradingStep(d) \/ SettingsStep(d)
    PROVE  AllBacked'
<1> DEFINE me == CurrUser(d)
<1>1. screen[d].at # "login"
  BY DEF TradingStep, DidTapSearchStock, BuyButton, SellButton, Trade,
         SettingsStep, DidTapAddCardButton, DidTapChangePassword
<1>2. /\ me \in User /\ Among(me, Circle(d)) /\ SessionBacked(d)
      /\ session[d] # NoName /\ screen[d] \in Screen
  BY <1>1, SessionFacts, Types
<1>3. ASSUME NEW u \in User, NEW fields \in SUBSET Fields,
             u.friends = me.friends, ChangeCurrUser(d, u),
             Issue(d, <<Update(session[d], fields, u)>>),
             UNCHANGED <<session, recipients, screen>>
      PROVE  AllBacked'
  <2>1. Among(u, Circle(d))
    BY <1>2, <1>3 DEF Among
  <2>2. /\ recipients' = [recipients EXCEPT ![d] = recipients[d]]
        /\ screen' = [screen EXCEPT ![d] = screen[d]]
    BY <1>3, Types
  <2>3. QED
    BY <1>1, <1>2, <1>3, <2>1, <2>2, ChangeBacked DEF SessionBacked, UserBacked
<1>4. ASSUME NEW u \in User, u.friends = me.friends, Trade(d, u)
      PROVE  AllBacked'
  <2>1. {"stock", "investmentBalance"} \in SUBSET Fields
    BY DEF Fields
  <2>2. QED
    BY <1>3, <1>4, <2>1 DEF Trade
<1>5. ASSUME NEW q \in Quantities, BuyButton(d, q) \/ SellButton(d, q)
      PROVE  AllBacked'
  <2> DEFINE s == screen[d].symbol
             p == screen[d].price
  <2>1. s \in Symbols /\ p \in Int /\ q \in Int
    BY <1>2, <1>5, TradingAssumption
    DEF BuyButton, SellButton, Trade, Inv, PageSettled, Screen
  <2>2. /\ CanBuy(me, q, p) => /\ Bought(me, s, q, p) \in User
                               /\ Bought(me, s, q, p).friends = me.friends
        /\ CanSell(me, s, q) => /\ Sold(me, s, q, p) \in User
                                /\ Sold(me, s, q, p).friends = me.friends
    <3>1. /\ CanBuy(me, q, p) => Bought(me, s, q, p) \in User
          /\ CanSell(me, s, q) => Sold(me, s, q, p) \in User
      BY <1>2, <2>1, TradedTypes
    <3>2. QED
      BY <1>2, <3>1 DEF Bought, Sold, User
  <2>3. QED
    BY <1>2, <1>4, <1>5, <2>2 DEF BuyButton, SellButton
<1>6. ASSUME NEW c \in NewCards, DidTapAddCardButton(d, c)
      PROVE  AllBacked'
  <2> DEFINE u == [me EXCEPT !.cards = Append(@, c)]
  <2>1. /\ ChangeCurrUser(d, u)
        /\ Issue(d, <<Update(session[d], {"cards"}, u)>>)
        /\ UNCHANGED <<session, recipients, screen>>
    BY <1>6 DEF DidTapAddCardButton
  <2>2. u \in User /\ {"cards"} \in SUBSET Fields
    BY <1>2, SettingsAssumption, UserClosed DEF Closed, Fields
  <2>3. u.friends = me.friends
    BY <1>2 DEF User
  <2> HIDE DEF u
  <2>4. QED
    BY <1>3, <2>1, <2>2, <2>3
<1>7. ASSUME NEW p \in Passwords, NEW q \in NewPasswords,
             DidTapChangePassword(d, p, q)
      PROVE  AllBacked'
  <2> DEFINE u == [me EXCEPT !.password = q]
  <2>1. /\ ChangeCurrUser(d, u)
        /\ Issue(d, <<Update(session[d], {"password"}, u)>>)
        /\ UNCHANGED <<session, recipients, screen>>
    BY <1>7 DEF DidTapChangePassword
  <2>2. u \in User /\ {"password"} \in SUBSET Fields
    BY <1>2, SettingsAssumption, UserClosed DEF Closed, Fields
  <2>3. u.friends = me.friends
    BY <1>2 DEF User
  <2> HIDE DEF u
  <2>4. QED
    BY <1>3, <2>1, <2>2, <2>3
<1>8. ASSUME NEW t \in Symbols, NEW p \in Quotes, DidTapSearchStock(d, t, p)
      PROVE  AllBacked'
  <2> DEFINE s == [screen[d] EXCEPT !.at = "stock", !.symbol = t, !.price = p]
  <2>1. s.at = "stock" /\ s.found = screen[d].found
    BY <1>2 DEF Screen
  <2>2. Show(d, s) /\ UNCHANGED <<storeVars, loaded, userDatabase, session, own,
                                 recipients, taps>>
    BY <1>8 DEF DidTapSearchStock
  <2> HIDE DEF s
  <2>3. own[d] = NoDoc => s.found \subseteq Present(userDatabase[d])
    BY <1>2, <2>1 DEF SessionBacked, UserBacked
  <2>4. QED
    BY <1>1, <2>1, <2>2, <2>3, LookBacked
<1>9. QED
  BY <1>5, <1>6, <1>7, <1>8 DEF TradingStep, SettingsStep

\* Every step keeps the invariant.
LEMMA NextBacked ==
    ASSUME ~MayRefuse, Inv(User), AllBacked, RecipientsAreFriends, [Next]_vars
    PROVE  AllBacked'
<1>1. CASE UNCHANGED vars
  <2>1. /\ UNCHANGED docs /\ UNCHANGED cache /\ UNCHANGED queue
        /\ UNCHANGED applied /\ UNCHANGED covered /\ UNCHANGED loads
        /\ UNCHANGED userDatabase /\ UNCHANGED own /\ UNCHANGED session
        /\ UNCHANGED recipients /\ UNCHANGED screen
    BY <1>1 DEF vars, storeVars, appVars
  <2>2. \A d \in Devices : /\ Known(d)' = Known(d)
                           /\ \A i : KnownBefore(d, i)' = KnownBefore(d, i)
    BY <2>1 DEF Known, KnownBefore
  <2>3. StoreBacked'
    BY <2>1, <2>2
    DEF AllBacked, StoreBacked, CacheBacked, QueueBacked, WriteBacked,
        ReadsBacked, ViewBacked
  <2>4. ASSUME NEW d \in Devices
        PROVE  SessionBacked(d)'
    BY <2>1, <2>2, SessionStays DEF AllBacked
  <2>5. QED
    BY <2>3, <2>4 DEF AllBacked
<1>2. ASSUME NEW d \in Devices, Step(d)
      PROVE  AllBacked'
  BY <1>2, BackgroundBacked, SessionBackedNext, PaymentBacked, FriendsBacked,
     OtherChangesBacked DEF Step
<1>3. QED
  BY <1>1, <1>2 DEF Next

\* At the start nothing is known but the server's documents.
LEMMA InitBacked ==
    ASSUME SelfContained(InitialDocs), Init
    PROVE  AllBacked /\ RecipientsAreFriends
<1>1. /\ docs = InitialDocs /\ cache = [d \in Devices |-> EmptyView]
      /\ queue = [d \in Devices |-> <<>>]
      /\ loads = [d \in Devices |->
                    <<[behind |-> 0, ready |-> FALSE, view |-> EmptyView]>>]
      /\ userDatabase = [d \in Devices |-> EmptyView]
      /\ session = [d \in Devices |-> NoName]
      /\ own = [d \in Devices |-> NoDoc]
  BY DEF Init, StoreInit, SessionInit
<1>2. Present(EmptyView) = {} /\ SelfContained(EmptyView)
  BY DEF EmptyView, Present, SelfContained
<1>3. ASSUME NEW d \in Devices
      PROVE  /\ CacheBacked(d) /\ QueueBacked(d) /\ ReadsBacked(d)
             /\ SessionBacked(d)
  <2>1. /\ cache[d] = EmptyView /\ queue[d] = <<>>
        /\ userDatabase[d] = EmptyView /\ session[d] = NoName /\ own[d] = NoDoc
        /\ \A i \in DOMAIN loads[d] : loads[d][i].view = EmptyView
    BY <1>1
  <2>2. QED
    BY <1>2, <2>1
    DEF CacheBacked, QueueBacked, ReadsBacked, SessionBacked, ViewBacked,
        UserBacked, Waited
<1>4. QED
  BY <1>1, <1>3 DEF AllBacked, StoreBacked, RecipientsAreFriends

--------------------------------------------------------------------------------
(* The theorems.                                                              *)

\* The payee table shows the friends of the user who is logged in and of
\* nobody else, although AddRecipientsViewController keeps it in a global that
\* neither a logout nor a read touches: on any number of phones, with any
\* server and users who wait for no read.
THEOREM PayeeTableIsFriendList == Spec => []RecipientsAreFriends
<1>1. Init => Inv(User) /\ RecipientsAreFriends
  <2>1. InitialDocs \in ViewsOf(User)
    BY SessionAssumption DEF View, ViewsOf
  <2>2. Init => RecipientsAreFriends
    BY DEF Init, SessionInit, RecipientsAreFriends
  <2>3. QED
    BY <2>1, <2>2, InitInv
<1>2. Inv(User) /\ RecipientsAreFriends /\ [Next]_vars
      => (Inv(User) /\ RecipientsAreFriends)'
  BY UserClosed, NextInv, NextTable
<1>3. QED
  BY <1>1, <1>2, PTL DEF Spec

\* With a server that refuses nothing, and documents to start with whose
\* friends are accounts, every phone keeps to accounts it has met.
LEMMA Backing ==
    ASSUME ~MayRefuse, SelfContained(InitialDocs)
    PROVE  Spec => [](Inv(User) /\ RecipientsAreFriends /\ AllBacked)
<1>1. Init => Inv(User) /\ RecipientsAreFriends /\ AllBacked
  <2>1. InitialDocs \in ViewsOf(User)
    BY SessionAssumption DEF View, ViewsOf
  <2>2. QED
    BY <2>1, InitInv, InitBacked
<1>2. Inv(User) /\ RecipientsAreFriends /\ AllBacked /\ [Next]_vars
      => (Inv(User) /\ RecipientsAreFriends /\ AllBacked)'
  BY UserClosed, NextInv, NextTable, NextBacked
<1>3. QED
  BY <1>1, <1>2, PTL DEF Spec

\* No update is in vain, whatever the phones do and however often streams
\* break and processes are killed: its document is on the server by the time
\* it gets there, or its creation is ahead of it.  The reason is that a phone
\* gets to know an account only from the server or by creating it.
THEOREM UpdatesHaveTargets ==
    ASSUME ~MayRefuse, SelfContained(InitialDocs)
    PROVE  Spec => []UpdatesTargetKnownDocs
<1>1. ASSUME AllBacked, Inv(User)
      PROVE  UpdatesTargetKnownDocs
  <2>1. ASSUME NEW d \in Devices, NEW i \in DOMAIN queue[d], ~queue[d][i].set
        PROVE  Backed(d, queue[d][i].doc, i)
    <3>1. queue[d][i].doc \in KnownBefore(d, i) /\ CacheBacked(d)
      BY <1>1, <2>1 DEF AllBacked, StoreBacked, QueueBacked, WriteBacked
    <3>2. CASE queue[d][i].doc \in Present(cache[d])
      BY <3>1, <3>2 DEF CacheBacked, Present, Backed
    <3>3. CASE queue[d][i].doc \in CreatedBefore(queue[d], i)
      BY <3>3 DEF CreatedBefore, Backed
    <3>4. QED
      BY <3>1, <3>2, <3>3 DEF KnownBefore
  <2>2. QED
    BY <2>1 DEF UpdatesTargetKnownDocs
<1>2. QED
  BY <1>1, Backing, PTL

\* With users who wait for the login screen's read, every friend of an account
\* on the server is an account on the server: a name is in a friend list only
\* after the phone has met the account, and what it has met and the server has
\* not yet is ahead in the phone's own queue.
THEOREM FriendsAreAccounts ==
    ASSUME Patient, ~MayRefuse, SelfContained(InitialDocs)
    PROVE  Spec => []FriendsExist
<1>1. AllBacked => FriendsExist
  BY DEF AllBacked, StoreBacked, FriendsExist, SelfContained, Among, Blank,
         Present
<1>2. QED
  BY <1>1, Backing, PTL

\* With such users the payee on the screen is always in the list the OK
\* handler searches, so that it never writes a balance of 0 over the payee's.
THEOREM PayeesAreFound ==
    ASSUME Patient, ~MayRefuse, SelfContained(InitialDocs)
    PROVE  Spec => []PayeeKnown
<1>1. ASSUME AllBacked, Inv(User), RecipientsAreFriends
      PROVE  PayeeKnown
  <2>1. ASSUME NEW d \in Devices, screen[d].at \in {"pay", "sheet", "confirm"}
        PROVE  screen[d].who \in Present(userDatabase[d])
    <3>1. /\ session[d] # NoName /\ SessionBacked(d)
          /\ Among(CurrUser(d), Circle(d))
      BY <1>1, <2>1, SessionFacts
    <3>2. screen[d].who \in Elements(CurrUser(d).friends)
      BY <1>1, <2>1, <3>1 DEF RecipientsAreFriends, SessionBacked, UserBacked
    <3>3. Circle(d) = Present(userDatabase[d])
      BY <3>1 DEF SessionBacked, Waited, Circle
    <3>4. QED
      BY <3>1, <3>2, <3>3 DEF Among, Blank
  <2>2. QED
    BY <2>1 DEF PayeeKnown, Present
<1>2. QED
  BY <1>1, Backing, PTL

================================================================================
