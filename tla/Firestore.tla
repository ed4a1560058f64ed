------------------------------- MODULE Firestore -------------------------------
(******************************************************************************)
(* The "users" collection as the app reaches it: the documents on the server  *)
(* and, on every device, the client SDK the app links (Pods/FirebaseFirestore)*)
(* with its mutation queue, its document cache and its one-shot reads.        *)
(*                                                                            *)
(* A call of the app returns before anything is stored or sent: the SDK's     *)
(* worker queue persists the write, the write stream sends persisted writes   *)
(* in order, the server answers in order, and a result travels back to the    *)
(* main thread.  Each of these is an action, so that the app's handlers, the  *)
(* other devices and a restart of the app can fall between any two of them.   *)
(******************************************************************************)
EXTENDS Integers, Sequences

CONSTANTS
    Devices,            \* phones running the app
    Names,              \* usernames, which are also the documents' identifiers
    Passwords, Cards,   \* values of the fields password and cards
    Symbols,            \* stock symbols
    NoDoc,              \* the value of a document that does not exist
    NoName, NoPassword, \* the empty strings of the blank User()
    InitialDocs,        \* the server's documents when the model starts
    MaxPendingWrites,   \* kMaxPendingWrites: writes sent and not yet answered
    MayBeOffline,       \* a read may be answered from the cache
    MayBreak,           \* the write stream may break with answers in flight
    MayRefuse           \* the server may refuse a write, or a read fail

VARIABLES
    docs,       \* the server's documents
    cache,      \* cache[d]: remote document cache of device d (persistent)
    queue,      \* queue[d]: writes the app issued that are not yet acknowledged
    durable,    \* durable[d]: how many of them, from the head, are persisted
    applied,    \* applied[d]: how many of them the server committed unanswered
    covered,    \* covered[d]: how many of those the cache already reflects
    loads       \* loads[d]: getDocuments calls whose completion has not run

storeVars == <<docs, cache, queue, durable, applied, covered, loads>>

--------------------------------------------------------------------------------
(* The data.  A stock the user does not hold has no key in the dictionary.    *)

NotHeld == -1

User == [password: Passwords \cup {NoPassword}, balance: Int,
         investmentBalance: Int, friends: Seq(Names \cup {NoName}),
         cards: Seq(Cards), stock: [Symbols -> Int]]

Fields == {"password", "balance", "investmentBalance", "friends", "cards",
           "stock"}

BlankUser == [password |-> NoPassword, balance |-> 0, investmentBalance |-> 0,
              friends |-> <<>>, cards |-> <<>>,
              stock |-> [s \in Symbols |-> NotHeld]]

\* u with the fields in fields taken from v.
Patched(u, fields, v) ==
    [password |-> IF "password" \in fields THEN v.password ELSE u.password,
     balance |-> IF "balance" \in fields THEN v.balance ELSE u.balance,
     investmentBalance |-> IF "investmentBalance" \in fields
                           THEN v.investmentBalance ELSE u.investmentBalance,
     friends |-> IF "friends" \in fields THEN v.friends ELSE u.friends,
     cards |-> IF "cards" \in fields THEN v.cards ELSE u.cards,
     stock |-> IF "stock" \in fields THEN v.stock ELSE u.stock]

\* A setData (set) or an updateData of the fields in mask; of value only the
\* fields in mask mean anything.
Write == [doc: Names, set: BOOLEAN, mask: SUBSET Fields, value: User]

Create(n, u) == [doc |-> n, set |-> TRUE, mask |-> Fields, value |-> u]

Update(n, fields, u) == [doc |-> n, set |-> FALSE, mask |-> fields,
                         value |-> Patched(BlankUser, fields, u)]

View == [Names -> User \cup {NoDoc}]
EmptyView == [n \in Names |-> NoDoc]

\* An updateData carries the precondition that its document exists.
Accepts(view, w) == w.set \/ view[w.doc] # NoDoc

Applied(view, w) ==
    IF Accepts(view, w)
    THEN [view EXCEPT ![w.doc] =
              IF w.set THEN w.value ELSE Patched(@, w.mask, w.value)]
    ELSE view

--------------------------------------------------------------------------------
(* What a query sees on a device: the documents of view with the writes ws on *)
(* top, the last write of a field winning.                                    *)

LastWrite(ws, n, f) ==
    LET touching == {i \in DOMAIN ws : ws[i].doc = n /\ f \in ws[i].mask}
        Last(i) == \A j \in touching : j <= i
    IN IF \E i \in touching : Last(i)
       THEN CHOOSE i \in touching : Last(i)
       ELSE 0

\* Mutant: a user who signed up offline is not in a read.
ExistsRemotely(view, ws, n) == view[n] # NoDoc

Exists(view, ws, n) ==
    view[n] # NoDoc \/ \E i \in DOMAIN ws : ws[i].doc = n /\ ws[i].set

Source(view, ws, n, f) ==
    LET i == LastWrite(ws, n, f)
    IN IF i # 0 THEN ws[i].value
       ELSE IF view[n] = NoDoc THEN BlankUser ELSE view[n]

Overlaid(view, ws, n) ==
    [password |-> Source(view, ws, n, "password").password,
     balance |-> Source(view, ws, n, "balance").balance,
     investmentBalance |->
        Source(view, ws, n, "investmentBalance").investmentBalance,
     friends |-> Source(view, ws, n, "friends").friends,
     cards |-> Source(view, ws, n, "cards").cards,
     stock |-> Source(view, ws, n, "stock").stock]

Overlay(view, ws) ==
    [n \in Names |->
        IF Exists(view, ws, n) THEN Overlaid(view, ws, n) ELSE NoDoc]

Persisted(d) == SubSeq(queue[d], 1, durable[d])

--------------------------------------------------------------------------------
(* A read waits in the worker queue behind the writes issued before it.       *)

Load == [behind: Nat, ready: BOOLEAN, view: View]

NewLoad(d) == [behind |-> Len(queue[d]) - durable[d], ready |-> FALSE,
               view |-> EmptyView]

StoreInit ==
    /\ docs = InitialDocs
    /\ cache = [d \in Devices |-> EmptyView]
    /\ queue = [d \in Devices |-> <<>>]
    /\ durable = [d \in Devices |-> 0]
    /\ applied = [d \in Devices |-> 0]
    /\ covered = [d \in Devices |-> 0]
    /\ loads = [d \in Devices |->
                  <<[behind |-> 0, ready |-> FALSE, view |-> EmptyView]>>]

(* The calls the app makes. *)

Issue(d, ws) ==
    /\ queue' = [queue EXCEPT ![d] = @ \o ws]
    /\ UNCHANGED <<docs, cache, durable, applied, covered, loads>>

AskForUsers(d) ==
    /\ loads' = [loads EXCEPT ![d] = Append(@, NewLoad(d))]
    /\ UNCHANGED <<docs, cache, queue, durable, applied, covered>>

\* The process ends and starts again: the writes in kept survive, and the
\* first login screen asks for the users.
Reopen(d, kept) ==
    /\ queue' = [queue EXCEPT ![d] = kept]
    /\ durable' = [durable EXCEPT ![d] = Len(kept)]
    /\ applied' = [applied EXCEPT ![d] = 0]
    /\ covered' = [covered EXCEPT ![d] = 0]
    /\ loads' = [loads EXCEPT ![d] =
                   <<[behind |-> 0, ready |-> FALSE, view |-> EmptyView]>>]
    /\ UNCHANGED <<docs, cache>>

(* The SDK's own steps. *)

\* Mutant: a read keeps waiting for writes that are stored already.
PersistForgetsReads(d) ==
    /\ durable[d] < Len(queue[d])
    /\ durable' = [durable EXCEPT ![d] = @ + 1]
    /\ UNCHANGED <<docs, cache, queue, applied, covered, loads>>

MovedUp(load) == [load EXCEPT !.behind = IF @ > 0 THEN @ - 1 ELSE @]

\* The worker queue stores the next write, and the reads behind it move up.
Persist(d) ==
    /\ durable[d] < Len(queue[d])
    /\ durable' = [durable EXCEPT ![d] = @ + 1]
    /\ loads' = [loads EXCEPT ![d] =
                   [i \in DOMAIN @ |-> MovedUp(@[i])]]
    /\ UNCHANGED <<docs, cache, queue, applied, covered>>

\* Mutant: the pipeline is full one write too early.
CommitBelowLimit(d) ==
    /\ applied[d] < durable[d]
    /\ applied[d] + 1 < MaxPendingWrites
    /\ Accepts(docs, queue[d][applied[d] + 1])
    /\ docs' = Applied(docs, queue[d][applied[d] + 1])
    /\ applied' = [applied EXCEPT ![d] = @ + 1]
    /\ UNCHANGED <<cache, queue, durable, covered, loads>>

\* The server commits the next write of the pipeline; its answer is in flight.
Commit(d) ==
    /\ applied[d] < durable[d]
    /\ applied[d] < MaxPendingWrites
    /\ LET w == queue[d][applied[d] + 1]
       IN /\ Accepts(docs, w)
          /\ docs' = Applied(docs, w)
    /\ applied' = [applied EXCEPT ![d] = @ + 1]
    /\ UNCHANGED <<cache, queue, durable, covered, loads>>

\* Mutant: the persisted part of the queue is not shortened.
AckKeepsDurable(d) ==
    /\ applied[d] > 0
    /\ queue' = [queue EXCEPT ![d] = Tail(@)]
    /\ applied' = [applied EXCEPT ![d] = @ - 1]
    /\ covered' = [covered EXCEPT ![d] = IF @ > 0 THEN @ - 1 ELSE @]
    /\ UNCHANGED <<docs, cache, durable, loads>>

\* The answer arrives: the write leaves the queue and enters the cache, unless
\* a newer version of its document is there already.
Ack(d) ==
    /\ applied[d] > 0
    /\ cache' = [cache EXCEPT ![d] =
                   IF covered[d] > 0 THEN @ ELSE Applied(@, Head(queue[d]))]
    /\ queue' = [queue EXCEPT ![d] = Tail(@)]
    /\ durable' = [durable EXCEPT ![d] = @ - 1]
    /\ applied' = [applied EXCEPT ![d] = @ - 1]
    /\ covered' = [covered EXCEPT ![d] = IF @ > 0 THEN @ - 1 ELSE @]
    /\ UNCHANGED <<docs, loads>>

\* A write the server cannot or will not apply is dropped from the queue.
Reject(d) ==
    /\ applied[d] = 0
    /\ durable[d] > 0
    /\ MayRefuse \/ ~Accepts(docs, Head(queue[d]))
    /\ queue' = [queue EXCEPT ![d] = Tail(@)]
    /\ durable' = [durable EXCEPT ![d] = @ - 1]
    /\ UNCHANGED <<docs, cache, applied, covered, loads>>

\* The stream closes before the answers: all unanswered writes are sent again.
Break(d) ==
    /\ MayBreak
    /\ applied[d] > 0
    /\ applied' = [applied EXCEPT ![d] = 0]
    /\ covered' = [covered EXCEPT ![d] = 0]
    /\ UNCHANGED <<docs, cache, queue, durable, loads>>

\* Mutant: a read ignores the device's own pending writes.
AnsweredAsStored(d, i, view) ==
    /\ loads[d][i].behind = 0
    /\ ~loads[d][i].ready
    /\ \A j \in 1..(i - 1) : loads[d][j].ready
    /\ loads' = [loads EXCEPT ![d][i].ready = TRUE, ![d][i].view = view]

\* A read gets its result, from the server or, offline, from the cache; the
\* device's own persisted writes are laid over either.
Answered(d, i, view) ==
    /\ loads[d][i].behind = 0
    /\ ~loads[d][i].ready
    /\ \A j \in 1..(i - 1) : loads[d][j].ready
    /\ loads' = [loads EXCEPT ![d][i].ready = TRUE,
                              ![d][i].view = Overlay(view, Persisted(d))]

Raise(d) ==
    /\ \E i \in DOMAIN loads[d] : Answered(d, i, docs)
    /\ cache' = [cache EXCEPT ![d] = docs]
    /\ covered' = [covered EXCEPT ![d] = applied[d]]
    /\ UNCHANGED <<docs, queue, durable, applied>>

RaiseFromCache(d) ==
    /\ MayBeOffline
    /\ \E i \in DOMAIN loads[d] : Answered(d, i, cache[d])
    /\ UNCHANGED <<docs, cache, queue, durable, applied, covered>>

--------------------------------------------------------------------------------
(* The types, with the set U of users the documents are taken from as a       *)
(* parameter: a restriction every update keeps is an invariant in this form.  *)

ViewsOf(U) == [Names -> U \cup {NoDoc}]
WritesOf(U) == [doc: Names, set: BOOLEAN, mask: SUBSET Fields, value: U]
LoadsOf(U) == [behind: Nat, ready: BOOLEAN, view: ViewsOf(U)]

StoreOver(U) ==
    /\ docs \in ViewsOf(U)
    /\ cache \in [Devices -> ViewsOf(U)]
    /\ queue \in [Devices -> Seq(WritesOf(U))]
    /\ loads \in [Devices -> Seq(LoadsOf(U))]

StoreCounters ==
    /\ durable \in [Devices -> Nat]
    /\ applied \in [Devices -> Nat]
    /\ covered \in [Devices -> Nat]
    /\ \A d \in Devices : /\ covered[d] <= applied[d]
                          /\ applied[d] <= durable[d]
                          /\ durable[d] <= Len(queue[d])

================================================================================
