# A formal model of HoneyJar (CSCI401 Fidelity project)

The repository holds an iOS app in which users pay their friends, put a tenth
of a payment into an investment account, and trade stocks from that account.
There is no server code: each phone reads and writes one Firestore collection,
`users`, one document per account, through the Firestore client library that is
vendored with the app. This directory models the app's handlers, the part of
the client library they rely on, and what a payment passes through on its way
to disk and to the server: the local store's transactions, LevelDB, and the
stream. TLC checks small instances, and TLAPS proves twenty-six theorems for
every instance.

App sources are under `src/projectApp/projectApp/`, the client library under
`src/projectApp/Pods/FirebaseFirestore/Firestore/core/src/firebase/firestore/`
(below: *the SDK*), LevelDB under `src/projectApp/Pods/leveldb-library/`.

## 1. Inventory

| Part | State it keeps | Operations | Talks to | What makes it correct |
|---|---|---|---|---|
| Session: `LoginViewController`, `SignUpViewController`, `SettingPage` | globals `userDatabase` (a copy of all users), `currUser` (a reference into it), `recipients` | read of each login screen and its completion, login, sign-up, logout | SDK read, SDK write | the copy agrees with the server once the phone's writes are through; no update goes to a missing document |
| Paying: `AddRecipientsViewController`, `PayViewController` | payee and amount captured by the page | choose payee, amount, sheet, confirmation, OK handler | session objects, two or three SDK writes | one phone's payments are those of a ledger, crashes included; the payee is a known account; the payee list is the user's own |
| Friends: `SearchFriendViewController`, `FriendViewController`, `FriendSettingViewController` | search result, name and `isFriend` captured by the page | search, open, add | session objects, one SDK write | friends exist, and nobody is added twice |
| Trading: `SearchStockViewController`, `DisplayStockInfoViewController` (buttons) | symbol and price of the page | buy, sell | session objects, one SDK write | nobody sells shares they do not hold or buys for money they do not have |
| Settings: `AddCardViewController`, `BankAccountTableViewController`, `SecurityViewController` | none | add a card, change the password | session objects, one SDK write | own changes are not lost |
| Stock page: `DisplayStockInfoViewController` (`viewDidLoad`) | `stockName`, `stockPrice`, `stockNews`, labels | two requests, two spinning waits | two HTTP completions on another thread | it opens unless a request fails, a symbol is empty or an article lacks a field; it trades at the price retrieved |
| SDK: `FirestoreClient`, `SyncEngine`, `LocalStore`, `RemoteStore`, `QueryListener` | mutation queue and document cache on disk, write pipeline, outstanding reads | store, send, resend, acknowledge, reject; answer a read from server or cache | transactions, streams, main thread | writes are applied in order and get through; reads see the phone's own writes |
| Transactions: `leveldb_transaction.cc` | `mutations_`, `deletions_`, `version_`, iterators with a cached entry | `Put`, `Delete`, `Get`, `Seek`, `Next`, `Commit` | LevelDB | reads and the batch say what the last call said; a loop that changes rows meets every row |
| LevelDB's log: `log_writer.cc`, `log_reader.cc` | the file, `block_offset_`; `buffer_`, `eof_`, the record under way | `AddRecord`, `ReadRecord` | the file system | what a crash leaves is read as a prefix of whole records |
| LevelDB: `db_impl.cc`, `version_set.cc` | logs, tables, MANIFEST, memtables, version, background work | write, switch logs, compact, install, remove files, recover | the log, the file system | no accepted write is lost when a process dies; the writer never waits for ever |
| Stream: `grpc_stream.cc`, `grpc_completion.cc` | completions, buffered writes, observer | `Start`, `Write`, `WriteAndFinish`, `FinishImmediately`, `FinishAndNotify`, callbacks | gRPC on a thread of its own, the worker queue | gRPC's rules are kept; messages in order; the end told once; it can be destroyed |
| Profile page, tab bar, account menu, start-up code | nothing of their own | formatting, navigation | session objects | not modelled |

What is hard here: the app's handlers never wait for the SDK. A handler changes
the local objects, *issues* writes of absolute values and returns; the SDK's
worker queue stores them later, the write stream sends up to ten at a time,
the server commits them, the answers come back, and a broken stream sends
unanswered ones again. A read returns an array that replaces the objects other
screens still hold. Other phones do the same with the same documents, and
nothing compares what is written with what is there. Below, a process may die
between any two steps of storing a write, a background thread moves it from log
to table to table meanwhile, and a stream ends on one thread while its
operations come back on another. `PROJECT.json` lists every hazard with its line
and the properties that watch it.

## 2. Modules and how they correspond to the code

    Firestore --> Session --> Payment  --\
                          --> Friends  ---> HoneyJar --> Promises --> MCHoneyJar
                          --> Trading  --/               (Ledger) \--> HoneyJar_proofs
                          --> Settings -/                                 |
                                    Books_proofs <-- Copies_proofs <------/
    StockPage --> MCStockPage, StockPage_proofs
    LevelDbTransaction --> MCLevelDbTransaction, LevelDbTransaction_proofs
    Journal    (RecordLog)    --> Journal_proofs
    LevelDb    (DurableWrites) --> LevelDb_proofs
    GrpcStream (DuplexStream) --> GrpcStream_proofs

In brackets: the abstract specification a module is shown to implement, through
`INSTANCE ... WITH` and the abstract `Spec` as a property. The modules below the
app stand side by side and not on each other: each states what the next one up
takes for granted. `Firestore`'s `durable` relies on `Commit` of a transaction being
one batch, that on a batch being one record of the log, kept as a whole or lost
(`Journal`), that on LevelDB finding its logs again (`LevelDb`); `Break` and
the order of `Commit` and `Ack` rely on what `GrpcStream` promises.

- **Firestore.tla**: the documents on the server and, for each phone, the SDK.
  `queue[d]` holds the writes issued and not yet acknowledged, in order. Three
  positions cut it: `durable` (stored in the mutation queue on disk),
  `applied` (committed by the server, answer still in flight) and `covered`
  (of those, already seen by a later read, so that their answer does not change
  the cache: `LocalStore::ApplyBatchResult` compares versions). `Persist`,
  `Commit`, `Ack`, `Reject`, `Break`, `Raise` and `RaiseFromCache` are the SDK's
  own steps; `Issue`, `AskForUsers` and `Reopen` are what the app does to it.
  `Commit` joins sending and committing of one write: the pipeline is FIFO and
  only the commit is visible to anyone else. `Overlay` is
  `LocalDocumentsView::GetDocumentsMatchingCollectionQuery`: documents with the
  pending writes on top, by field. It is stated by the last write to each field
  instead of by folding the queue, so that it can be reasoned about without
  induction.
- **Session.tla**: globals and screens every other module shares. A Swift
  reference becomes the pair `session`/`own`: `own[d] = NoDoc` while `currUser`
  is an element of `userDatabase`, and the object itself once a late read has
  replaced the array (`Deliver`). `screen` is the screen in front with what it
  captured when it was opened.
- **Payment, Friends, Trading, Settings**: one action per handler. `DidConfirmPay`
  is the whole OK handler: debit, the loop that credits, investment and the
  writes, with the values written taken from the handler's local variables as
  the code does (the payer's balance from before the loop, 0 for a payee the
  loop does not find). Amounts and prices may be negative, for no handler looks
  at their sign. Alerts that only inform and leave everything unchanged are left
  out.
- **HoneyJar.tla**: `Init`, `Next`, `Spec` and the fairness of the whole app on any set of
  phones. **Promises.tla**: the properties. **Ledger.tla**: what the payments of one
  phone come to, without server, cache or queue: a list of pages of balances.
- **StockPage.tla**: `viewDidLoad` of the stock page, one assignment per step, against
  the two completions. `missing` is what one of the first three articles lacks of the
  optional fields the page unwraps: without text or image the app ends as the page
  opens (`StopWaitingForNews`), without a link when the image is tapped
  (`ImageTapped`). An answer may hold the empty symbol, which the first spin takes
  for none. It stands alone: its result is the price `Trading` starts from, where a
  page that hangs or ends the app is a `Crash`.
- **LevelDbTransaction.tla**: a transaction and one iterator of it. `mutations` and
  `deletions` are the two collections over `db`; `it` is the iterator with the
  positions of its two parts and the entry it has cached, which `MoveNext` first
  brings up to date when the transaction has changed (`SyncToTransaction`).
  Rows are split by the overload of `Put` their table is written through
  (`Messages`), and `ValueOf` and `Reinsert` say how disciplined the callers are.
- **Journal.tla**: the log file, a cell for a byte. `EmitPhysicalRecord` is one round of
  `AddRecord`'s loop; a crash leaves any part of it, and after a stop of the
  machine any prefix with zeros behind; `ReadBlock`, `EndOfFile`, `BadRecord` and
  `ReadFragment` are the outcomes of `ReadPhysicalRecord` together with
  `ReadRecord`'s switch. A checksum is the pair it is computed from: two
  different contents never have the same one.
- **LevelDb.tla**: one action for each stretch of code that holds `mutex_`. `LogAndApply`,
  which releases it while the MANIFEST is written, is two: a caller puts an edit
  in `saving` (`FinishOpen`, `InstallTable`, `InstallMerge`), and `Saved` applies it,
  after which `DeleteObsoleteFiles` follows before the mutex is free (phase
  "installed"). `FailToSave` leaves the edit on the disk or not, and the process
  without it; `FailToBuild` is a table that cannot be written. A merge under way
  goes on after either, as the code does. `Recover`, `RecoverLogFile`,
  `CreateLog`, `FinishOpen` open the database, and a process may die between any two.
- **GrpcStream.tla**: `inGrpc` is what gRPC has, `tasks` the worker queue with the
  callbacks of what came back, `completions` what the stream knows of. `worker` says
  what the worker thread is blocked in: while it is not "idle" only the gRPC
  thread (`Complete`) and the end of the wait (`Unblocked`) can step.
- **\*_proofs.tla**: theorems and proofs. **MC\***: constants for TLC; `Journal`, `LevelDb`
  and `GrpcStream` are run as they are.

Data. An account is a record of its document's fields. `balance` and
`investmentBalance` are integers in place of doubles, amounts in runs are
multiples of ten so that the tenth is exact; rounding is not modelled. A stock
not held has no key in the Swift dictionary, written `NotHeld` here, so that a
holding of 0 is something else. Names, passwords, cards and symbols are model
values; a blank username (that of `User()`) is `NoName`. Accounts with an empty
password are left out. In `LevelDbTransaction` keys are numbers in the order of
the strings. In `LevelDb` a write is its sequence number and every write its own
key, so that overwritten values and the dropping of old entries by a merge are
not modelled; in `GrpcStream` a message is its number.

Outside the repository, modelled from how it is used: the server (commits a
write whole and in the order of a stream, refuses an update without a
document), UIKit (one screen in front; the login button has both the action and
a segue, and whatever the action presents first is taken to win), URLSession
(`QueueIdle`: the shared session runs completions one at a time), users (`Tap`,
and `Patient`: whether they wait for the login screen's read), the system that
ends a process (`Crash`, `ProcessDies`) or the machine (`MachineDies`), and the
call below a stream.

### State and actions at a glance

| Code | Model |
|---|---|
| `userDatabase`, nil before the first completion | `userDatabase`, `loaded` |
| `currUser` | `session`, `own`, `CurrUser(d)` |
| `recipients` | `recipients` |
| `getDocuments` and its completion | `AskForUsers`, `Raise` or `RaiseFromCache`, `Deliver`; `LoadFails` |
| `setData`, `updateData` | `Issue` of a `Create`, an `Update` |
| `for user in userDatabase` over nil | `DidTapTooEarly` |
| `Double(text)!` | `DidTapPayUnparsable` |
| `text!`, `imageURL!`, `news_url!` of an article | `missing`, place "ended" |
| `document("")` | `DidConfirmPayNobody`, and `Crash` for a sign-up |
| `kMaxPendingWrites` | `MaxPendingWrites` |
| `mutations_`, `deletions_`, `version_` | the same without the underscore |
| `Iterator`'s `db_iter_`, `mutations_iter_`, `current_` | `it.dbAt`, `it.mutAt`, `it.key` and `it.value` |
| `kBlockSize`, `kHeaderSize`, `block_offset_` | `kBlockSize`, `kHeaderSize`, `offset` |
| `VersionEdit`, `Version` and `VersionSet`'s numbers | `saving`, `current` |
| `mem_`, `imm_`, `logfile_number_`, `bg_error_` | `mem`, `imm`, `logNumber`, `bgError` |
| `background_compaction_scheduled_`, `pending_outputs_` | `work`, `built` and `output` |
| `completions_`, `is_grpc_call_finished_`, `observer_` | `completions`, `finished`, `observer` |
| `GrpcCompletion::Cancel`, `WaitUntilOffQueue` | `Cancelled`, `Drained` |

## 3. Runs

`MaxTaps` bounds the taps that change more than the screen, `MaxPendingWrites` the
pipeline; nothing else is bounded in the app's runs, the queue and the reads
being as long as the taps make them. In the others `MaxCalls`, `MaxRecords`,
`MaxZeros`, `MaxWrites`, `MaxCrashes`, `MaxReboots`, `MaxFailures` and `MaxMessages`
are bounds.

| Run | Instance | Shows |
|---|---|---|
| `one_phone` | one phone, accounts alice and bob, carol may sign up, two taps, payments of 10, offline reads, breaks, crashes | `LocalViewCurrent`: the hand-kept copy is what the server will hold. `KeepsBooks`: payments implement `Ledger`, although resent and cut off by crashes. `UpdatesTargetKnownDocs`: no update in vain |
| `friends` | two phones, alice and bob, carol signs up on the first; two taps each; breaks, offline reads, crashes | `FriendsExist`, `RecipientsAreFriends`, `PayeeKnown` |
| `own_phones` | alice and bob on a phone each, one tap each, every kind of change | `OwnFieldsDurable`: a payment from elsewhere takes no older field along. `OverdrawnByNegativesOnly`: with positive amounts and prices nothing is overdrawn on either phone |
| `anything` | one phone, both accounts, two taps; payments of -250 (the tenth taken back is more than alice has), prices of 5 and -9, 3 or -1 shares; impatient users, offline, late and failing reads, breaks, refusals, crashes; alice starts with a blank friend, a state a longer run reaches | `TypeOK`, `NobodyShort`, `FriendsDistinct`, and `OverdrawnByNegativesOnly`: what overdraws an account is one of the two steps that can, while `userDatabase` is replaced under an open session |
| `progress` | one phone, pipeline of one, breaks again and again | `WritesDrain`, `LoadsComplete` under fairness |
| `stock_page` | two symbols and the empty one, prices of both signs and none, 0, 2, 3 or 5 articles that lack any of the three fields, failing requests | `TradesAtQuotedPrice`, `PageOpens`, `TypeOK` |
| `transaction` | three rows, one of them a message row, two values, four calls a transaction, any number of transactions, callers as they are | `ReadsSeeTheLastCall`, `CommitKeepsWhatWasRead`, `IterationMeetsEveryRow`, `TypeOK` |
| `journal` | blocks of six cells with headers of three, records of 0, 1 or 7 cells, three of them, up to four zeros behind a cut | `KeepsPromise` (implements `RecordLog`: records in order, whole, a tail lost by a stop of the machine only), `ReadingEnds`, `TypeOK` |
| `leveldb` | memtables of one write, four writes, merges from two tables on, writers stopped at three, two crashes of which one of the machine, one failing disk write | `KeepsPromise` (implements `DurableWrites`), `SettledSurvive`, `WritesGoOn`, `TypeOK` |
| `grpc_stream` | three messages of the server, four of the client, the call failing or cancelled at any time | `GrpcRulesKept`, `SafeToDestroy`, `KeepsPromise` (implements `DuplexStream`), `WorkerGoesOn`, `FailureNoticed`, `TypeOK` |
| `lost_credit` | two phones, one payment each | `MoneyAtRest` violated |
| `put_twice` | as `transaction`, with rows of the string overload that take any value | `ReadsSeeTheLastCall` violated |

Why the bounds are enough. Two accounts that are friends make every payment
case (payer, payee, both on one phone in turn), a third one is needed only as
the newcomer. Two taps are two payments with a logout and a login in between, or
a sign-up and an addition: the shortest histories in which a stale read, a lost
overlay or a cut between stored writes would show, since each payment is itself
two or three writes. Two taps on two phones give every order of a sign-up, an
addition, and reads on the other one. A pipeline of two distinguishes full from
empty and part-answered; `progress` uses one, where every write must wait for
its predecessor. Three rows are one before, one at and one after an iterator. A
record of seven cells spans three blocks, so that it has a first, a middle and
a last fragment, and blocks of six with headers of three leave a trailer, an
empty first fragment or a full block, according to what went before. Four
writes with memtables of one set a memtable aside while two tables are being
merged; two crashes are one in a recovery that follows another. Four messages
are one with gRPC, two buffered, and one more after the call has failed. Users
and settings with nothing to do with a run's properties are switched off by
empty sets (`Quotes = {}` and so on), one family at a time, so that between them
the runs fire every action. Every property fails for the mutant named for it in
`PROJECT.json`, a plausible slip in the mapped code.

Deadlock is checked except where the system really may stop: in `progress` a
phone that first starts offline shows a login screen that nobody can log in to
and that never reads again; in `stock_page` the main thread may spin for ever
after a failed request or an empty symbol, and the app may have ended; a log
that has been read to its end (`journal`), a database with no writes left or
with a background error (`leveldb`) and a stream that has ended (`grpc_stream`)
are done.

### What the violated runs say

1. `lost_credit`: two phones pay each other at once. Each writes the balances its
   own copy leads to; the later write of each account wins. Not serialised by
   anything, since no transaction or increment is used.
2. `put_twice`: `Put(std::string, std::string)` uses `emplace`, which does not replace
   a value put before in the same transaction. None of the client's callers does
   that with two different values (index rows are empty, a sentinel row holds
   the transaction's own sequence number, a migration writes a version once), so
   the defect is latent. `ValueOf` gives such rows one value for all
   transactions, where a sentinel's changes from one to the next.

### Met while modelling, without a run

- With "Yes" on the sheet a tenth of the payment is added to `investmentBalance` and
  taken from nowhere (`PayViewController.swift:77-98, 122`), while the sheet asks
  to put "10% of this transaction" there. `Ledger` is about balances only.
- Nothing looks at the sign of an amount (`PayViewController.swift:43-66`): the decimal
  pad has no minus, but a text can be pasted or typed on a hardware keyboard. A
  payment of -100 credits the payer and debits the payee, and with "Yes" takes
  10 out of `investmentBalance`, which may go below zero. `Ledger` and so `KeepsBooks`
  allow it: the two accounts change by the same amount, in the order payer, payee,
  and a crash between the two writes then leaves the payer's credit alone.
  `KeepsBooks` is run with 10 and proved for amounts of either sign; where both an
  amount and its negative may be typed it says less, for the credit of the one
  is the debit of the other.
- Nothing looks at the sign of a price either (`DisplayStockInfoViewController.swift:72`):
  selling at a negative one takes money, without a check. These two are the only
  ways to overdraw an account, which is what `OverdrawnByNegativesOnly` says; that no
  account is overdrawn at all would be false.
- An article without `text` or `image_url` among the first three ends the app when the
  stock page opens (`DisplayStockInfoViewController.swift:184, 205, 219, 239, 253, 273`),
  one without `news_url` when its image is tapped (`:317`), although all are optional
  in the answer's type. An answer with an empty symbol (`:73`) leaves the page
  spinning at `:146` although the request succeeded. `PageOpens` names these
  outcomes as exceptions; with any of them left out it is violated.
- The sign-up check reads the local copy only, and `setData` replaces an account
  another phone created meanwhile (`SignUpViewController.swift:36, 70`).
- Of the four checks of a new password the one for "the same password" alone does
  not return (`SecurityViewController.swift:49`); the password is written again.
- The stock page waits for the name, and the price is assigned after it on another
  thread, so that the price label may be filled with 0.0
  (`DisplayStockInfoViewController.swift:141-154`); `TradesAtQuotedPrice` shows that the
  price traded at is right all the same.
- `Put(key, GPBMessage*)` does not take the row out of `deletions_`
  (`leveldb_transaction.h:164-169`): put after a `Delete` in the same transaction, the row
  is not found until it is committed. No caller does so; `Reinsert = TRUE` in
  `transaction.cfg` shows it.
- A client that writes after its call has failed, and before it is told, has its
  write given to gRPC beside "finish", although a comment says the buffer
  "should never be called again after a call to Finish" (`grpc_stream.cc:234-235`). It
  fails and is ignored (`OnLateFailure`); `SafeToDestroy` holds.
- After a stop of the machine LevelDB keeps a prefix of every log, not of all
  writes: a later write may survive an earlier one in another log. `options.h:173-176`
  promises no more ("some recent writes may be lost"). `DurableWrites` therefore
  speaks of a set of writes, and `RecordLog`, about one log, of a sequence.

### What waiting for the read is worth

`one_phone`, `friends` and `own_phones` assume users who let the login screen's read
finish (`Patient`). The app does not make them: `anything` and `progress` do
without. `LocalViewCurrent` and `PayeeKnown` depend on it. A user who logs out,
signs somebody up before the new login screen's read has completed, logs in and
adds the new account as a friend has the account dropped from `userDatabase` when
the completion runs; paying it then debits the payer and writes 0 for the payee
(`PayViewController.swift:83-91, 111`). Setting `Patient = FALSE` in `friends.cfg`
and allowing a third tap shows such a history, or the one in which the
completion runs while the search result is in front, so that the blank name is
added instead.

### Fairness

`FairSpec` assumes weak fairness of the worker queue (`Persist`), of a server that can be
reached (`Commit`, `Raise`) and of the main queue (`Deliver`): these run whenever
they have work and nobody stops them. `Ack` is strongly fair: a break may disable
it again and again, and the SDK reconnects with backoff for as long as it has
writes (`RemoteStore::OnWriteStreamClose`), so that some answer gets through.
Nothing is assumed of users, crashes or refusals. In `StockPage` the main thread
and the delegate queue run, and a request is answered, well or not, or fails. In `Journal` the
reader's loop runs. In `LevelDb` the process opens its database, its client has
writes, and the background thread runs once scheduled; a crash or a failing disk is
never assumed. In `GrpcStream` both threads run (`Unblocked`, `Callbacks`), and gRPC
gives back the operations of a call that is over, as its interface promises for
a call that failed or was cancelled; of a call that is alive nothing is
assumed, so that `WorkerGoesOn` depends on `TryCancel`.

The spinning loops of the stock page read properties another thread writes
without synchronisation, a data race: the model takes each read to see some
value written so far, in program order. A compiler may also hoist the read out
of the loop, after which the page never opens; that outcome is not modelled, and
`PageOpens` is a statement about builds that do not.

## 4. Proofs

Assumptions are those the modules name (`SessionAssumption`, `AmountsAssumption`,
`KeysAssumption`, `StreamAssumption` and so on), which TLC evaluates in the runs.

### `HoneyJar_proofs`: any phones, accounts, amounts, failures

| Theorem | Statement |
|---|---|
| `TypeCorrect` | `Spec => []TypeOK` |
| `SharesAreHeld` | if nobody is short of shares initially, `Spec => []NobodyShort` |
| `OverdraftsHaveCause` | `Spec => OverdrawnByNegativesOnly` |
| `FriendListsDistinct` | if no initial friend list repeats a name, `Spec => []FriendsDistinct` |

One argument serves these four. A copy of an account lives in many places: on the
server, in a cache, in a pending write, in a read on its way, in
`userDatabase`, in `own`. Which accounts may live there is a set `U`, and
`Inv(U)` says that all of them lie in it (`Everywhere(U)`), that the positions in
the queue are in order, that the screens and the session fit, and
`PageSettled`. `Closed(U)` says what a set must satisfy to be preserved: it holds
the blank user, it is closed under mixing fields of its members (an overlay or
an update takes each field from one of them), and under each handler's change
of a user. Each action has a lemma `...Keeps` that carries `Inv(U)` over the step
for a closed `U`; `NextInv` joins them. The theorems then only show that their
set is closed: `User`, `HoldingUsers`, `DistinctUsers`, and `UsersFrom(floor)`, the
users with at least `floor` to invest, for any `floor` not above zero.
`UsersFrom(floor)` is closed under all but two changes: the tenth of a negative
payment and a sale at a negative price. So `Closed` asks for a sale only
at a price of at least zero, the other two are `AnyMoney(U)`, which the other three
sets satisfy, and `NextInv` takes a step that is neither, or a set with
`AnyMoney`. `OverdraftsHaveCause` is `NextInv` for every floor.

Why the strengthening is needed. Shares of the server's documents alone are not
inductive: a pending write, a cache or a late read brings any other copy back.
And mixing is harmless only because each set constrains each field by itself;
a handler may therefore act on a copy of any age. `PageSettled` is what the
friend list needs: a friend page that offers to add shows a name that is not in
`currUser`'s list *now*, although it was compared with it when the page opened.
Nothing else changes the list while the page is open, and a late read leaves
`currUser` the object it was. It also gives a stock page its symbol.

### `HoneyJar_proofs`, second part: who knows whom, on any number of phones

| Theorem | Statement | Hypotheses |
|---|---|---|
| `PayeeTableIsFriendList` | `Spec => []RecipientsAreFriends` | none |
| `UpdatesHaveTargets` | `Spec => []UpdatesTargetKnownDocs` | (a), (b) |
| `FriendsAreAccounts` | `Spec => []FriendsExist` | (a), (b), (c) |
| `PayeesAreFound` | `Spec => []PayeeKnown` | (a), (b), (c) |

(a) `~MayRefuse`: the server refuses no write for a reason of its own. The code
has no rule or quota to refuse by; a refused sign-up would leave a phone with
an account nobody else will ever see. (b) `SelfContained(InitialDocs)`: the
accounts to begin with know of existing ones only, as those the app has made
do. (c) `Patient`: users wait for the login screen's read. Without (c) the
statements are false, as described under "What waiting for the read is worth".

A phone learns of an account long before the server has it, by a sign-up that
is still in the queue. So the invariant `AllBacked` says of every copy, by its
place, what may be known there: a pending write knows the accounts in the
phone's cache, which are all on the server, and those created by the writes
*before it* in its own queue; the server and the cache are self-contained; a
read and the session's list know what the cache and the whole queue do, and are
self-contained themselves. The order within the queue is
essential, for the updates that make an account a friend reach the server after
its creation only because they are behind it, and a crash takes a tail away, not
a write from the middle. With (c) it says as well that the payee list, the page
that is open and the session speak of names of the list at hand. Without (c) a
completion may replace that list under an open page, and only the weaker part
is kept. `PayeeTableIsFriendList` needs neither: `recipients` and `currUser`
change together in every handler.

### `Copies_proofs`: any accounts, payments, trades, breaks and crashes

| Theorem | Statement | Hypotheses |
|---|---|---|
| `TheListIsCurrent` | `Spec => []LocalViewCurrent` | (a), (b), (c), one phone |
| `OwnFieldsAreDurable` | `Spec => []OwnFieldsDurable` | (a), (b), (c) |

One invariant, `AllCurrent`, serves both. It is stated field by field, for the
fields one phone alone changes (`Solely`): every field when there is one phone,
every field but the balance of an account whose owner has a phone of their
own. `Latest(b, ws, n, f)` is the value of field `f` of account `n` with the writes
`ws` over the value `b`, that is, the last write's or `b`. The parts of `AllCurrent`:

- `StoreCurrent`: the server's value does not change when the applied writes are put
  over it once more, nor the cache's under the covered ones; and with the stored
  writes on top both are the same. A break sets `applied` back to 0 and everything
  is sent again, while a crash cuts the queue at `durable` and the cache stays: the
  first two facts are what makes a write that is applied twice harmless, the
  third what makes an answer from the cache as good as one from the server.
- `ReadsCurrent` and `ReadsWait`: what a read found, with the writes of the phone on
  top, is the same value too, and no write was issued since it was asked for.
- `ListCurrent`: `userDatabase`, and through it `currUser`, shows the value with the
  whole queue on top. It is the property wanted, by field.

None of the first three can be left out: the list is refreshed by a read, the
read is raised from the server's documents or from the cache, and both are
moved by `Commit` and `Ack` one write at a time. `AllBacked` comes in where an update
must find its document. For a payment the proof follows the loop of
`DidConfirmPay` and shows that what it writes is what it leaves in the list; for
the account of another owner it shows that only `balance` is written. That a
non-empty set of numbers has a greatest element (the last write of a field) is
derived from the well-foundedness of the naturals.

### `Books_proofs`: the refinement of `Ledger`

| Theorem | Statement | Hypotheses |
|---|---|---|
| `BooksAreKept` | `Spec => KeepsBooks` | (a), (b), (c), one phone; (d): if reads may be answered offline, nobody signs up with a name that has an account to begin with |

The books are `Pages(d)`: for every `k` from the stored writes to all writes of the
queue, the balances that the server's documents and the first `k` writes lead to.
Each step of the phone is matched with a step of `Ledger`: `Persist` drops the
first page (`Save`), a crash leaves it alone (`Crash`), `Commit`, `Ack`, a break and
the reads change no page, which is where `StoreCurrent` is used: a write that moves
from the queue into the documents leaves the balances it leads to, and so do those
that are sent again behind it. A handler adds a page for each of its writes
(`Enter`): the same page once more for friends, trades, cards, passwords and
sign-ups, and for `DidConfirmPay` the payer's debit and then the payee's credit, both
computed from what `ListCurrent` says is the latest page, in the case that a user
pays themself too.

Two more parts are needed beside `AllCurrent`. `Typed`: the amount in the alert is one
somebody typed. `TakenShown`: once the read is in, every name that is taken is on the
list that the sign-up screen searches; without it `setData` would replace an account
and its balance. `TakenShown` needs (d): a phone that first starts offline has an empty
list (`LoginViewController.swift:71`), and a sign-up there with the name of an
existing account ends with a balance of 0 in its place. TLC shows that history in
four states when `bob` is put among the newcomers of `one_phone`, and finds none
when in addition `MayBeOffline = FALSE`. An account that was signed up on this phone is safe
offline as well: its creation is in the queue until the cache has it.

### `LevelDbTransaction_proofs`: any rows, values and numbers of calls

| Theorem | Statement |
|---|---|
| `TypeCorrect` | `Spec => []TypeOK` |
| `IterationComplete` | `Spec => IterationMeetsEveryRow` |
| `ReadsAreLatest` | if the callers are `Disciplined`, `Spec => []ReadsSeeTheLastCall` |
| `CommitFaithful` | if the callers are `Disciplined`, `Spec => CommitKeepsWhatWasRead` |

`IterationMeetsEveryRow` is about a step from any state, so what an iterator is must be
known before it: `IteratorInv` says that a valid iterator whose transaction has
not changed since `Stands` at its key, that is, that its two parts are at the first
row and the first mutation from there on, and its entry is that of the nearer
one. A changed transaction puts it at its key again first. The rest is that the
least of two sets is the least of their union, and that a mutation shadows the
row of the same key. For reads, `ReadsInv` (`RowTold`) relates the two collections
to what was asked for: a row is in at most one of them, and each tells the last
call. `Disciplined` is what `put_twice` and `Reinsert` show to be needed.

### `StockPage_proofs`: any symbols, prices of any sign, and answers

| Theorem | Statement |
|---|---|
| `TypeCorrect` | `Spec => []TypeOK` |
| `TradesQuoted` | `Spec => []TradesAtQuotedPrice` |

The buttons wait for the news (`NewsComeLast`), the news are asked for after the name
has come (`NameHasCome`), and their completion does not run between the two halves
of the quote's (`QueueIdle`): so the price is there (`PriceIsQuote`). Without
`QueueIdle` the chain breaks, as the mutant shows. A page with the empty symbol
never asks for news, and one that lacks a text or an image has no buttons either.

### `Journal_proofs`: any block and header size, any records, any cut

| Theorem | Statement |
|---|---|
| `TypeCorrect` | `Spec => []TypeOK`: with it the asserts of `log_writer.cc` |
| `Refinement` | `Spec => KeepsPromise`: each step is one of `RecordLog` or a stutter |

The blocks are any with room for more than a header, a header has at least two
cells, and records may have any lengths, also one that fills a block to the last
cell or leaves no room for a header.

That reading inverts writing would be an induction over the records; the invariant
makes it one over the steps. It says that there is a list of *pieces*, one for each
fragment, with its block, its place, its payload and how much of which record is out
behind it (`Layout`). Each lies behind the one before, in the same block or at the
start of the next because a header does not fit (`Behind`), and goes on with its
record (`Carries`). A crash leaves some first cells and zeros (`Cut`), the same pieces
still describing what *was* written. The reader has read the pieces up to one of
them, and its `scratch`, `inFragment` and `records` are what that piece says (`Following`);
or it is behind all that was kept and will not return anything more (`Beyond`).

`InFront` lists what a reader may find: a piece that is all there, one that is cut,
a trailer without room for a header, or the end. A piece that is there passes
every check of `ReadPhysicalRecord` (`ReadyIsIntact`). One that is cut passes none: if
any cell of its payload is gone the checksum tells, although zeros may stand where
payload was, and a header that is cut has a zero for its length (`BrokenIsNot`). Here
the model's checksum never collides, an assumption a CRC does not grant.
For the writer, `NextIsPlaced` and `NextCarries` show that a round of `AddRecord`'s loop
appends one more piece, and `StopsExtended` that a record ends with it exactly if
nothing is left. `CrashLog` then says which records a cut leaves: a first part, all
of them when only the process died.

TLC never evaluates the invariant, for the pieces are under a quantifier; it
checks the model and the two properties.

### `LevelDb_proofs`: any sizes, triggers, numbers of writes, crashes, failures

| Theorem | Statement |
|---|---|
| `TypeCorrect` | `Spec => []TypeOK` |
| `TablesAreForGood` | `Spec => []SettledSurvive` |
| `Refinement` | `Spec => KeepsPromise`: each step is one of `DurableWrites` or a stutter |

What a recovery would find is an expression over logs, tables and MANIFEST, and no
step but `WriteLog` and `MachineDies` may change its value. For most actions that is
so because a new file has a number nobody uses (`Numbered`). The delicate ones are
`Saved` and `FailToSave`, after which older logs no longer count, although the
edit was made before the mutex was released: `Logged` says that what they hold is in
`imm`, `UnderWay` that the table to install is a copy of `imm`, or of the tables a
merge takes, and `Saving` that the edit on its way still is its caller's. `Twins`
relates the version in memory to the MANIFEST: they hold the same, but for a
table of `imm` that a failed write may or may not have put there; so a file may be
removed when no error is recorded, and readers find what a recovery would.
`Recovering` does for a database that opens what `Logged` does for one that runs.

### `GrpcStream_proofs`: any numbers of messages

| Theorem | Statement |
|---|---|
| `TypeCorrect` | `Spec => []TypeOK` |
| `RulesKept` | `Spec => []GrpcRulesKept` |
| `Destroyable` | `Spec => []SafeToDestroy` |
| `Refinement` | `Spec => KeepsPromise`: each step is one of `DuplexStream` or a stutter |

`IInv` joins eight facts. `Tracked` and `Located`: an operation is with gRPC or back,
once, and among `completions` while its callback may run. `Staged`: what the
worker is blocked in fits who has been told and which callbacks are left. With
these, that nothing is with gRPC when the stream ends follows from the wait.
`FinishedOnce`: "finish" is the last operation of the call, except for a late
write. `ReadInOrder` and `WrittenInOrder`: the observer lacks at most the message
of the one read that is out, the server lacks the one write and the buffer.
These two carry the refinement, where `Hear` must be the next message and
`Arrive` must not skip one. None is inductive without the others.

Only model-checked: all liveness (`WritesDrain`, `LoadsComplete`, `PageOpens`,
`ReadingEnds`, `WritesGoOn`, `WorkerGoesOn`, `FailureNoticed`), which is out of the prover's
reach. Every safety invariant, action property and refinement of a passing run
has a theorem, under the hypotheses its table names.

## 5. Not modelled

- The profile page's formatting, the tables' layout, navigation templates: no
  state of their own.
- Inside the SDK: the streams' handshake, backoff and idle timeouts, the watch
  protocol and resume tokens, transforms, Firestore's own transactions, listeners
  that stay, garbage collection of the cache, authentication changes. The app
  uses none of them directly; those behind a write or a read appear as `Break`,
  `Reject`, `Raise` and `RaiseFromCache`.
- Inside LevelDB: writers that group their batches (the SDK writes from one thread),
  snapshots and overwritten keys, the formats of tables, filters and the cache,
  manual and seek compactions, trivial moves, levels beyond 1, the 1 ms
  slowdown, a recovered log that fills more than one table, `reuse_logs` and
  `sync` (the SDK opens with the default options, `leveldb_persistence.mm:175-180`),
  a failing append to the log, a failing recovery, a MANIFEST record of which only
  a part was written.
- The other pods: gRPC Core, BoringSSL, protobuf, nanopb, abseil, and Firebase's
  analytics, authentication, messaging and realtime database. They are most of
  the repository's lines, third-party code the app links and does not call; a
  model of them would say nothing of this program. The map therefore covers a
  small share of all lines in `src/` and nearly all of the app's own handlers.
- Doubles: rounding, infinities and NaN. `Double(text)!` reads "inf" and "nan", which
  a pasted amount may be (`PayViewController.swift:49`), and with them every sum and
  comparison of balances loses its meaning; amounts, prices and balances here
  are integers of either sign.
- Texts of amounts beyond the integer they mean, empty passwords, usernames that
  are no document identifiers except the empty one.

## 6. Plan

Built: the app (`Firestore` to `Promises`, `StockPage`), the refinement of `Ledger`, the
path of a write to disk (`LevelDbTransaction`, `Journal`, `LevelDb`) and to the server
(`GrpcStream`), with their runs and twenty-six theorems.

Left, in this order:

1. `WritePipeline`: the SDK's write path in detail (`FillWritePipeline`, handshake
   before the first write, resending after a break, permanent errors against
   transient ones, stream token) on top of `DuplexStream`, with a refinement to
   `queue`, `durable` and `applied` of `Firestore`.
2. The read path in detail: target, initial snapshot, online state, and the
   ten-second answer from the cache.
3. Several writers of LevelDB and overwritten keys, for the callers other than the SDK.
