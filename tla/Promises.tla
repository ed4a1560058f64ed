-------------------------------- MODULE Promises -------------------------------
(******************************************************************************)
(* What the app should keep true.  The properties are about the documents on  *)
(* the server, the copies the phones act on, and the writes between the two.  *)
(******************************************************************************)
EXTENDS HoneyJar
LOCAL INSTANCE FiniteSetsExt

\* The users phone d would find on the server once its own writes are through.
Settled(d) == Overlay(docs, queue[d])

Total(view, Amount(_)) ==
    MapThenSumSet(LAMBDA n : IF view[n] = NoDoc THEN 0 ELSE Amount(view[n]),
                  Names)

--------------------------------------------------------------------------------
(* One phone: the copy, the queue and the server tell one story.              *)

\* With one phone in the world, the users it shows are what the server will
\* hold when the phone's writes are through: userDatabase is refreshed only by
\* a login screen's read, and kept by hand (PayViewController, VeryfySignUp)
\* otherwise.  Users wait for the read before they log in.
LocalViewCurrent ==
    \A d \in Devices : loads[d] = <<>> =>
        \A n \in Names : userDatabase[d][n] # NoDoc =>
            userDatabase[d][n] = Settled(d)[n]

\* With one phone, the app keeps books: every payment starts from the balances
\* that are the latest and debits the payer before the payee is credited, so that
\* a crash leaves at most one payment half done, and nobody has what a payer has
\* not paid; and none of what the SDK does, persisting apart, can be seen in the
\* balances.
ThePhone == CHOOSE d \in Devices : TRUE

\* The balances when the first k writes of the queue have been applied.
Balances(k) ==
    [n \in Names |->
        Source(docs, SubSeq(queue[ThePhone], 1, k), n, "balance").balance]

Books == INSTANCE Ledger WITH
    First <- [n \in Names |-> IF InitialDocs[n] = NoDoc THEN 0
                              ELSE InitialDocs[n].balance],
    books <- [i \in 1..(Len(queue[ThePhone]) - durable[ThePhone] + 1) |->
                 Balances(durable[ThePhone] + i - 1)]

KeepsBooks == Books!Spec

\* With any number of phones, payments move money and never make or lose any,
\* once all is sent.
MoneyAtRest ==
    (\A d \in Devices : queue[d] = <<>>) =>
        Total(docs, LAMBDA u : u.balance)
        = Total(InitialDocs, LAMBDA u : u.balance)

--------------------------------------------------------------------------------
(* Accounts.                                                                  *)

\* No update is in vain: its document is on the server, or its creation is
\* ahead of it in the same queue (updateData fails on a missing document, and
\* the handlers only print the error).
Backed(d, n, before) ==
    \/ docs[n] # NoDoc
    \/ \E j \in DOMAIN queue[d] : j < before /\ queue[d][j].set
                                  /\ queue[d][j].doc = n

UpdatesTargetKnownDocs ==
    \A d \in Devices : \A i \in DOMAIN queue[d] :
        ~queue[d][i].set => Backed(d, queue[d][i].doc, i)

\* When everybody keeps to a phone of their own, the fields only their owner
\* changes are on that phone what they will be on the server: what other
\* phones write to the account (its balance, when they pay it) never takes an
\* older copy of these fields along.
HomeOnly(d, n) ==
    /\ n \in Users[d]
    /\ \A e \in Devices \ {d} : n \notin Users[e] \cup Newcomers[e]

OwnFieldsDurable ==
    \A d \in Devices, n \in Names :
        HomeOnly(d, n) /\ loads[d] = <<>> /\ userDatabase[d][n] # NoDoc =>
            Patched(Settled(d)[n], {"balance"}, userDatabase[d][n])
            = userDatabase[d][n]

--------------------------------------------------------------------------------
(* Friends.                                                                   *)

\* On the server, every friend of an account is an account: a name enters a
\* friend list only when a phone knows the account, and reaches the server
\* after it.
FriendsExist ==
    \A n \in Names : docs[n] # NoDoc =>
        \A m \in Elements(docs[n].friends) : m \in Names /\ docs[m] # NoDoc

\* The payee table, filled from a global of its own, shows the friends of the
\* user who is logged in and of nobody else.
RecipientsAreFriends ==
    \A d \in Devices : session[d] # NoName =>
        recipients[d] = CurrUser(d).friends

\* The payee on the screen is in the list the OK handler searches: otherwise
\* it would write a balance of 0 over the payee's.  Users wait for the login
\* screen's read: a read that comes late may drop an account signed up since.
PayeeKnown ==
    \A d \in Devices : screen[d].at \in {"pay", "sheet", "confirm"} =>
        screen[d].who \in Names /\ userDatabase[d][screen[d].who] # NoDoc

--------------------------------------------------------------------------------
(* Investments and friend lists: restrictions of every copy there is.         *)

Everywhere(U) == StoreOver(U) /\ SessionOver(U)

\* No copy of an account has less to invest than floor.
NoneBelow(floor) == Everywhere({u \in User : u.investmentBalance >= floor})

\* Zero, and the depths to which accounts on the server are overdrawn.
Floors ==
    {0} \cup {docs[n].investmentBalance :
                n \in {m \in Names : docs[m] # NoDoc
                                     /\ docs[m].investmentBalance < 0}}

\* The two numbers whose sign no handler looks at: the amount of a payment with
\* its tenth, and the price of a stock that is sold.
Overdraws(d) ==
    \/ DidConfirmPay(d) /\ screen[d].invest /\ screen[d].amount < 0
    \/ screen[d].price < 0 /\ \E q \in Quantities : SellButton(d, q)

\* Nobody buys for money they do not have.  An investment account gets
\* overdrawn, or more so, only when a payment of a negative amount takes its tenth
\* back or stock is sold at a negative price: no purchase does it, on a copy of
\* whatever age, and no read, retry, crash or merge of fields.
OverdrawnByNegativesOnly ==
    [][\A floor \in Floors :
          NoneBelow(floor) => NoneBelow(floor)'
                              \/ \E d \in Devices : Overdraws(d)]_vars

\* Nobody sells stock they do not hold, by any mix of trades, retries and
\* restarts: no copy of an account, on its way or stored, is short of shares.
NobodyShort ==
    Everywhere({u \in User : \A s \in Symbols : u.stock[s] >= NotHeld})

NoRepeats(u) == \A i, j \in DOMAIN u.friends :
    u.friends[i] \in Names /\ u.friends[i] = u.friends[j] => i = j

\* Nobody is twice in a friend list, wherever a copy of it is: the friend page
\* decides once, when it opens, whether it offers to add.
FriendsDistinct == Everywhere({u \in User : NoRepeats(u)})

--------------------------------------------------------------------------------
(* Progress.                                                                  *)

\* Every write gets through, past breaks, restarts and a full pipeline: a
\* queue does not stay non-empty.
WritesDrain == \A d \in Devices : []<>(queue[d] = <<>>)

\* The login screen's wait ends: a read that was asked for runs its completion.
LoadsComplete == \A d \in Devices : loads[d] # <<>> ~> loads[d] = <<>>

================================================================================
