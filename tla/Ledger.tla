--------------------------------- MODULE Ledger --------------------------------
(******************************************************************************)
(* What the app should do with money on a single phone: everybody's balances  *)
(* on a page, and further pages for the changes that are not saved yet.  What *)
(* a crash leaves is the first page; what the user acts on is the last one.   *)
(* There is no server here, no cache, and nothing is ever sent.               *)
(******************************************************************************)
EXTENDS Integers, Sequences

CONSTANTS Names, Amounts,
          First     \* the balances to begin with

VARIABLE books

Debit(page, n, a) == [page EXCEPT ![n] = @ - a]
Credit(page, n, a) == [page EXCEPT ![n] = @ + a]

\* The payer pays before the payee has it, and both count on what the latest
\* page says.
Payment(latest, payer, payee, a) ==
    <<Debit(latest, payer, a), Credit(Debit(latest, payer, a), payee, a)>>

\* Pages are added: a payment's, or one that says the same as the latest for a
\* change of something else, such as the tenth of a payment that is invested.
Enter ==
    /\ Len(books') > Len(books)
    /\ LET latest == books[Len(books)]
           added == SubSeq(books', Len(books) + 1, Len(books'))
       IN /\ books' = books \o added
          /\ \/ added = <<latest>>
             \/ \E payer, payee \in Names, a \in Amounts :
                    LET pages == Payment(latest, payer, payee, a)
                    IN added \in {pages, Append(pages, pages[2])}

Save == Len(books) > 1 /\ books' = Tail(books)

\* What is not saved is forgotten.  Between the two pages of a payment its amount
\* is nobody's: it is lost this way (or made, if the amount is negative).
Crash == books' = <<Head(books)>>

Init == books = <<First>>

Next == Enter \/ Save \/ Crash

Spec == Init /\ [][Next]_books

================================================================================
