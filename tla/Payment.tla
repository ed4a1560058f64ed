-------------------------------- MODULE Payment --------------------------------
(******************************************************************************)
(* Paying a friend: AddRecipientsViewController and PayViewController.        *)
(*                                                                            *)
(* The OK handler reads three balances from the local objects, changes them   *)
(* in place, and then issues up to three separate updateData calls with the   *)
(* resulting absolute values.  Nothing compares them with the server.         *)
(******************************************************************************)
EXTENDS Session

\* What users type into the amount field.  Nothing looks at its sign: a minus can
\* be pasted, or typed on a keyboard with one.
CONSTANT Amounts

ASSUME AmountsAssumption == Amounts \subseteq Int

\* A row of the payee table is selected; prepare passes the name on.
DidSelectRecipient(d, n) ==
    /\ screen[d].at = "tabs"
    /\ n \in Elements(recipients[d])
    /\ Show(d, [screen[d] EXCEPT !.at = "pay", !.who = n])
    /\ UNCHANGED <<storeVars, loaded, userDatabase, session, own, recipients,
                   taps>>

\* Amount and message are given, which is all that is checked: the sheet asks
\* about the ten per cent.
DidTapPayButton(d, a) ==
    /\ screen[d].at = "pay"
    /\ Show(d, [screen[d] EXCEPT !.at = "sheet", !.amount = a])
    /\ UNCHANGED <<storeVars, loaded, userDatabase, session, own, recipients,
                   taps>>

\* The forced unwrapping of Double(text) traps on a text like "1.2.3".
DidTapPayUnparsable(d) ==
    /\ screen[d].at = "pay"
    /\ MayCrash
    /\ Amounts # {}
    /\ Restart(d, Persisted(d))
    /\ UNCHANGED taps

ShowConfirmationAlert(d, invest) ==
    /\ screen[d].at = "sheet"
    /\ Show(d, [screen[d] EXCEPT !.at = "confirm", !.invest = invest])
    /\ UNCHANGED <<storeVars, loaded, userDatabase, session, own, recipients,
                   taps>>

\* The cancel button of the sheet, or Discard in the confirmation.
DidTapDiscard(d) ==
    /\ screen[d].at \in {"sheet", "confirm"}
    /\ Show(d, [screen[d] EXCEPT !.at = "pay", !.amount = 0, !.invest = FALSE])
    /\ UNCHANGED <<storeVars, loaded, userDatabase, session, own, recipients,
                   taps>>

InvestAmount(a) == a \div 10

\* userDatabase once currUser has been debited: the array holds that object
\* unless a read has replaced it.
Debited(d) ==
    IF own[d] = NoDoc
    THEN [userDatabase[d] EXCEPT ![session[d]].balance = @ - screen[d].amount]
    ELSE userDatabase[d]

\* ... and once the loop over userDatabase has credited the payee, if found.
Credited(d) ==
    LET n == screen[d].who
    IN IF Debited(d)[n] = NoDoc THEN Debited(d)
       ELSE [Debited(d) EXCEPT ![n].balance = @ + screen[d].amount]

\* currUser after the loop, which may have credited that very object.
Payer(d) ==
    IF own[d] = NoDoc THEN Credited(d)[session[d]]
    ELSE [own[d] EXCEPT !.balance = @ - screen[d].amount]

Invested(d) ==
    IF screen[d].invest
    THEN [Payer(d) EXCEPT !.investmentBalance =
              @ + InvestAmount(screen[d].amount)]
    ELSE Payer(d)

\* Mutant: the payee has the money before the payer has paid.
PaymentWritesCreditFirst(d) ==
    LET payer == [CurrUser(d) EXCEPT !.balance = @ - screen[d].amount]
        payee == IF Credited(d)[screen[d].who] = NoDoc THEN BlankUser
                 ELSE Credited(d)[screen[d].who]
    IN <<Update(screen[d].who, {"balance"}, payee),
         Update(session[d], {"balance"}, payer)>>

\* Mutant: the payee's whole document is written, not the one field.
PaymentWritesWhole(d) ==
    <<Update(session[d], {"balance"},
             [CurrUser(d) EXCEPT !.balance = @ - screen[d].amount]),
      Update(screen[d].who, Fields, Credited(d)[screen[d].who])>>

\* The value written for a field is the handler's local variable: the payer's
\* balance before the loop, and 0 for a payee the loop did not find.
PaymentWrites(d) ==
    LET n == screen[d].who
        payer == [CurrUser(d) EXCEPT !.balance = @ - screen[d].amount]
        payee == IF Credited(d)[n] = NoDoc THEN BlankUser ELSE Credited(d)[n]
    IN <<Update(session[d], {"balance"}, payer),
         Update(n, {"balance"}, payee)>>
       \o IF screen[d].invest
          THEN <<Update(session[d], {"investmentBalance"}, Invested(d))>>
          ELSE <<>>

DidConfirmPay(d) ==
    /\ screen[d].at = "confirm"
    /\ screen[d].who \in Names
    /\ Tap(d)
    /\ IF own[d] = NoDoc
       THEN /\ userDatabase' = [userDatabase EXCEPT ![d] =
                                  [Credited(d) EXCEPT ![session[d]] =
                                     Invested(d)]]
            /\ UNCHANGED own
       ELSE /\ userDatabase' = [userDatabase EXCEPT ![d] = Credited(d)]
            /\ own' = [own EXCEPT ![d] = Invested(d)]
    /\ Issue(d, PaymentWrites(d))
    /\ Show(d, Tabs(screen[d].found))
    /\ UNCHANGED <<loaded, session, recipients>>

\* A payee with an empty name: document("") raises after the payer's balance
\* was issued, and any number of the issued writes has been stored by then.
DidConfirmPayNobody(d) ==
    /\ screen[d].at = "confirm"
    /\ screen[d].who = NoName
    /\ Tap(d)
    /\ LET issued == Append(queue[d],
               Update(session[d], {"balance"},
                      [CurrUser(d) EXCEPT !.balance = @ - screen[d].amount]))
       IN \E stored \in durable[d]..Len(issued) :
              Restart(d, SubSeq(issued, 1, stored))

PaymentStep(d) ==
    \/ \E n \in Names \cup {NoName} : DidSelectRecipient(d, n)
    \/ \E a \in Amounts : DidTapPayButton(d, a)
    \/ DidTapPayUnparsable(d)
    \/ \E invest \in BOOLEAN : ShowConfirmationAlert(d, invest)
    \/ DidTapDiscard(d)
    \/ DidConfirmPay(d)
    \/ DidConfirmPayNobody(d)

================================================================================
