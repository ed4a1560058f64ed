-------------------------------- MODULE Settings -------------------------------
(******************************************************************************)
(* The settings that change the account: AddCardViewController and            *)
(* SecurityViewController.                                                    *)
(******************************************************************************)
EXTENDS Session

CONSTANTS
    NewCards,       \* the cards users enter with every field of full length
    NewPasswords    \* the passwords users change to

ASSUME SettingsAssumption == NewCards \subseteq Cards /\ NewPasswords \subseteq Passwords

\* Only the last four digits of a card are kept: distinct cards may have the
\* same text, so Cards are the masked texts.
DidTapAddCardButton(d, card) ==
    /\ screen[d].at = "tabs"
    /\ Tap(d)
    /\ LET u == [CurrUser(d) EXCEPT !.cards = Append(@, card)]
       IN /\ ChangeCurrUser(d, u)
          /\ Issue(d, <<Update(session[d], {"cards"}, u)>>)
    /\ UNCHANGED <<loaded, session, recipients, screen>>

\* The current password and the new one twice.  The check for an unchanged
\* password alerts and goes on: it does not return.
DidTapChangePassword(d, currPassword, newPassword) ==
    /\ screen[d].at = "tabs"
    /\ currPassword = CurrUser(d).password
    /\ Tap(d)
    /\ LET u == [CurrUser(d) EXCEPT !.password = newPassword]
       IN /\ ChangeCurrUser(d, u)
          /\ Issue(d, <<Update(session[d], {"password"}, u)>>)
    /\ UNCHANGED <<loaded, session, recipients, screen>>

SettingsStep(d) ==
    \/ \E c \in NewCards : DidTapAddCardButton(d, c)
    \/ \E p \in Passwords, q \in NewPasswords : DidTapChangePassword(d, p, q)

================================================================================
