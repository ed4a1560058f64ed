-------------------------------- MODULE Friends --------------------------------
(******************************************************************************)
(* Finding and adding friends: SearchFriendViewController,                    *)
(* FriendViewController and FriendSettingViewController.                      *)
(*                                                                            *)
(* The search result is a list of names, taken from userDatabase when the     *)
(* user searched; the friend page looks its name up again when it is opened,  *)
(* and a read may have replaced userDatabase in between.                      *)
(******************************************************************************)
EXTENDS Session

CONSTANT Queries    \* the sets of names the typed search texts match

ASSUME QueriesAssumption == Queries \subseteq SUBSET Names

DidTapSearchButton(d, q) ==
    /\ screen[d].at = "tabs"
    /\ Show(d, Tabs({n \in q : userDatabase[d][n] # NoDoc}))
    /\ UNCHANGED <<storeVars, loaded, userDatabase, session, own, recipients,
                   taps>>

IsFriend(d, n) == n \in Elements(CurrUser(d).friends)

\* The friend page keeps the blank User() when it does not find its name.
FoundName(d, n) == IF userDatabase[d][n] = NoDoc THEN NoName ELSE n

\* Mutant: the page offers to add whoever was found.
DidSelectResultAlwaysAdds(d, n) ==
    /\ screen[d].at = "tabs"
    /\ n \in screen[d].found
    /\ Show(d, [Tabs({}) EXCEPT !.at = "friend", !.who = FoundName(d, n)])
    /\ UNCHANGED <<storeVars, loaded, userDatabase, session, own, recipients,
                   taps>>

\* A row of the search result is selected.  The name compared with the friends
\* is the row's; the name on the page is that of the object found for it.
DidSelectResult(d, n) ==
    /\ screen[d].at = "tabs"
    /\ n \in screen[d].found
    /\ Show(d, [Tabs({}) EXCEPT !.at = "friend", !.who = FoundName(d, n),
                                !.known = IsFriend(d, n)])
    /\ UNCHANGED <<storeVars, loaded, userDatabase, session, own, recipients,
                   taps>>

\* Mutant: the payee table's list is not refreshed.
DidTapModifyFriendButtonOnly(d) ==
    /\ screen[d].at = "friend"
    /\ ~screen[d].known
    /\ Tap(d)
    /\ LET u == [CurrUser(d) EXCEPT !.friends = Append(@, screen[d].who)]
       IN ChangeCurrUser(d, u) /\ Issue(d, <<Update(session[d], {"friends"}, u)>>)
    /\ Show(d, [screen[d] EXCEPT !.known = TRUE, !.found = {}])
    /\ UNCHANGED <<loaded, session, recipients>>

\* The button is hidden on the page of a friend.  Adding resets the search
\* page and reopens the friend page as that of a friend.
DidTapModifyFriendButton(d) ==
    /\ screen[d].at = "friend"
    /\ ~screen[d].known
    /\ Tap(d)
    /\ LET u == [CurrUser(d) EXCEPT !.friends = Append(@, screen[d].who)]
       IN /\ ChangeCurrUser(d, u)
          /\ Issue(d, <<Update(session[d], {"friends"}, u)>>)
          /\ recipients' = [recipients EXCEPT ![d] = u.friends]
    /\ Show(d, [screen[d] EXCEPT !.known = TRUE, !.found = {}])
    /\ UNCHANGED <<loaded, session>>

\* A row of the friend list in the settings: the same page, without a button.
DidSelectFriend(d, n) ==
    /\ screen[d].at = "tabs"
    /\ Queries # {}
    /\ n \in Elements(CurrUser(d).friends)
    /\ n \in Names
    /\ Show(d, [Tabs(screen[d].found) EXCEPT !.at = "friend",
                   !.who = FoundName(d, n), !.known = TRUE])
    /\ UNCHANGED <<storeVars, loaded, userDatabase, session, own, recipients,
                   taps>>

FriendsStep(d) ==
    \/ \E q \in Queries : DidTapSearchButton(d, q)
    \/ \E n \in Names : DidSelectResult(d, n)
    \/ DidTapModifyFriendButton(d)
    \/ \E n \in Names : DidSelectFriend(d, n)

================================================================================
