------------------------------- MODULE MCHoneyJar ------------------------------
(* Small instances of the app for TLC. *)
EXTENDS Promises

CONSTANTS d1, d2, alice, bob, carol, p1, p2, c1, acme

OnePhone == {d1}
TwoPhones == {d1, d2}

Account(password, balance, invested, friends, stock) ==
    [password |-> password, balance |-> balance, investmentBalance |-> invested,
     friends |-> friends, cards |-> <<>>,
     stock |-> [s \in Symbols |-> stock]]

\* Two accounts that are friends of each other.
Pair == [n \in Names |->
           CASE n = alice -> Account(p1, 100, 20, <<bob>>, 1)
             [] n = bob -> Account(p1, 50, 0, <<alice>>, NotHeld)
             [] OTHER -> NoDoc]

\* alice has added, from the page of a name that was no longer found, the
\* empty name of the blank user.
PairAndNobody == [Pair EXCEPT ![alice].friends = <<bob, NoName>>]

CarolJoins == [d \in Devices |-> {carol}]
CarolJoinsHere == [d \in Devices |-> IF d = d1 THEN {carol} ELSE {}]
AtMost(n) == [d \in Devices |-> n]
OneTap == AtMost(1)
TwoTaps == AtMost(2)
FewShares == {-1, 3}
Refund == {-250}
FewQuotes == {-9, 5}
Nobody == [d \in Devices |-> {}]
Everybody == [d \in Devices |-> Names]
SharedPhone == [d \in Devices |-> {alice, bob}]
OneEach == [d \in Devices |-> IF d = d1 THEN {alice} ELSE {bob}]
================================================================================
