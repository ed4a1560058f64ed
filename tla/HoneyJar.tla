-------------------------------- MODULE HoneyJar -------------------------------
(******************************************************************************)
(* The whole app: every screen's handlers over the shared session state, on   *)
(* any number of devices, over one Firestore collection.                      *)
(******************************************************************************)
EXTENDS Payment, Friends, Trading, Settings

Init == StoreInit /\ SessionInit

\* The SDK's threads do not touch the app's variables.
InBackground(d) ==
    \/ Persist(d) /\ UNCHANGED appVars
    \/ Commit(d) /\ UNCHANGED appVars
    \/ Ack(d) /\ UNCHANGED appVars
    \/ Reject(d) /\ UNCHANGED appVars
    \/ Break(d) /\ UNCHANGED appVars
    \/ Raise(d) /\ UNCHANGED appVars
    \/ RaiseFromCache(d) /\ UNCHANGED appVars

Step(d) ==
    \/ InBackground(d)
    \/ SessionStep(d)
    \/ PaymentStep(d)
    \/ FriendsStep(d)
    \/ TradingStep(d)
    \/ SettingsStep(d)

Next == \E d \in Devices : Step(d)

Spec == Init /\ [][Next]_vars

(* The worker queue and the main queue keep running, a server that is reached *)
(* answers, and although streams may break again and again, some answer gets  *)
(* through (the SDK reconnects with backoff for as long as it has writes).    *)
(* Nothing is assumed of users, of crashes or of refusals.                    *)
Fairness ==
    \A d \in Devices :
        /\ WF_vars(Persist(d) /\ UNCHANGED appVars)
        /\ WF_vars(Commit(d) /\ UNCHANGED appVars)
        /\ SF_vars(Ack(d) /\ UNCHANGED appVars)
        /\ WF_vars(Raise(d) /\ UNCHANGED appVars)
        /\ WF_vars(Deliver(d))

FairSpec == Spec /\ Fairness

--------------------------------------------------------------------------------
\* Every variable holds a value of its type, the positions of the SDK in a queue
\* are in order, and a session has a user, whatever the devices do.
TypeOK == /\ StoreOver(User) /\ StoreCounters
          /\ SessionOver(User) /\ SessionTypes /\ SessionHasUser

================================================================================
