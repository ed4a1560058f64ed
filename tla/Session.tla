-------------------------------- MODULE Session --------------------------------
(******************************************************************************)
(* The state every screen of the app shares, and the screens that begin and   *)
(* end a session: LoginViewController, SignUpViewController and SettingPage.  *)
(*                                                                            *)
(* userDatabase is a copy of the whole users collection, read once per login  *)
(* screen.  currUser is a reference: didTapLogin points it at an element of   *)
(* userDatabase, and stays with that object when a late read replaces the     *)
(* array.  The model keeps the reference as the pair session, own: own is     *)
(* NoDoc while currUser is userDatabase[session], and the object itself once  *)
(* the array has been replaced under it.                                      *)
(******************************************************************************)
EXTENDS Firestore

CONSTANTS
    Users,      \* Users[d]: the accounts somebody logs in to on device d
    Newcomers,  \* Newcomers[d]: the usernames somebody signs up with on d
    Patient,    \* whether users let the login screen's read finish first
    MayCrash,   \* whether the process may be killed
    MaxTaps     \* bound: MaxTaps[d] taps with an effect beyond the screen

VARIABLES
    loaded,        \* loaded[d]: userDatabase is not nil
    userDatabase,  \* userDatabase[d]: the users by name (none while nil)
    session,       \* session[d]: name of currUser, NoName on the login screen
    own,           \* own[d]: the object of currUser if it left userDatabase
    recipients,    \* recipients[d]: the global list behind the payee table
    screen,        \* screen[d]: the screen in front, and what it captured
    taps           \* taps[d]: taps counted against MaxTaps

appVars == <<loaded, userDatabase, session, own, recipients, screen, taps>>
vars == <<storeVars, appVars>>

ASSUME SessionAssumption ==
    /\ Users \in [Devices -> SUBSET Names]
    /\ Newcomers \in [Devices -> SUBSET Names]
    /\ Patient \in BOOLEAN /\ MayCrash \in BOOLEAN
    /\ MaxTaps \in [Devices -> Nat]
    /\ NoName \notin Names /\ NoPassword \notin Passwords
    /\ NoDoc \notin User
    /\ InitialDocs \in View

--------------------------------------------------------------------------------
\* The screens with behaviour of their own.  "tabs" stands for the tab bar with
\* its pages; found is the search page's filteredList.
Screens == {"login", "tabs", "pay", "sheet", "confirm", "friend", "stock"}

Screen == [at: Screens, who: Names \cup {NoName}, known: BOOLEAN,
           amount: Int, invest: BOOLEAN, symbol: Symbols \cup {NoName},
           price: Int, found: SUBSET Names]

LoginScreen == [at |-> "login", who |-> NoName, known |-> FALSE, amount |-> 0,
                invest |-> FALSE, symbol |-> NoName, price |-> 0, found |-> {}]

Tabs(found) == [LoginScreen EXCEPT !.at = "tabs", !.found = found]

CurrUser(d) == IF own[d] = NoDoc THEN userDatabase[d][session[d]] ELSE own[d]

Elements(s) == {s[i] : i \in DOMAIN s}

Tap(d) == /\ taps[d] < MaxTaps[d]
          /\ taps' = [taps EXCEPT ![d] = @ + 1]

Show(d, s) == screen' = [screen EXCEPT ![d] = s]

\* The handlers assign to fields of currUser: the object changes in place.
ChangeCurrUser(d, u) ==
    IF own[d] = NoDoc
    THEN /\ userDatabase' = [userDatabase EXCEPT ![d][session[d]] = u]
         /\ UNCHANGED own
    ELSE /\ own' = [own EXCEPT ![d] = u]
         /\ UNCHANGED userDatabase

SessionInit ==
    /\ loaded = [d \in Devices |-> FALSE]
    /\ userDatabase = [d \in Devices |-> EmptyView]
    /\ session = [d \in Devices |-> NoName]
    /\ own = [d \in Devices |-> NoDoc]
    /\ recipients = [d \in Devices |-> <<>>]
    /\ screen = [d \in Devices |-> LoginScreen]
    /\ taps = [d \in Devices |-> 0]

\* The process starts over: every global has its initial value, and the login
\* screen is in front with a read under way.
Restart(d, kept) ==
    /\ Reopen(d, kept)
    /\ loaded' = [loaded EXCEPT ![d] = FALSE]
    /\ userDatabase' = [userDatabase EXCEPT ![d] = EmptyView]
    /\ session' = [session EXCEPT ![d] = NoName]
    /\ own' = [own EXCEPT ![d] = NoDoc]
    /\ recipients' = [recipients EXCEPT ![d] = <<>>]
    /\ Show(d, LoginScreen)

--------------------------------------------------------------------------------
\* The completion of getDocuments runs on the main thread.
Deliver(d) ==
    /\ loads[d] # <<>> /\ Head(loads[d]).ready
    /\ loads' = [loads EXCEPT ![d] = Tail(@)]
    /\ loaded' = [loaded EXCEPT ![d] = TRUE]
    /\ userDatabase' = [userDatabase EXCEPT ![d] = Head(loads[d]).view]
    /\ own' = [own EXCEPT ![d] =
                 IF session[d] = NoName THEN NoDoc ELSE CurrUser(d)]
    /\ UNCHANGED <<docs, cache, queue, durable, applied, covered, session,
                   recipients, screen, taps>>

\* A read that fails only prints: the completion the screen waits for is lost.
LoadFails(d) ==
    /\ MayRefuse
    /\ loads[d] # <<>> /\ ~Head(loads[d]).ready
    /\ loads' = [loads EXCEPT ![d] = Tail(@)]
    /\ UNCHANGED <<docs, cache, queue, durable, applied, covered, appVars>>

\* On the login screen, the user either waits for the read or does not.
Ready(d) == /\ screen[d].at = "login"
            /\ loaded[d]
            /\ Patient => loads[d] = <<>>

\* The typed pair is searched in the local list; any other pair is an alert
\* that changes nothing.
DidTapLogin(d, n, password) ==
    /\ Ready(d)
    /\ n \in Users[d]
    /\ userDatabase[d][n] # NoDoc
    /\ userDatabase[d][n].password = password
    /\ session' = [session EXCEPT ![d] = n]
    /\ recipients' = [recipients EXCEPT ![d] = userDatabase[d][n].friends]
    /\ Show(d, Tabs({}))
    /\ UNCHANGED <<storeVars, loaded, userDatabase, own, taps>>

\* The for-in over the nil userDatabase traps: the app ends.
DidTapTooEarly(d) ==
    /\ screen[d].at = "login"
    /\ ~loaded[d] /\ ~Patient
    /\ Tap(d)
    /\ Restart(d, Persisted(d))

\* Mutant: a sign-up that is not sent to the server.
VeryfySignUpLocally(d, n, password) ==
    /\ Ready(d)
    /\ n \in Newcomers[d]
    /\ userDatabase[d][n] = NoDoc
    /\ Tap(d)
    /\ userDatabase' = [userDatabase EXCEPT ![d][n] =
                          [BlankUser EXCEPT !.password = password]]
    /\ UNCHANGED <<storeVars, loaded, session, own, recipients, screen>>

VeryfySignUp(d, n, password) ==
    /\ Ready(d)
    /\ n \in Newcomers[d]
    /\ userDatabase[d][n] = NoDoc
    /\ Tap(d)
    /\ LET newUser == [BlankUser EXCEPT !.password = password]
       IN /\ userDatabase' = [userDatabase EXCEPT ![d][n] = newUser]
          /\ Issue(d, <<Create(n, newUser)>>)
    /\ UNCHANGED <<loaded, session, own, recipients, screen>>

\* The segue of the button shows a new login screen, which reads again.
DidTapLogout(d) ==
    /\ screen[d].at = "tabs"
    /\ Tap(d)
    /\ session' = [session EXCEPT ![d] = NoName]
    /\ own' = [own EXCEPT ![d] = NoDoc]
    /\ Show(d, LoginScreen)
    /\ AskForUsers(d)
    /\ UNCHANGED <<loaded, userDatabase, recipients>>

\* A presented page is dismissed without further effect.
Dismiss(d) ==
    /\ screen[d].at \in {"pay", "friend", "stock"}
    /\ Show(d, Tabs(screen[d].found))
    /\ UNCHANGED <<storeVars, loaded, userDatabase, session, own, recipients,
                   taps>>

\* The system kills the app: what the worker queue has not stored is gone.  A
\* sign-up with an empty username ends the same way: document("") raises.
Crash(d) ==
    /\ MayCrash
    /\ Restart(d, Persisted(d))
    /\ UNCHANGED taps

SessionStep(d) ==
    \/ Deliver(d)
    \/ LoadFails(d)
    \/ \E n \in Users[d], p \in Passwords : DidTapLogin(d, n, p)
    \/ DidTapTooEarly(d)
    \/ \E n \in Newcomers[d], p \in Passwords : VeryfySignUp(d, n, p)
    \/ DidTapLogout(d)
    \/ Dismiss(d)
    \/ Crash(d)

--------------------------------------------------------------------------------
SessionOver(U) ==
    /\ userDatabase \in [Devices -> ViewsOf(U)]
    /\ own \in [Devices -> U \cup {NoDoc}]

SessionTypes ==
    /\ loaded \in [Devices -> BOOLEAN]
    /\ session \in [Devices -> Names \cup {NoName}]
    /\ recipients \in [Devices -> Seq(Names \cup {NoName})]
    /\ screen \in [Devices -> Screen]
    /\ taps \in [Devices -> Nat]

\* A session belongs to the screens behind the login screen, and its user is
\* an object the app still holds.
SessionHasUser ==
    \A d \in Devices :
        /\ screen[d].at = "login" <=> session[d] = NoName
        /\ session[d] # NoName => CurrUser(d) # NoDoc
        /\ session[d] = NoName => own[d] = NoDoc

================================================================================
