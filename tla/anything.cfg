SPECIFICATION Spec
CONSTANTS
    d1 = d1
    d2 = d2
    alice = alice
    bob = bob
    carol = carol
    p1 = p1
    p2 = p2
    c1 = c1
    acme = acme
    NoDoc = NoDoc
    NoName = NoName
    NoPassword = NoPassword
    Devices <- OnePhone
    Names = {alice, bob, carol}
    Passwords = {p1}
    Cards = {c1}
    Symbols = {acme}
    InitialDocs <- PairAndNobody
    Users <- OneEach
    Newcomers <- CarolJoins
    MaxTaps <- TwoTaps
    MaxPendingWrites = 2
    Patient = FALSE
    MayBeOffline = TRUE
    MayBreak = TRUE
    MayRefuse = TRUE
    MayCrash = TRUE
    Amounts <- Refund
    Queries = {{bob, carol}}
    Quotes <- FewQuotes
    Quantities <- FewShares
    NewCards = {}
    NewPasswords = {}
INVARIANTS TypeOK NobodyShort FriendsDistinct
PROPERTIES OverdrawnByNegativesOnly
