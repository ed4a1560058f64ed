SPECIFICATION Spec
CONSTANTS
    d1 = d1
    d2 = d2
    alice = alice
    bob = bob
    carol = carol
    p1 = p1
    p2 = p2
    c1 = c1
    acme = acme
    NoDoc = NoDoc
    NoName = NoName
    NoPassword = NoPassword
    Devices <- OnePhone
    Names = {alice, bob, carol}
    Passwords = {p1}
    Cards = {c1}
    Symbols = {acme}
    InitialDocs <- Pair
    Users <- Everybody
    Newcomers <- CarolJoins
    MaxTaps <- TwoTaps
    MaxPendingWrites = 2
    Patient = TRUE
    MayBeOffline = TRUE
    MayBreak = TRUE
    MayRefuse = FALSE
    MayCrash = TRUE
    Amounts = {10}
    Queries = {{carol}}
    Quotes = {}
    Quantities = {}
    NewCards = {}
    NewPasswords = {}
INVARIANTS LocalViewCurrent UpdatesTargetKnownDocs
PROPERTIES KeepsBooks
