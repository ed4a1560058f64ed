SPECIFICATION FairSpec
CONSTANTS
    d1 = d1
    d2 = d2
    alice = alice
    bob = bob
    carol = carol
    p1 = p1
    p2 = p2
    c1 = c1
    acme = acme
    NoDoc = NoDoc
    NoName = NoName
    NoPassword = NoPassword
    Devices <- OnePhone
    Names = {alice, bob}
    Passwords = {p1}
    Cards = {c1}
    Symbols = {acme}
    InitialDocs <- Pair
    Users <- SharedPhone
    Newcomers <- Nobody
    MaxTaps <- TwoTaps
    MaxPendingWrites = 1
    Patient = FALSE
    MayBeOffline = TRUE
    MayBreak = TRUE
    MayRefuse = FALSE
    MayCrash = FALSE
    Amounts = {10}
    Queries = {}
    Quotes = {}
    Quantities = {}
    NewCards = {}
    NewPasswords = {}
PROPERTIES WritesDrain LoadsComplete
CHECK_DEADLOCK FALSE
