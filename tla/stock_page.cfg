SPECIFICATION Spec
CONSTANTS
    acme = acme
    notFound = notFound
    Symbols = {acme, notFound}
    Quotes <- EitherSign
    NewsCounts = {0, 2, 3, 5}
    NoSymbol = NoSymbol
    MayFail = TRUE
INVARIANTS TypeOK TradesAtQuotedPrice
PROPERTIES PageOpens
CHECK_DEADLOCK FALSE
