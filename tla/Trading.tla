-------------------------------- MODULE Trading --------------------------------
(******************************************************************************)
(* Buying and selling on the page of a stock: the two button handlers of      *)
(* DisplayStockInfoViewController.  StockPage models how the page gets its    *)
(* quote; here the page opens with a symbol and a price in place.  A page     *)
(* that ends the app, or hangs until somebody ends it, is a Crash.            *)
(******************************************************************************)
EXTENDS Session

CONSTANTS
    Quotes,      \* prices the page may hold; 0 is that of a quote without one,
                 \* and nothing looks at the sign of one
    Quantities   \* the integer values of the texts typed as an amount

ASSUME TradingAssumption == Quotes \subseteq Int /\ Quantities \subseteq Int
ASSUME SymbolsAssumption == NoName \notin Symbols

DidTapSearchStock(d, symbol, price) ==
    /\ screen[d].at = "tabs"
    /\ Show(d, [screen[d] EXCEPT !.at = "stock", !.symbol = symbol,
                                 !.price = price])
    /\ UNCHANGED <<storeVars, loaded, userDatabase, session, own, recipients,
                   taps>>

Holding(u, symbol) == IF u.stock[symbol] = NotHeld THEN 0 ELSE u.stock[symbol]

\* Mutant: the price is compared with the wrong account.
CanBuyFromBalance(u, quantity, price) ==
    quantity >= 0 /\ quantity * price <= u.balance

CanBuy(u, quantity, price) ==
    quantity >= 0 /\ quantity * price <= u.investmentBalance

Bought(u, symbol, quantity, price) ==
    [u EXCEPT !.investmentBalance = @ - quantity * price,
              !.stock[symbol] = Holding(u, symbol) + quantity]

\* Mutant: the holding is not compared with the number sold.
CanSellMore(u, symbol, quantity) == quantity >= 0 /\ u.stock[symbol] # NotHeld

CanSell(u, symbol, quantity) ==
    quantity >= 0 /\ u.stock[symbol] # NotHeld /\ quantity <= u.stock[symbol]

\* Selling the last of a stock removes its key.
Sold(u, symbol, quantity, price) ==
    [u EXCEPT !.investmentBalance = @ + quantity * price,
              !.stock[symbol] = IF @ = quantity THEN NotHeld ELSE @ - quantity]

\* Both handlers end by writing both fields, changed or not.
Trade(d, u) ==
    /\ screen[d].at = "stock"
    /\ Tap(d)
    /\ ChangeCurrUser(d, u)
    /\ Issue(d, <<Update(session[d], {"stock", "investmentBalance"}, u)>>)
    /\ UNCHANGED <<loaded, session, recipients, screen>>

BuyButton(d, quantity) ==
    LET u == CurrUser(d)
        symbol == screen[d].symbol
        price == screen[d].price
    IN Trade(d, IF CanBuy(u, quantity, price)
                THEN Bought(u, symbol, quantity, price) ELSE u)

SellButton(d, quantity) ==
    LET u == CurrUser(d)
        symbol == screen[d].symbol
        price == screen[d].price
    IN Trade(d, IF CanSell(u, symbol, quantity)
                THEN Sold(u, symbol, quantity, price) ELSE u)

TradingStep(d) ==
    \/ \E s \in Symbols, p \in Quotes : DidTapSearchStock(d, s, p)
    \/ \E q \in Quantities : BuyButton(d, q)
    \/ \E q \in Quantities : SellButton(d, q)

================================================================================
