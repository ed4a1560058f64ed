------------------------------- MODULE StockPage -------------------------------
(******************************************************************************)
(* How the page of a stock gets its contents: viewDidLoad of                  *)
(* DisplayStockInfoViewController and the two requests it makes.              *)
(*                                                                            *)
(* The main thread starts a request, spins until the completion has set a     *)
(* property, shows what it finds, and does the same for the news.  The        *)
(* completions run on the serial delegate queue of URLSession.shared and      *)
(* share the page's properties with the spinning thread without any lock: the *)
(* price is set after the name, and the spin waits for the name alone.  A     *)
(* completion that does not run (an error, an answer that does not parse)     *)
(* leaves the main thread spinning, and so does one that sets the name to the *)
(* empty string the spin waits to be rid of.  An article without one of the   *)
(* optional fields the page unwraps by force ends the app.                    *)
(******************************************************************************)
EXTENDS Integers

CONSTANTS
    Symbols,    \* names in the answers, that of an unknown stock included
    Quotes,     \* prices in the answers, 0 for an answer without one; nothing
                \* checks their sign
    NewsCounts, \* numbers of articles in the answers
    NoSymbol,   \* the empty string, which an answer may hold as well
    MayFail     \* whether requests may fail

ASSUME StockPageAssumption ==
    /\ Quotes \subseteq Int
    /\ NewsCounts \subseteq Nat
    /\ MayFail \in BOOLEAN

VARIABLES
    at,         \* where the main thread is in viewDidLoad
    info,       \* the request for the quote, and how far its completion is
    news,       \* the request for the news
    quote,      \* the price in the quote's answer
    missing,    \* what one of the first three articles lacks
    stockName, stockPrice, stockNews,  \* properties of the page
    nameLabel, priceLabel              \* what the page shows

vars == <<at, info, news, quote, missing, stockName, stockPrice, stockNews,
          nameLabel, priceLabel>>

Places == {"closed", "awaitInfo", "showName", "showPrice", "awaitNews",
           "invalid", "trading", "ended"}

\* The optional fields of an article that the page unwraps: the first two when
\* it shows the article, the last one when its image is tapped.
Shown == {"text", "image_url"}
Optionals == Shown \cup {"news_url"}

TypeOK ==
    /\ at \in Places
    /\ info \in {"unsent", "sent", "named", "done", "failed"}
    /\ news \in {"unsent", "sent", "done", "failed"}
    /\ {stockName, nameLabel} \subseteq Symbols \cup {NoSymbol}
    /\ missing \subseteq Optionals
    /\ {quote, stockPrice, priceLabel} \subseteq Int
    /\ stockNews \in Nat

\* No page, and the properties of a new one.
Init ==
    /\ at = "closed"
    /\ info = "unsent" /\ news = "unsent"
    /\ quote = 0 /\ missing = {}
    /\ stockName = NoSymbol /\ stockPrice = 0 /\ stockNews = 0
    /\ nameLabel = NoSymbol /\ priceLabel = 0

--------------------------------------------------------------------------------
(* The main thread. *)

ViewDidLoad ==
    /\ at = "closed"
    /\ at' = "awaitInfo"
    /\ info' = "sent"
    /\ UNCHANGED <<news, quote, missing, stockName, stockPrice, stockNews,
                   nameLabel, priceLabel>>

StopWaitingForInfo ==
    /\ at = "awaitInfo"
    /\ stockName # NoSymbol
    /\ at' = "showName"
    /\ UNCHANGED <<info, news, quote, missing, stockName, stockPrice, stockNews,
                   nameLabel, priceLabel>>

\* Mutant: the two labels are mixed up.
ShowNameMixedUp ==
    /\ at = "showName"
    /\ at' = "showPrice"
    /\ nameLabel' = stockPrice
    /\ UNCHANGED <<info, news, quote, missing, stockName, stockPrice, stockNews,
                   priceLabel>>

ShowName ==
    /\ at = "showName"
    /\ at' = "showPrice"
    /\ nameLabel' = stockName
    /\ UNCHANGED <<info, news, quote, missing, stockName, stockPrice, stockNews,
                   priceLabel>>

ShowPrice ==
    /\ at = "showPrice"
    /\ at' = "awaitNews"
    /\ priceLabel' = stockPrice
    /\ news' = "sent"
    /\ UNCHANGED <<info, quote, missing, stockName, stockPrice, stockNews,
                   nameLabel>>

\* Fewer than three articles: "Invalid Inquiry!", and no buttons.  Otherwise the
\* first three are shown, and text! and image_url! end the app at one that lacks
\* its text or its image.
StopWaitingForNews ==
    /\ at = "awaitNews"
    /\ stockNews # 0
    /\ \/ stockNews < 3 /\ at' = "invalid"
       \/ stockNews >= 3 /\ missing \cap Shown = {} /\ at' = "trading"
       \/ stockNews >= 3 /\ missing \cap Shown # {} /\ at' = "ended"
    /\ UNCHANGED <<info, news, quote, missing, stockName, stockPrice, stockNews,
                   nameLabel, priceLabel>>

\* imageTapped opens the article behind the image; news_url! ends the app at an
\* article without one.
ImageTapped ==
    /\ at = "trading"
    /\ "news_url" \in missing
    /\ at' = "ended"
    /\ UNCHANGED <<info, news, quote, missing, stockName, stockPrice, stockNews,
                   nameLabel, priceLabel>>

\* The page is dismissed; the next search makes a new one.
Close ==
    /\ at \in {"invalid", "trading"}
    /\ at' = "closed"
    /\ info' = "unsent" /\ news' = "unsent"
    /\ quote' = 0 /\ missing' = {}
    /\ stockName' = NoSymbol /\ stockPrice' = 0 /\ stockNews' = 0
    /\ nameLabel' = NoSymbol /\ priceLabel' = 0

MainThread == StopWaitingForInfo \/ ShowName \/ ShowPrice \/ StopWaitingForNews

--------------------------------------------------------------------------------
(* The delegate queue, which runs one completion at a time. *)

\* GetStockInfo's completion sets the name ...
AnswerInfo(symbol, price) ==
    /\ info = "sent"
    /\ info' = "named"
    /\ quote' = price
    /\ stockName' = symbol
    /\ UNCHANGED <<at, news, missing, stockPrice, stockNews, nameLabel,
                   priceLabel>>

\* ... and then the price.
SetPrice ==
    /\ info = "named"
    /\ info' = "done"
    /\ stockPrice' = quote
    /\ UNCHANGED <<at, news, quote, missing, stockName, stockNews, nameLabel,
                   priceLabel>>

\* Mutant: completions run concurrently.
QueueConcurrent == TRUE

QueueIdle == info # "named"

\* Mutant: an answer without articles is passed on as it is.
AnswerNewsEmpty(count, lacks) ==
    /\ news = "sent"
    /\ QueueIdle
    /\ news' = "done"
    /\ stockNews' = count
    /\ missing' = IF count = 0 THEN {} ELSE lacks
    /\ UNCHANGED <<at, info, quote, stockName, stockPrice, nameLabel,
                   priceLabel>>

\* GetStockNews passes one blank article on when there is none, with every field
\* in place.
AnswerNews(count, lacks) ==
    /\ news = "sent"
    /\ QueueIdle
    /\ news' = "done"
    /\ stockNews' = IF count = 0 THEN 1 ELSE count
    /\ missing' = IF count = 0 THEN {} ELSE lacks
    /\ UNCHANGED <<at, info, quote, stockName, stockPrice, nameLabel,
                   priceLabel>>

\* No answer, one that does not parse, or a search text no URL can be made of.
LoseInfo ==
    /\ MayFail
    /\ info = "sent"
    /\ info' = "failed"
    /\ UNCHANGED <<at, news, quote, missing, stockName, stockPrice, stockNews,
                   nameLabel, priceLabel>>

LoseNews ==
    /\ MayFail
    /\ news = "sent"
    /\ news' = "failed"
    /\ UNCHANGED <<at, info, quote, missing, stockName, stockPrice, stockNews,
                   nameLabel, priceLabel>>

Next ==
    \/ ViewDidLoad
    \/ StopWaitingForInfo
    \/ ShowName
    \/ ShowPrice
    \/ StopWaitingForNews
    \/ ImageTapped
    \/ Close
    \/ \E s \in Symbols \cup {NoSymbol}, p \in Quotes : AnswerInfo(s, p)
    \/ SetPrice
    \/ \E n \in NewsCounts, lacks \in SUBSET Optionals : AnswerNews(n, lacks)
    \/ LoseInfo
    \/ LoseNews

\* The threads run, and a request ends one way or the other.
Fairness ==
    /\ WF_vars(MainThread)
    /\ WF_vars(SetPrice)
    /\ WF_vars(LoseInfo \/ \E s \in Symbols \cup {NoSymbol}, p \in Quotes :
                                AnswerInfo(s, p))
    /\ WF_vars(LoseNews \/ \E n \in NewsCounts, lacks \in SUBSET Optionals :
                                AnswerNews(n, lacks))

Spec == Init /\ [][Next]_vars /\ Fairness

--------------------------------------------------------------------------------
\* While the Buy and Sell buttons are there, the price a trade uses is the one
\* of the answer and stays so, although nothing orders the completion's second
\* assignment before the main thread goes on: the news' completion cannot run
\* before it.
TradesAtQuotedPrice == at = "trading" => stockPrice = quote /\ info = "done"

\* The page opens, but for three reasons: one of its two requests failed, the
\* answer's symbol is the empty string (both leave the main thread spinning), or
\* one of the articles it shows has no text or no image (the app ends).
PageOpens ==
    at = "awaitInfo" ~> \/ at \in {"invalid", "trading"}
                        \/ info = "failed" \/ news = "failed"
                        \/ info = "done" /\ stockName = NoSymbol
                        \/ at = "ended" /\ missing \cap Shown # {}

================================================================================
