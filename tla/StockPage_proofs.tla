----------------------------- MODULE StockPage_proofs --------------------------
(******************************************************************************)
(* The safety of the stock page, for any symbols, prices and answers.  That   *)
(* the price is there when it is traded at follows from a chain: the buttons  *)
(* wait for the news, the news are asked for after the name has come, and     *)
(* their completion does not run between the two halves of the quote's.       *)
(******************************************************************************)
EXTENDS StockPage, TLAPS

\* A name that has come, and a page that has seen it, are behind the first half
\* of the quote's completion.
NameHasCome ==
    stockName # NoSymbol \/ news # "unsent"
        \/ at \in {"showName", "showPrice", "awaitNews", "invalid", "trading",
                   "ended"}
    => info \in {"named", "done"}

\* News, and a page that has seen them, are behind both halves.
NewsComeLast == /\ stockNews # 0 => info = "done"
                /\ at \in {"invalid", "trading", "ended"} => stockNews # 0

PriceIsQuote == info = "done" => stockPrice = quote

\* A page that is opened finds nothing of the last one.
NothingLeft == at = "closed" => info = "unsent"

IInv == TypeOK /\ NameHasCome /\ NewsComeLast /\ PriceIsQuote /\ NothingLeft

LEMMA InitInv == Init => IInv
BY DEF Init, IInv, TypeOK, Places, NameHasCome, NewsComeLast, PriceIsQuote,
       NothingLeft

LEMMA NextInv == IInv /\ [Next]_vars => IInv'
<1> SUFFICES ASSUME IInv, [Next]_vars PROVE IInv'
  OBVIOUS
<1> USE DEF IInv, TypeOK, Places, NameHasCome, NewsComeLast, PriceIsQuote,
             NothingLeft
<1>1. CASE ViewDidLoad
  BY <1>1 DEF ViewDidLoad
<1>2. CASE StopWaitingForInfo
  BY <1>2 DEF StopWaitingForInfo
<1>3. CASE ShowName
  BY <1>3 DEF ShowName
<1>4. CASE ShowPrice
  BY <1>4 DEF ShowPrice
<1>5. CASE StopWaitingForNews
  BY <1>5 DEF StopWaitingForNews
<1>6. CASE Close
  BY <1>6 DEF Close
<1>7. ASSUME NEW s \in Symbols \cup {NoSymbol}, NEW p \in Quotes, AnswerInfo(s, p)
      PROVE  IInv'
  BY <1>7, StockPageAssumption DEF AnswerInfo
<1>8. CASE SetPrice
  BY <1>8 DEF SetPrice
<1>9. ASSUME NEW n \in NewsCounts, NEW lacks \in SUBSET Optionals,
             AnswerNews(n, lacks)
      PROVE  IInv'
  BY <1>9, StockPageAssumption DEF AnswerNews, QueueIdle
<1>10. CASE LoseInfo
  BY <1>10 DEF LoseInfo
<1>11. CASE LoseNews
  BY <1>11 DEF LoseNews
<1>12. CASE UNCHANGED vars
  BY <1>12 DEF vars
<1>13. CASE ImageTapped
  BY <1>13 DEF ImageTapped
<1> QED BY <1>1, <1>2, <1>3, <1>4, <1>5, <1>6, <1>7, <1>8, <1>9, <1>10, <1>11,
           <1>12, <1>13 DEF Next

\* Every variable of the page keeps its type.
THEOREM TypeCorrect == Spec => []TypeOK
<1>1. IInv => TypeOK
  BY DEF IInv
<1> QED BY <1>1, InitInv, NextInv, PTL DEF Spec

\* A trade uses the price of the answer, although the page waits for its name
\* only.
THEOREM TradesQuoted == Spec => []TradesAtQuotedPrice
<1>1. IInv => TradesAtQuotedPrice
  BY DEF IInv, NewsComeLast, PriceIsQuote, TradesAtQuotedPrice
<1> QED BY <1>1, InitInv, NextInv, PTL DEF Spec

================================================================================
