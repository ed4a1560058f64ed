------------------------------ MODULE MCStockPage ------------------------------
(* A small instance of StockPage for TLC: a known stock and an unknown one,   *)
(* prices of both signs and none, and answers with as many articles as make a *)
(* difference.                                                                *)
EXTENDS StockPage
CONSTANTS acme, notFound
EitherSign == {0, 5, -7}
================================================================================
