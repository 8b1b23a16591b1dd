--------------------------- MODULE MCTradeEngine ---------------------------
(* TradeEngine with three states of a book, one-sided, wide and narrow,    *)
(* and memory that is clean or not.                                        *)
EXTENDS TradeEngine

MCUnit == 216
MCThreshold == MCUnit \div 2 + MCUnit \div 12
MCMaxLoss == -3 * MCUnit
MCGarbage ==
  {[t \in Tickers |-> [BUY |-> 0, SELL |-> 0]],
   [t \in Tickers |-> [BUY |-> 5 * MCUnit, SELL |-> 2 * MCUnit]]}

MCBbos ==
  {[bid |-> 2, ask |-> 0, bid_qty |-> 1, ask_qty |-> 0],
   [bid |-> 1, ask |-> 3, bid_qty |-> 1, ask_qty |-> 2],
   [bid |-> 2, ask |-> 3, bid_qty |-> 2, ask_qty |-> 1]}

ASSUME FairPricesAssumption == FairPricesExact

=============================================================================
