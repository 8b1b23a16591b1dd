---------------------------- MODULE TradeEngine ----------------------------
(***************************************************************************)
(* The handlers of the trading client's TradeEngine and what they drive:   *)
(* PositionKeeper, FeatureEngine and the strategy (MarketMaker,            *)
(* LiquidityTaker, or none for RANDOM), up to the calls of the order       *)
(* manager, which OrderManager models.  MarketOrderBook models how a book  *)
(* arrives at its best bid and offer; here an update brings it along.      *)
(*                                                                         *)
(* One thread runs all of this, but its inputs come from two queues in any *)
(* order: fills, book changes and trades of all instruments alternate, and *)
(* FeatureEngine has one pair of features for all of them.                 *)
(*                                                                         *)
(* A double is an integer number of 1/Unit, which the bounds keep exact.   *)
(* open_vwap_ has no initial value: it starts with any of Garbage.         *)
(*                                                                         *)
(* Operators whose comment starts with "Defect:" are variants of the       *)
(* definition that follows them, which some property must exclude.         *)
(***************************************************************************)
EXTENDS Integers

CONSTANTS Tickers,
          Traded,          \* the instruments this client has orders in
          Bbos,            \* the best bids and offers a book can show
          FillPrices,      \* prices of fills
          Qtys,            \* quantities of fills
          TradeQtys,       \* quantities of trades between others
          MaxPosition,     \* the risk manager's limit (OrderManager: PositionWithinLimit)
          Threshold,       \* TradeEngineCfg::threshold_, in 1/Unit
          MaxLoss,         \* RiskCfg::max_loss_, in 1/Unit
          Garbage,         \* what the arrays open_vwap_ can hold at first, in 1/Unit
          Unit,            \* parts a double is counted in
          Feature_INVALID, \* the NaN
          MaxFills         \* bound on the fills

ASSUME FillAssumption ==
  Traded \subseteq Tickers /\ FillPrices \subseteq Nat \ {0} /\ Qtys \cup TradeQtys \subseteq Nat \ {0}
ASSUME RiskAssumption == MaxPosition \in Nat /\ MaxLoss \in Int /\ Threshold \in Nat
ASSUME UnitAssumption == Unit \in Nat \ {0}
ASSUME GarbageAssumption == Garbage \subseteq [Tickers -> [{"BUY", "SELL"} -> Int]]
ASSUME BboAssumption ==
  \A b \in Bbos : /\ {b.bid, b.ask, b.bid_qty, b.ask_qty} \subseteq Nat
                  /\ b.bid # 0 => b.bid_qty # 0
                  /\ b.ask # 0 => b.ask_qty # 0
ASSUME FeatureAssumption == Feature_INVALID \notin Int
ASSUME BoundAssumption == MaxFills \in Nat

VARIABLES
  algo_type,               \* the strategy of this client
  ticker_position_,        \* PositionKeeper: the PositionInfo of each instrument
  bbo,                     \* MarketOrderBook: the best bid and offer of each instrument
  mkt_price_,              \* FeatureEngine, shared by all instruments
  agg_trade_qty_ratio_,
  call,                    \* what the last handler asked of the order manager
  account,                 \* the money that really changed hands (not in the code)
  fills                    \* fills so far

vars == <<algo_type, ticker_position_, bbo, mkt_price_, agg_trade_qty_ratio_, call, account, fills>>

Sides == {"BUY", "SELL"}
Price_INVALID == 0
NoCall == [method |-> "none"]
NoTrade == [side |-> "INVALID", qty |-> 0]

sideToValue(side) == IF side = "BUY" THEN 1 ELSE -1
Opposite(side) == IF side = "BUY" THEN "SELL" ELSE "BUY"
Abs(n) == IF n < 0 THEN -n ELSE n
Smaller(m, n) == IF m < n THEN m ELSE n
Bigger(m, n) == IF m < n THEN n ELSE m

BothSides(b) == b.bid # Price_INVALID /\ b.ask # Price_INVALID
Mid(b) == ((b.bid + b.ask) * Unit) \div 2

Init ==
  /\ algo_type \in {"MAKER", "TAKER", "RANDOM"}
  /\ \E g \in Garbage : ticker_position_ = [t \in Tickers |->
       [position_ |-> 0, real_pnl_ |-> 0, unreal_pnl_ |-> 0, total_pnl_ |-> 0,
        open_vwap_ |-> g[t], volume_ |-> 0]]
  /\ bbo = [t \in Tickers |-> [bid |-> Price_INVALID, ask |-> Price_INVALID,
                               bid_qty |-> 0, ask_qty |-> 0]]
  /\ mkt_price_ = Feature_INVALID /\ agg_trade_qty_ratio_ = Feature_INVALID
  /\ call = NoCall
  /\ account = [t \in Tickers |-> [cash |-> 0, mark |-> 0, leftover |-> 0,
                                   low |-> 0, high |-> 0, clean |-> FALSE]]
  /\ fills = 0

-----------------------------------------------------------------------------
(* PositionInfo. *)

\* What the open position gains when it is valued at a price.
Unrealized(position, open_vwap, price) ==
  IF position = 0 THEN 0
  ELSE IF position > 0
       THEN (price - open_vwap["BUY"] \div Abs(position)) * Abs(position)
       ELSE (open_vwap["SELL"] \div Abs(position) - price) * Abs(position)

\* Defect: a fill that flips the position is realized for its whole quantity.
RealizedWhole(old, average, side, price, qty) == qty * (average - price) * sideToValue(side)

\* What a fill gains that closes a position, or as much of it as there is.
Realized(old, average, side, price, qty) ==
  Smaller(qty, Abs(old)) * (average - price) * sideToValue(side)

\* Defect: what is sold comes off the volume.
VolumeSigned(p, side, qty) == p.volume_ + qty * sideToValue(side)

Volume(p, side, qty) == p.volume_ + qty

\* addFill(): a fill opens or increases the position, or else closes some or all of it at
\* the average price it was opened for, and may flip it.  The last price values the rest.
addFill(p, side, price, qty) ==
  LET old == p.position_
      position == old + qty * sideToValue(side)
      average == p.open_vwap_[Opposite(side)] \div Abs(old)
      opens == old * sideToValue(side) >= 0
      open_vwap ==
        IF position = 0 THEN [s \in Sides |-> 0]
        ELSE IF opens THEN [p.open_vwap_ EXCEPT ![side] = @ + price * qty]
        ELSE IF position * old < 0
             THEN [s \in Sides |-> IF s = side THEN price * Abs(position) ELSE 0]
        ELSE [p.open_vwap_ EXCEPT ![Opposite(side)] = average * Abs(position)]
      real == p.real_pnl_ + (IF opens THEN 0 ELSE Realized(old, average, side, price, qty))
      unreal == Unrealized(position, open_vwap, price)
  IN  [position_ |-> position, real_pnl_ |-> real, unreal_pnl_ |-> unreal,
       total_pnl_ |-> unreal + real, open_vwap_ |-> open_vwap, volume_ |-> Volume(p, side, qty)]

\* updateBBO(): an open position is valued at the mid price, if there is one.
updateBBO(p, b) ==
  IF p.position_ # 0 /\ BothSides(b)
  THEN LET unreal == Unrealized(p.position_, p.open_vwap_, Mid(b))
       IN  [p EXCEPT !.unreal_pnl_ = unreal, !.total_pnl_ = unreal + p.real_pnl_]
  ELSE p

\* RiskInfo::checkPreTradeRisk, its last check.
LossTooLarge(p) == p.total_pnl_ < MaxLoss

-----------------------------------------------------------------------------
(* FeatureEngine and the strategies. *)

\* FeatureEngine::onOrderBookUpdate: the fair price.
MktPrice(b) ==
  IF BothSides(b)
  THEN ((b.bid * b.ask_qty + b.ask * b.bid_qty) * Unit) \div (b.bid_qty + b.ask_qty)
  ELSE mkt_price_

\* FeatureEngine::onTradeUpdate: the trade's share of the quantity it traded against.
AggTradeQtyRatio(b, side, qty) ==
  IF BothSides(b)
  THEN (qty * Unit) \div (IF side = "BUY" THEN b.ask_qty ELSE b.bid_qty)
  ELSE agg_trade_qty_ratio_

MoveOrders(t, bid_price, ask_price, p, trade) ==
  [method |-> "moveOrders", ticker |-> t, bid |-> bid_price, ask |-> ask_price,
   loss_too_large |-> LossTooLarge(p), trade |-> trade]

\* MarketMaker::onOrderBookUpdate: quotes at the best prices, or one worse where the fair
\* price is too close.  The test for Feature_INVALID is always true, for a NaN differs from
\* itself too; a comparison with NaN is false.
MakerQuotes(t, b, fair_price, p) ==
  IF algo_type = "MAKER" /\ BothSides(b)
  THEN LET Far(distance) == fair_price # Feature_INVALID /\ distance >= Threshold
       IN  MoveOrders(t, b.bid - (IF Far(fair_price - b.bid * Unit) THEN 0 ELSE 1),
                         b.ask + (IF Far(b.ask * Unit - fair_price) THEN 0 ELSE 1), p, NoTrade)
  ELSE NoCall

\* LiquidityTaker::onTradeUpdate: takes what is best on the side of a large trade.
TakerQuotes(t, b, ratio, side, qty) ==
  IF algo_type = "TAKER" /\ BothSides(b) /\ ratio # Feature_INVALID /\ ratio >= Threshold
  THEN MoveOrders(t, IF side = "BUY" THEN b.ask ELSE Price_INVALID,
                     IF side = "BUY" THEN Price_INVALID ELSE b.bid,
                     ticker_position_[t], [side |-> side, qty |-> qty])
  ELSE NoCall

-----------------------------------------------------------------------------
(* The handlers of TradeEngine. *)

\* The money of a fill.  Once, when the first position opens, the garbage of its side
\* becomes part of what the position seems to have cost.
Settle(a, p, side, price, qty) ==
  LET position == p.position_ + qty * sideToValue(side)
      fresh == p.position_ = 0 \/ position * p.position_ < 0
      widens == p.position_ * sideToValue(side) > 0
  IN  [cash |-> a.cash - price * qty * sideToValue(side),
       mark |-> price,
       leftover |-> IF p.volume_ = 0 THEN p.open_vwap_[side] * sideToValue(side) ELSE a.leftover,
       low |-> IF fresh THEN price ELSE IF widens THEN Smaller(a.low, price) ELSE a.low,
       high |-> IF fresh THEN price ELSE IF widens THEN Bigger(a.high, price) ELSE a.high,
       clean |-> IF p.volume_ = 0 THEN p.open_vwap_[side] = 0 ELSE a.clean \/ fresh]

\* algoOnOrderUpdate_: both strategies hand the response to their order manager.
Forward == IF algo_type = "RANDOM" THEN NoCall ELSE [method |-> "onOrderUpdate"]

\* onOrderUpdate() of a fill: first the position, then the strategy.
OnFill(t, side, price, qty) ==
  /\ fills < MaxFills
  /\ Abs(ticker_position_[t].position_ + qty * sideToValue(side)) <= MaxPosition
  /\ ticker_position_' = [ticker_position_ EXCEPT ![t] = addFill(@, side, price * Unit, qty)]
  /\ account' = [account EXCEPT ![t] = Settle(@, ticker_position_[t], side, price * Unit, qty)]
  /\ call' = Forward
  /\ fills' = fills + 1
  /\ UNCHANGED <<algo_type, bbo, mkt_price_, agg_trade_qty_ratio_>>

\* onOrderUpdate() of any other response.
OnOtherResponse ==
  /\ call' = Forward
  /\ UNCHANGED <<algo_type, ticker_position_, bbo, mkt_price_, agg_trade_qty_ratio_, account, fills>>

\* Defect: the strategy quotes before the feature engine has seen the book.
OnOrderBookUpdateLate(t, b) ==
  /\ bbo' = [bbo EXCEPT ![t] = b]
  /\ ticker_position_' = [ticker_position_ EXCEPT ![t] = updateBBO(@, b)]
  /\ mkt_price_' = MktPrice(b)
  /\ call' = MakerQuotes(t, b, mkt_price_, ticker_position_'[t])
  /\ account' = [account EXCEPT ![t].mark = IF BothSides(b) THEN Mid(b) ELSE @]
  /\ UNCHANGED <<algo_type, agg_trade_qty_ratio_, fills>>

\* onOrderBookUpdate(): the position keeper, the feature engine, the strategy.
OnOrderBookUpdate(t, b) ==
  /\ bbo' = [bbo EXCEPT ![t] = b]
  /\ ticker_position_' = [ticker_position_ EXCEPT ![t] = updateBBO(@, b)]
  /\ mkt_price_' = MktPrice(b)
  /\ call' = MakerQuotes(t, b, mkt_price_', ticker_position_'[t])
  /\ account' = [account EXCEPT ![t].mark = IF BothSides(b) THEN Mid(b) ELSE @]
  /\ UNCHANGED <<algo_type, agg_trade_qty_ratio_, fills>>

\* onTradeUpdate(): the feature engine, the strategy.
OnTradeUpdate(t, side, qty) ==
  /\ agg_trade_qty_ratio_' = AggTradeQtyRatio(bbo[t], side, qty)
  /\ call' = TakerQuotes(t, bbo[t], agg_trade_qty_ratio_', side, qty)
  /\ UNCHANGED <<algo_type, ticker_position_, bbo, mkt_price_, account, fills>>

Next ==
  \/ \E t \in Traded, side \in Sides, price \in FillPrices, qty \in Qtys :
       OnFill(t, side, price, qty)
  \/ OnOtherResponse
  \/ \E t \in Tickers, b \in Bbos : OnOrderBookUpdate(t, b)
  \/ \E t \in Tickers, side \in Sides, qty \in TradeQtys : OnTradeUpdate(t, side, qty)

Spec == Init /\ [][Next]_vars

-----------------------------------------------------------------------------
\* The division that gives the average price of the open position loses no remainder: the
\* integers stand for the code's doubles.
NoRemainder(p) ==
  \A s \in Sides :
    p.position_ * sideToValue(s) > 0 => p.open_vwap_[s] % Abs(p.position_) = 0

\* Nor does the one that gives the fair price of a book.
FairPricesExact ==
  \A b \in Bbos : BothSides(b) =>
    ((b.bid * b.ask_qty + b.ask * b.bid_qty) * Unit) % (b.bid_qty + b.ask_qty) = 0

\* The types, and that no division by the position lost a remainder.
TypeOK ==
  /\ \A t \in Tickers :
       LET p == ticker_position_[t]
       IN  /\ p.position_ \in -MaxPosition .. MaxPosition /\ p.volume_ \in Nat
           /\ p.real_pnl_ \in Int /\ p.unreal_pnl_ \in Int /\ p.total_pnl_ \in Int
           /\ \A s \in Sides : p.open_vwap_[s] \in Int
           /\ NoRemainder(p)
  /\ mkt_price_ \in Int \/ mkt_price_ = Feature_INVALID
  /\ agg_trade_qty_ratio_ \in Int \/ agg_trade_qty_ratio_ = Feature_INVALID
  /\ fills \in 0 .. MaxFills

\* The profit: what was received less what was paid, plus the open position at its mark,
\* however it was opened, reduced, closed and flipped.
ProfitIsCashPlusMark(t) ==
  ticker_position_[t].total_pnl_ =
    account[t].cash + ticker_position_[t].position_ * account[t].mark - account[t].leftover

\* The price an open position seems to have cost lies between the lowest and the highest
\* that were paid for it, so the profit that is booked as realized is none of it.
CostWithinPricesPaid(t) ==
  LET p == ticker_position_[t]
      cost == p.open_vwap_[IF p.position_ > 0 THEN "BUY" ELSE "SELL"]
  IN  account[t].clean /\ p.position_ # 0 =>
        /\ account[t].low * Abs(p.position_) <= cost
        /\ cost <= account[t].high * Abs(p.position_)

\* PositionInfo keeps the accounts of every instrument right over any sequence of fills and
\* book changes, but for the garbage that open_vwap_ starts with: whatever the first fill
\* added to is in the profit for good, and gone from the costs with the first position.
AccountsAreRight == \A t \in Tickers : ProfitIsCashPlusMark(t) /\ CostWithinPricesPaid(t)

\* What a strategy asks for follows from the present book of the instrument it trades in,
\* although all instruments share the features: the maker joins a side of the book where
\* that side holds enough of the spread and stays one behind it otherwise, the taker takes
\* the best price on the side of a trade that was large for what it met, and the loss that
\* is checked is the one at the present mark.
QuotesFollowTheBook ==
  call.method = "moveOrders" =>
    LET b == bbo[call.ticker]
        spread == (b.ask - b.bid) * Unit
        a == account[call.ticker]
        position == ticker_position_[call.ticker].position_
        Joins(qty) == spread * qty >= Threshold * (b.bid_qty + b.ask_qty)
    IN  /\ BothSides(b)
        /\ algo_type = "MAKER" =>
             /\ call.bid = IF Joins(b.bid_qty) THEN b.bid ELSE b.bid - 1
             /\ call.ask = IF Joins(b.ask_qty) THEN b.ask ELSE b.ask + 1
             /\ call.loss_too_large <=> a.cash + position * Mid(b) - a.leftover < MaxLoss
        /\ algo_type = "TAKER" =>
             /\ call.trade.side = "BUY" =>
                  /\ call.bid = b.ask /\ call.ask = Price_INVALID
                  /\ call.trade.qty * Unit >= Threshold * b.ask_qty
             /\ call.trade.side = "SELL" =>
                  /\ call.bid = Price_INVALID /\ call.ask = b.bid
                  /\ call.trade.qty * Unit >= Threshold * b.bid_qty
             /\ call.loss_too_large <=> a.cash + position * a.mark - a.leftover < MaxLoss
=============================================================================
