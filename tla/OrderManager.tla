---------------------------- MODULE OrderManager ----------------------------
(***************************************************************************)
(* The trading client's orders in one instrument: OrderManager,            *)
(* RiskManager and the position of PositionKeeper, as TradeEngine::run     *)
(* drives them from a strategy's quotes and the exchange's responses.      *)
(*                                                                         *)
(* Requests and responses travel in two queues, so the manager always      *)
(* works from an old picture: its orders fill, and its cancels cross with  *)
(* fills, while responses are under way.  The exchange side is what        *)
(* MEOrderBook promises: NEW is accepted, an open order may fill at any    *)
(* time, CANCEL finds the order open or is rejected.                       *)
(*                                                                         *)
(* Operators whose comment starts with "Defect:" are variants of the       *)
(* definition that follows them, which some property must exclude.         *)
(***************************************************************************)
EXTENDS Integers, Sequences, FiniteSets

CONSTANTS Prices,          \* prices strategies quote
          Clip,            \* TradeEngineCfg::clip_
          MaxOrderSize,    \* RiskCfg::max_order_size_
          MaxPosition,     \* RiskCfg::max_position_
          MaxOrders        \* bound on the orders sent

ASSUME QuoteAssumption == Prices \subseteq Nat \ {0} /\ Clip \in Nat \ {0}
ASSUME RiskAssumption == MaxOrderSize \in Nat /\ MaxPosition \in Nat
ASSUME BoundAssumption == MaxOrders \in Nat

VARIABLES
  algo_type,        \* the strategy of this client
  order,            \* ticker_side_order_: the OMOrder of each side
  next_order_id_,
  position_,        \* PositionInfo::position_
  requests,         \* from OrderManager to the exchange
  responses,        \* from the exchange to TradeEngine
  open,             \* at the exchange: what is left of each order
  traded            \* at the exchange: this client's position

manager == <<order, next_order_id_>>
exchange == <<open, traded>>
vars == <<algo_type, manager, position_, requests, responses, exchange>>

Sides == {"BUY", "SELL"}
Price_INVALID == 0
OrderIds == 1 .. MaxOrders
States == {"INVALID", "PENDING_NEW", "LIVE", "PENDING_CANCEL", "DEAD"}
OMOrder == [state : States, oid : 0 .. MaxOrders, price : Prices \cup {Price_INVALID},
            qty : 0 .. Clip]

sideToValue(side) == IF side = "BUY" THEN 1 ELSE -1
Abs(n) == IF n < 0 THEN -n ELSE n

\* CANCEL_REJECTED has Side::INVALID, which has an (unused) OMOrder of its own.
Init ==
  /\ algo_type \in {"MAKER", "TAKER"}
  /\ order = [s \in Sides \cup {"INVALID"} |->
                [state |-> "INVALID", oid |-> 0, price |-> Price_INVALID, qty |-> 0]]
  /\ next_order_id_ = 1 /\ position_ = 0
  /\ requests = << >> /\ responses = << >>
  /\ open = [i \in OrderIds |-> [side |-> "BUY", qty |-> 0]]
  /\ traded = 0

-----------------------------------------------------------------------------
(* The strategies' quotes, <<bid price, ask price>>. *)

\* MarketMaker::onOrderBookUpdate: both sides, outside the best bid and offer.
MakerQuotes == {q \in Prices \X Prices : q[1] < q[2]}

\* LiquidityTaker::onTradeUpdate: one side.
TakerQuotes == (Prices \X {Price_INVALID}) \cup ({Price_INVALID} \X Prices)

Quotes == IF algo_type = "MAKER" THEN MakerQuotes ELSE TakerQuotes

\* Defect: the order to be sent is left out of the position.
checkPreTradeRiskNow(side, qty, loss_too_large) ==
  /\ qty <= MaxOrderSize
  /\ Abs(position_) <= MaxPosition
  /\ ~loss_too_large

\* RiskInfo::checkPreTradeRisk = ALLOWED.  Whether the loss is too large depends on
\* prices that are not modelled.
checkPreTradeRisk(side, qty, loss_too_large) ==
  /\ qty <= MaxOrderSize
  /\ Abs(position_ + sideToValue(side) * qty) <= MaxPosition
  /\ ~loss_too_large

\* Defect: an order of twice the quantity is sent.
NewOrderTwice(side, price, qty, id) ==
  [order |-> [state |-> "PENDING_NEW", oid |-> id, price |-> price, qty |-> qty],
   send |-> <<[type |-> "NEW", side |-> side, oid |-> id, qty |-> 2 * qty]>>]

\* newOrder() and cancelOrder(): the OMOrder, and the request it sends.
NewOrder(side, price, qty, id) ==
  [order |-> [state |-> "PENDING_NEW", oid |-> id, price |-> price, qty |-> qty],
   send |-> <<[type |-> "NEW", side |-> side, oid |-> id, qty |-> qty]>>]

CancelOrder(side, o) ==
  [order |-> [o EXCEPT !.state = "PENDING_CANCEL"],
   send |-> <<[type |-> "CANCEL", side |-> side, oid |-> o.oid, qty |-> o.qty]>>]

\* Defect: an order that is being canceled is replaced at once.
moveOrderImpatient(side, price, id, loss_too_large) ==
  LET o == order[side]
  IN  IF o.state = "LIVE" /\ o.price # price THEN CancelOrder(side, o)
      ELSE IF /\ o.state \in {"INVALID", "DEAD", "PENDING_CANCEL"} /\ price # Price_INVALID
              /\ checkPreTradeRisk(side, Clip, loss_too_large)
           THEN NewOrder(side, price, Clip, id)
      ELSE [order |-> o, send |-> << >>]

\* moveOrder(): one step towards an order at this price.
moveOrder(side, price, id, loss_too_large) ==
  LET o == order[side]
  IN  IF o.state = "LIVE" /\ o.price # price THEN CancelOrder(side, o)
      ELSE IF /\ o.state \in {"INVALID", "DEAD"} /\ price # Price_INVALID
              /\ checkPreTradeRisk(side, Clip, loss_too_large)
           THEN NewOrder(side, price, Clip, id)
      ELSE [order |-> o, send |-> << >>]

News(send) == IF send # << >> /\ send[1].type = "NEW" THEN 1 ELSE 0

\* moveOrders(): first the bid, then the ask.
MoveOrders(bid_price, ask_price, loss_too_large) ==
  /\ next_order_id_ < MaxOrders
  /\ LET bid == moveOrder("BUY", bid_price, next_order_id_, loss_too_large)
         ask == moveOrder("SELL", ask_price, next_order_id_ + News(bid.send), loss_too_large)
     IN  /\ order' = [order EXCEPT !["BUY"] = bid.order, !["SELL"] = ask.order]
         /\ next_order_id_' = next_order_id_ + News(bid.send) + News(ask.send)
         /\ requests' = requests \o bid.send \o ask.send
  /\ UNCHANGED <<algo_type, position_, responses, exchange>>

-----------------------------------------------------------------------------
(* The exchange. *)

\* An order that is accepted is open; whatever it trades at once, it trades next.
AcceptNew ==
  /\ requests # << >> /\ Head(requests).type = "NEW"
  /\ LET r == Head(requests)
     IN  /\ open' = [open EXCEPT ![r.oid] = [side |-> r.side, qty |-> r.qty]]
         /\ responses' = Append(responses, [type |-> "ACCEPTED", side |-> r.side, oid |-> r.oid,
                                            exec |-> 0, leaves |-> r.qty])
  /\ requests' = Tail(requests)
  /\ UNCHANGED <<algo_type, manager, position_, traded>>

HandleCancel ==
  /\ requests # << >> /\ Head(requests).type = "CANCEL"
  /\ LET r == Head(requests)
     IN  \/ /\ open[r.oid].qty # 0
            /\ open' = [open EXCEPT ![r.oid].qty = 0]
            /\ responses' = Append(responses, [type |-> "CANCELED", side |-> r.side, oid |-> r.oid,
                                               exec |-> 0, leaves |-> open[r.oid].qty])
         \/ /\ open[r.oid].qty = 0
            /\ responses' = Append(responses, [type |-> "CANCEL_REJECTED", side |-> "INVALID",
                                               oid |-> r.oid, exec |-> 0, leaves |-> 0])
            /\ UNCHANGED open
  /\ requests' = Tail(requests)
  /\ UNCHANGED <<algo_type, manager, position_, traded>>

Fill(i, qty) ==
  /\ qty \in 1 .. open[i].qty
  /\ open' = [open EXCEPT ![i].qty = @ - qty]
  /\ traded' = traded + sideToValue(open[i].side) * qty
  /\ responses' = Append(responses, [type |-> "FILLED", side |-> open[i].side, oid |-> i,
                                     exec |-> qty, leaves |-> open[i].qty - qty])
  /\ UNCHANGED <<algo_type, manager, position_, requests>>

-----------------------------------------------------------------------------
(* TradeEngine::onOrderUpdate: the position first, then the order. *)

\* position_ of addFill().
addFill(r) == IF r.type = "FILLED" THEN position_ + r.exec * sideToValue(r.side) ELSE position_

\* Defect: a fill leaves the quantity of the OMOrder alone.
onOrderUpdateKeepsQty(o, r) ==
  CASE r.type = "ACCEPTED" -> [o EXCEPT !.state = "LIVE"]
    [] r.type = "CANCELED" -> [o EXCEPT !.state = "DEAD"]
    [] r.type = "FILLED" -> [o EXCEPT !.state = IF r.leaves = 0 THEN "DEAD" ELSE @]
    [] r.type = "CANCEL_REJECTED" -> o

\* Defect: an order that is filled while it is being canceled stays as it is.
onOrderUpdateUnlessCanceling(o, r) ==
  CASE r.type = "ACCEPTED" -> [o EXCEPT !.state = "LIVE"]
    [] r.type = "CANCELED" -> [o EXCEPT !.state = "DEAD"]
    [] r.type = "FILLED" ->
         [o EXCEPT !.qty = r.leaves,
                   !.state = IF r.leaves = 0 /\ @ # "PENDING_CANCEL" THEN "DEAD" ELSE @]
    [] r.type = "CANCEL_REJECTED" -> o

onOrderUpdate(o, r) ==
  CASE r.type = "ACCEPTED" -> [o EXCEPT !.state = "LIVE"]
    [] r.type = "CANCELED" -> [o EXCEPT !.state = "DEAD"]
    [] r.type = "FILLED" -> [o EXCEPT !.qty = r.leaves,
                                      !.state = IF r.leaves = 0 THEN "DEAD" ELSE @]
    [] r.type = "CANCEL_REJECTED" -> o

HandleResponse ==
  /\ responses # << >>
  /\ LET r == Head(responses)
     IN  /\ position_' = addFill(r)
         /\ order' = [order EXCEPT ![r.side] = onOrderUpdate(@, r)]
  /\ responses' = Tail(responses)
  /\ UNCHANGED <<algo_type, next_order_id_, requests, exchange>>

Next ==
  \/ \E q \in Quotes, loss_too_large \in BOOLEAN : MoveOrders(q[1], q[2], loss_too_large)
  \/ AcceptNew \/ HandleCancel
  \/ \E i \in OrderIds, qty \in 1 .. Clip : Fill(i, qty)
  \/ HandleResponse

Spec == Init /\ [][Next]_vars

\* The exchange's and the client's threads poll their queues in endless loops.
FairSpec ==
  Spec /\ WF_vars(AcceptNew \/ HandleCancel) /\ WF_vars(HandleResponse)

-----------------------------------------------------------------------------
TypeOK ==
  /\ order \in [Sides \cup {"INVALID"} -> OMOrder]
  /\ next_order_id_ \in 1 .. (MaxOrders + 1)
  /\ position_ \in Int /\ traded \in Int
  /\ open \in [OrderIds -> [side : Sides, qty : 0 .. Clip]]

\* The orders of a side that can trade, now or when a request arrives.
Exposed(side) ==
  {i \in OrderIds : open[i].qty # 0 /\ open[i].side = side} \cup
  {requests[k].oid : k \in {j \in 1 .. Len(requests) :
                              requests[j].type = "NEW" /\ requests[j].side = side}}

\* There is at most one order per side in the market, however cancels, fills and
\* new orders cross on their way, and the manager's OMOrder is about that order.
OneOrderPerSide ==
  \A side \in Sides : \A i \in Exposed(side) :
    order[side].oid = i /\ order[side].state \in {"PENDING_NEW", "LIVE", "PENDING_CANCEL"}

\* The pre-trade check keeps the position within its limit at the exchange, although
\* it only looks at one order and at a position that fills under way have changed.
PositionWithinLimit == Abs(traded) <= MaxPosition /\ Abs(position_) <= MaxPosition

\* Once all messages have arrived, the manager is right about what is open.
QuietManagerIsRight ==
  requests = << >> /\ responses = << >> =>
    /\ position_ = traded
    /\ \A side \in Sides :
         /\ order[side].state = "LIVE" => open[order[side].oid].qty = order[side].qty
         /\ order[side].state # "LIVE" => Exposed(side) = {}

\* No order stays pending: a crossing fill and cancel always leave it live or dead.
PendingResolves ==
  \A side \in Sides :
    order[side].state \in {"PENDING_NEW", "PENDING_CANCEL"}
      ~> order[side].state \in {"LIVE", "DEAD"}
=============================================================================
