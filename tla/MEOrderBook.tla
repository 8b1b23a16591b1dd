---------------------------- MODULE MEOrderBook ----------------------------
(***************************************************************************)
(* The limit order book of one instrument (exchange/matcher/               *)
(* me_order_book.{h,cpp}) as the matching engine's thread drives it        *)
(* (matching_engine.h), with the two things that depend on what it sends:  *)
(*                                                                         *)
(*   ledger  what each client knows of each of its orders from the client  *)
(*           responses it was sent;                                        *)
(*   feed    the resting orders as a subscriber of the incremental stream  *)
(*           sees them; SnapshotSynthesizer::addToSnapshot keeps exactly   *)
(*           this.                                                         *)
(*                                                                         *)
(* Operators whose comment starts with "Defect:" are variants of the       *)
(* definition that follows them, which some property must exclude.         *)
(*                                                                         *)
(* The engine handles one request at a time.  cancel() is one step.  add() *)
(* is a loop and is run as the steps NewOrder, Match ..., and Rest or      *)
(* FullyMatched; agg holds its locals, and no request is taken while it is *)
(* under way.  Every step sends the messages its part of the code sends.   *)
(*                                                                         *)
(* A circular list is the sequence of its entries from its head: the price *)
(* levels of a side from the best price, the orders of a level from the    *)
(* oldest.  Module BookLists is about the pointers.                        *)
(***************************************************************************)
EXTENDS Integers, Sequences, FiniteSets, SequencesExt

CONSTANTS Clients,
          Prices,      \* limit prices clients use
          Qtys,        \* quantities clients use
          Levels,      \* ME_MAX_PRICE_LEVELS, the size of price_orders_at_price_
          MaxOrders,   \* bound on the orders sent
          MaxRejects   \* bound on the orders whose cancel is rejected

ASSUME InputAssumption == Prices \subseteq Nat /\ Qtys \subseteq Nat
ASSUME LevelsAssumption == Levels \in Nat \ {0}
ASSUME BoundAssumption == MaxOrders \in Nat /\ MaxRejects \in Nat

VARIABLES
  order_pool,              \* the MEOrders in use, by market order id
  cid_oid_to_order_,       \* client and client order id -> market order id, or 0
  price_orders_at_price_,  \* the MEOrdersAtPrice in use, by index
  by_price,                \* bids_by_price_ and asks_by_price_
  next_market_order_id_,
  agg,                     \* the order add() is working on
  next_order_id,           \* the next order id each client will use
  ledger,
  feed

book == <<order_pool, cid_oid_to_order_, price_orders_at_price_, by_price>>
vars == <<book, next_market_order_id_, agg, next_order_id, ledger, feed>>

Sides == {"BUY", "SELL"}
Opposite(side) == IF side = "BUY" THEN "SELL" ELSE "BUY"
MarketOrderIds == 1 .. MaxOrders
OrderIds == 1 .. MaxOrders

\* Order quantities never exceed what clients ask for.
Quantity == Nat

Order == [client : Clients, oid : OrderIds, side : Sides, price : Prices,
          qty : Quantity, priority : Nat]
Level == [side : Sides, price : Prices, fifo : Seq(MarketOrderIds)]
LedgerEntry == [sent : Quantity, open : Quantity, filled : Quantity,
                canceled : Quantity, rejected : BOOLEAN]

Idle == [moid |-> 0]
Busy == agg.moid # 0

Init ==
  /\ order_pool = << >>
  /\ cid_oid_to_order_ = [co \in Clients \X OrderIds |-> 0]
  /\ price_orders_at_price_ = << >>
  /\ by_price = [side \in Sides |-> << >>]
  /\ next_market_order_id_ = 1
  /\ agg = Idle
  /\ next_order_id = [c \in Clients |-> 1]
  /\ ledger = [co \in Clients \X OrderIds |->
                 [sent |-> 0, open |-> 0, filled |-> 0, canceled |-> 0, rejected |-> FALSE]]
  /\ feed = << >>

-----------------------------------------------------------------------------
(* Helpers of the book. *)

priceToIndex(price) == price % Levels

\* Is p in front of q among the levels of a side?
MoreAggressive(side, p, q) == IF side = "BUY" THEN p > q ELSE p < q

\* Defect: an order at the limit price is out of reach.
OutOfReachAtLimit(side, price, q) == IF side = "BUY" THEN price <= q ELSE price >= q

\* The test of checkForMatch(): an order of this side and price goes no further
\* when the best order opposite has price q.
OutOfReach(side, price, q) == IF side = "BUY" THEN price < q ELSE price > q

\* Defect: the newest order of the best level is met first.
FirstOppositeNewest(side) ==
  Last(price_orders_at_price_[Head(by_price[Opposite(side)])].fifo)

\* first_me_order_ of the best level opposite: whom the aggressor meets next.
FirstOpposite(side) ==
  Head(price_orders_at_price_[Head(by_price[Opposite(side)])].fifo)

CanMatch ==
  /\ agg.leaves # 0
  /\ by_price[Opposite(agg.side)] # << >>
  /\ ~OutOfReach(agg.side, agg.price, order_pool[FirstOpposite(agg.side)].price)

\* Defect: the whole of the aggressor is filled, whatever the passive order has.
fillQtyUnbounded(leaves, qty) == leaves

\* std::min(*leaves_qty, order_qty)
fillQty(leaves, qty) == IF leaves < qty THEN leaves ELSE qty

\* 1 for a new level, else one more than the last order's.
getNextPriority(price) ==
  LET i == priceToIndex(price)
  IN  IF i \notin DOMAIN price_orders_at_price_ THEN 1
      ELSE order_pool[Last(price_orders_at_price_[i].fifo)].priority + 1

Without(f, x) == [y \in DOMAIN f \ {x} |-> f[y]]
With(f, x, v) == [y \in DOMAIN f \cup {x} |-> IF y = x THEN v ELSE f[y]]

-----------------------------------------------------------------------------
(* The lists: each operator gives the new value of the variables it names. *)

\* Defect: a new level goes behind the worst one.
addOrdersAtPriceLast(side, price) ==
  by_price' = [by_price EXCEPT ![side] = Append(@, priceToIndex(price))]

\* addOrdersAtPrice(): in front of the first level that is not more aggressive.
addOrdersAtPrice(side, price) ==
  LET i == priceToIndex(price)
      PriceOf(k) == price_orders_at_price_[by_price[side][k]].price
  IN  \E k \in 1 .. (Len(by_price[side]) + 1) :
        /\ \A j \in 1 .. (k - 1) : MoreAggressive(side, PriceOf(j), price)
        /\ \A j \in k .. Len(by_price[side]) : ~MoreAggressive(side, PriceOf(j), price)
        /\ by_price' = [by_price EXCEPT ![side] = InsertAt(@, k, i)]

\* Defect: the level leaves the list but not the hash map.
removeOrdersAtPriceKeepsSlot(side, price) ==
  /\ \E k \in 1 .. Len(by_price[side]) :
       /\ by_price[side][k] = priceToIndex(price)
       /\ by_price' = [by_price EXCEPT ![side] = RemoveAt(@, k)]
  /\ UNCHANGED price_orders_at_price_

\* removeOrdersAtPrice().
removeOrdersAtPrice(side, price) ==
  LET i == priceToIndex(price)
  IN  /\ \E k \in 1 .. Len(by_price[side]) :
           /\ by_price[side][k] = i
           /\ by_price' = [by_price EXCEPT ![side] = RemoveAt(@, k)]
      /\ price_orders_at_price_' = Without(price_orders_at_price_, i)

\* Defect: a new order goes to the front of its level.
enqueueFront(fifo, m) == <<m>> \o fifo

\* The order becomes first_order->prev_order_, the end of the circular list.
enqueue(fifo, m) == Append(fifo, m)

\* addOrder(): at the end of the FIFO queue of its level.
addOrder(m, order) ==
  LET i == priceToIndex(order.price)
  IN  /\ order_pool' = With(order_pool, m, order)
      /\ cid_oid_to_order_' = [cid_oid_to_order_ EXCEPT ![<<order.client, order.oid>>] = m]
      /\ \/ /\ i \in DOMAIN price_orders_at_price_
            /\ price_orders_at_price_' =
                 [price_orders_at_price_ EXCEPT ![i].fifo = enqueue(@, m)]
            /\ UNCHANGED by_price
         \/ /\ i \notin DOMAIN price_orders_at_price_
            /\ price_orders_at_price_' =
                 With(price_orders_at_price_, i,
                      [side |-> order.side, price |-> order.price, fifo |-> <<m>>])
            /\ addOrdersAtPrice(order.side, order.price)

\* The lists' part of removeOrder(): the last order of a level takes the level
\* with it.
unlinkOrder(m) ==
  LET i == priceToIndex(order_pool[m].price)
      fifo == price_orders_at_price_[i].fifo
  IN  \/ /\ Len(fifo) = 1
         /\ removeOrdersAtPrice(order_pool[m].side, order_pool[m].price)
      \/ /\ Len(fifo) # 1
         /\ \E k \in 1 .. Len(fifo) :
              /\ fifo[k] = m
              /\ price_orders_at_price_' =
                   [price_orders_at_price_ EXCEPT ![i].fifo = RemoveAt(@, k)]
         /\ UNCHANGED by_price

\* Defect: the client's id keeps pointing at the freed order.
removeOrderKeepsId(m) ==
  /\ unlinkOrder(m)
  /\ order_pool' = Without(order_pool, m)
  /\ UNCHANGED cid_oid_to_order_

\* removeOrder().
removeOrder(m) ==
  /\ unlinkOrder(m)
  /\ cid_oid_to_order_' =
       [cid_oid_to_order_ EXCEPT ![<<order_pool[m].client, order_pool[m].oid>>] = 0]
  /\ order_pool' = Without(order_pool, m)

-----------------------------------------------------------------------------
(* The messages, as what they do to who receives them. *)

Accepted(l, c, oid, qty) ==
  [l EXCEPT ![<<c, oid>>].sent = qty, ![<<c, oid>>].open = qty]

\* Defect: the client is not told what is left.
FilledKeepsOpen(l, c, oid, exec_qty, leaves_qty) ==
  [l EXCEPT ![<<c, oid>>].filled = @ + exec_qty]

\* Defect: the client only knows of its last fill.
FilledForgets(l, c, oid, exec_qty, leaves_qty) ==
  [l EXCEPT ![<<c, oid>>].filled = exec_qty, ![<<c, oid>>].open = leaves_qty]

Filled(l, c, oid, exec_qty, leaves_qty) ==
  [l EXCEPT ![<<c, oid>>].filled = @ + exec_qty, ![<<c, oid>>].open = leaves_qty]

Canceled(l, c, oid, leaves_qty) ==
  [l EXCEPT ![<<c, oid>>].open = 0, ![<<c, oid>>].canceled = leaves_qty]

CancelRejected(l, c, oid) == [l EXCEPT ![<<c, oid>>].rejected = TRUE]

\* SnapshotSynthesizer::addToSnapshot for ADD, MODIFY and CANCEL.  A TRADE
\* changes no order.
UpdateAdd(f, m, order) ==
  With(f, m, [side |-> order.side, price |-> order.price, qty |-> order.qty])

\* Defect: a partial fill leaves the subscriber's quantity alone.
UpdateModifyKeepsQty(f, m, price, qty) == [f EXCEPT ![m].price = price]

UpdateModify(f, m, price, qty) == [f EXCEPT ![m].qty = qty, ![m].price = price]

UpdateCancel(f, m) == Without(f, m)

-----------------------------------------------------------------------------
(* Requests. *)

\* add(), up to checkForMatch(): a market order id, and ACCEPTED.
NewOrder(c, side, price, qty) ==
  /\ ~Busy
  /\ next_market_order_id_ <= MaxOrders
  /\ agg' = [moid |-> next_market_order_id_, client |-> c, oid |-> next_order_id[c],
             side |-> side, price |-> price, leaves |-> qty]
  /\ next_market_order_id_' = next_market_order_id_ + 1
  /\ next_order_id' = [next_order_id EXCEPT ![c] = @ + 1]
  /\ ledger' = Accepted(ledger, c, next_order_id[c], qty)
  /\ UNCHANGED <<book, feed>>

\* One iteration of checkForMatch() and match().
Match ==
  /\ Busy /\ CanMatch
  /\ LET m == FirstOpposite(agg.side)
         order == order_pool[m]
         fill_qty == fillQty(agg.leaves, order.qty)
         leaves == agg.leaves - fill_qty
         rest == order.qty - fill_qty
     IN  /\ agg' = [agg EXCEPT !.leaves = leaves]
         /\ ledger' = Filled(Filled(ledger, agg.client, agg.oid, fill_qty, leaves),
                             order.client, order.oid, fill_qty, rest)
         /\ \/ /\ rest = 0
               /\ feed' = UpdateCancel(feed, m)
               /\ removeOrder(m)
            \/ /\ rest # 0
               /\ feed' = UpdateModify(feed, m, order.price, rest)
               /\ order_pool' = [order_pool EXCEPT ![m].qty = rest]
               /\ UNCHANGED <<cid_oid_to_order_, price_orders_at_price_, by_price>>
  /\ UNCHANGED <<next_market_order_id_, next_order_id>>

\* Defect: an order with nothing left rests on the book as well.
RestAlways ==
  /\ Busy /\ ~CanMatch
  /\ LET order == [client |-> agg.client, oid |-> agg.oid, side |-> agg.side,
                   price |-> agg.price, qty |-> agg.leaves,
                   priority |-> getNextPriority(agg.price)]
     IN  addOrder(agg.moid, order) /\ feed' = UpdateAdd(feed, agg.moid, order)
  /\ agg' = Idle
  /\ UNCHANGED <<next_market_order_id_, next_order_id, ledger>>

\* The rest of add() for an order with quantity left: it rests on the book.
Rest ==
  /\ Busy /\ ~CanMatch /\ agg.leaves # 0
  /\ LET order == [client |-> agg.client, oid |-> agg.oid, side |-> agg.side,
                   price |-> agg.price, qty |-> agg.leaves,
                   priority |-> getNextPriority(agg.price)]
     IN  addOrder(agg.moid, order) /\ feed' = UpdateAdd(feed, agg.moid, order)
  /\ agg' = Idle
  /\ UNCHANGED <<next_market_order_id_, next_order_id, ledger>>

\* The rest of add() for an order with none.
FullyMatched ==
  /\ Busy /\ agg.leaves = 0
  /\ agg' = Idle
  /\ UNCHANGED <<book, next_market_order_id_, next_order_id, ledger, feed>>

\* The bound MaxRejects; cancels of the same order may be repeated.
MayReject(c, oid) ==
  \/ ledger[<<c, oid>>].rejected
  \/ Cardinality({co \in DOMAIN ledger : ledger[co].rejected}) < MaxRejects

\* Defect: an order that has traded can not be canceled.
CancelOrderUntraded(c, oid) ==
  /\ ~Busy
  /\ oid < next_order_id[c]
  /\ LET m == cid_oid_to_order_[<<c, oid>>]
     IN  \/ /\ m = 0 \/ ledger[<<c, oid>>].filled # 0
            /\ MayReject(c, oid)
            /\ ledger' = CancelRejected(ledger, c, oid)
            /\ UNCHANGED <<book, feed>>
         \/ /\ m # 0 /\ ledger[<<c, oid>>].filled = 0
            /\ removeOrder(m)
            /\ feed' = UpdateCancel(feed, m)
            /\ ledger' = Canceled(ledger, c, oid, order_pool[m].qty)
  /\ UNCHANGED <<next_market_order_id_, agg, next_order_id>>

\* cancel(): of an order the client has sent.
CancelOrder(c, oid) ==
  /\ ~Busy
  /\ oid < next_order_id[c]
  /\ LET m == cid_oid_to_order_[<<c, oid>>]
     IN  \/ /\ m = 0 /\ MayReject(c, oid)
            /\ ledger' = CancelRejected(ledger, c, oid)
            /\ UNCHANGED <<book, feed>>
         \/ /\ m # 0
            /\ removeOrder(m)
            /\ feed' = UpdateCancel(feed, m)
            /\ ledger' = Canceled(ledger, c, oid, order_pool[m].qty)
  /\ UNCHANGED <<next_market_order_id_, agg, next_order_id>>

\* processClientRequest(), with what is left of the request it is working on.
Engine == Match \/ Rest \/ FullyMatched

Next ==
  \/ \E c \in Clients, side \in Sides, price \in Prices, qty \in Qtys :
       NewOrder(c, side, price, qty)
  \/ \E c \in Clients, oid \in OrderIds : CancelOrder(c, oid)
  \/ Engine

Spec == Init /\ [][Next]_vars

-----------------------------------------------------------------------------
TypeOK ==
  /\ DOMAIN order_pool \subseteq MarketOrderIds
  /\ \A m \in DOMAIN order_pool : order_pool[m] \in Order
  /\ cid_oid_to_order_ \in [Clients \X OrderIds -> 0 .. MaxOrders]
  /\ DOMAIN price_orders_at_price_ \subseteq 0 .. (Levels - 1)
  /\ \A i \in DOMAIN price_orders_at_price_ : price_orders_at_price_[i] \in Level
  /\ by_price \in [Sides -> Seq(0 .. (Levels - 1))]
  /\ next_market_order_id_ \in 1 .. (MaxOrders + 1)
  /\ agg \in {Idle} \cup [moid : MarketOrderIds, client : Clients, oid : OrderIds,
                          side : Sides, price : Prices, leaves : Quantity]
  /\ next_order_id \in [Clients -> 1 .. (MaxOrders + 1)]
  /\ ledger \in [Clients \X OrderIds -> LedgerEntry]
  /\ DOMAIN feed \subseteq MarketOrderIds
  /\ \A m \in DOMAIN feed : feed[m] \in [side : Sides, price : Prices, qty : Quantity]

\* The pool, the hash map and the levels hold the same orders: an order is in the
\* queue of the level that its price hashes to, which has its side and price; a
\* level's queue holds orders of the pool only and is never empty.
LevelsHoldOrders ==
  /\ \A m \in DOMAIN order_pool :
       LET i == priceToIndex(order_pool[m].price)
       IN  /\ i \in DOMAIN price_orders_at_price_
           /\ \E k \in 1 .. Len(price_orders_at_price_[i].fifo) :
                price_orders_at_price_[i].fifo[k] = m
  /\ \A i \in DOMAIN price_orders_at_price_ :
       LET level == price_orders_at_price_[i]
       IN  /\ priceToIndex(level.price) = i
           /\ level.fifo # << >>
           /\ \A k \in 1 .. Len(level.fifo) :
                /\ level.fifo[k] \in DOMAIN order_pool
                /\ order_pool[level.fifo[k]].side = level.side
                /\ order_pool[level.fifo[k]].price = level.price

\* The lists of a side hold exactly the levels of the side, from the best price
\* on: what toString() checks with its FATAL "Bids/Asks not sorted".
SidesHoldLevels ==
  /\ \A i \in DOMAIN price_orders_at_price_ :
       \E k \in 1 .. Len(by_price[price_orders_at_price_[i].side]) :
          by_price[price_orders_at_price_[i].side][k] = i
  /\ \A side \in Sides : \A k \in 1 .. Len(by_price[side]) :
       /\ by_price[side][k] \in DOMAIN price_orders_at_price_
       /\ price_orders_at_price_[by_price[side][k]].side = side
  /\ \A side \in Sides : \A j, k \in 1 .. Len(by_price[side]) :
       j < k => MoreAggressive(side, price_orders_at_price_[by_price[side][j]].price,
                                     price_orders_at_price_[by_price[side][k]].price)

\* A level serves its orders in the order in which they came, which is that of
\* their market order ids, whatever was filled or canceled in between.  A
\* snapshot, published by market order id, rebuilds the same queues; so does a
\* sort by the published priorities, although getNextPriority() reuses those of
\* canceled orders.
OldestFirst ==
  \A i \in DOMAIN price_orders_at_price_ :
    LET fifo == price_orders_at_price_[i].fifo
    IN  \A j, k \in 1 .. Len(fifo) : j < k =>
          /\ fifo[j] < fifo[k]
          /\ order_pool[fifo[j]].priority < order_pool[fifo[k]].priority

\* An order is found by its client and client order id exactly while it rests.
ClientIdsFindOrders ==
  /\ \A co \in Clients \X OrderIds : cid_oid_to_order_[co] # 0 =>
       /\ cid_oid_to_order_[co] \in DOMAIN order_pool
       /\ order_pool[cid_oid_to_order_[co]].client = co[1]
       /\ order_pool[cid_oid_to_order_[co]].oid = co[2]
  /\ \A m \in DOMAIN order_pool :
       cid_oid_to_order_[<<order_pool[m].client, order_pool[m].oid>>] = m

\* No resting buy order reaches a resting sell order, not even while add() is
\* matching.  This is also why bids and asks can share price_orders_at_price_.
Uncrossed ==
  \A m, n \in DOMAIN order_pool :
    order_pool[m].side = "BUY" /\ order_pool[n].side = "SELL" =>
      order_pool[m].price < order_pool[n].price

\* Every resting order has quantity left, orders of quantity zero included, so every
\* iteration of the matching loop uses up some of the aggressor, and add() returns.
NoEmptyOrder == \A m \in DOMAIN order_pool : order_pool[m].qty > 0

\* The containers that add(), match() and cancel() keep in step agree after every
\* iteration of the matching loop, and hold only orders that can still trade.
BookIsConsistent ==
  LevelsHoldOrders /\ SidesHoldLevels /\ ClientIdsFindOrders /\ NoEmptyOrder

\* The incremental stream carries the book: after every message the resting
\* orders a subscriber knows are the book's, so the ASSERTs of addToSnapshot
\* (the order of an ADD is unknown, that of a MODIFY or CANCEL known) hold.
FeedMirrorsBook ==
  feed = [m \in DOMAIN order_pool |->
            [side |-> order_pool[m].side, price |-> order_pool[m].price,
             qty |-> order_pool[m].qty]]

\* What a client is told is open is what can still trade.
LedgerMirrorsBook ==
  \A co \in Clients \X OrderIds :
    ledger[co].open = IF Busy /\ co = <<agg.client, agg.oid>> THEN agg.leaves
                      ELSE IF cid_oid_to_order_[co] # 0
                           THEN order_pool[cid_oid_to_order_[co]].qty
                      ELSE 0

\* The client responses for an order account for every unit that was sent.
QuantityConserved ==
  \A co \in Clients \X OrderIds :
    ledger[co].sent = ledger[co].open + ledger[co].filled + ledger[co].canceled

\* CANCEL_REJECTED is final: nothing of the order can trade any more.
RejectedIsGone ==
  \A co \in Clients \X OrderIds : ledger[co].rejected => ledger[co].open = 0

\* The responses tell each client the truth about its orders, over any sequence of fills,
\* cancels and cancels that come too late, and in the midst of a match.
ResponsesAddUp == LedgerMirrorsBook /\ QuantityConserved /\ RejectedIsGone

\* The order n would have to trade before the order m.
Before(n, m) ==
  \/ MoreAggressive(order_pool[m].side, order_pool[n].price, order_pool[m].price)
  \/ order_pool[n].price = order_pool[m].price /\ n < m

Traded(m) ==
  Busy /\ (m \notin DOMAIN order_pool' \/ order_pool'[m].qty < order_pool[m].qty)

\* match() fills only the order that is first by price and then by time, and only
\* at a price within the aggressor's limit.
PriceTimePriority ==
  [][\A m \in DOMAIN order_pool : Traded(m) =>
       /\ order_pool[m].side = Opposite(agg.side)
       /\ ~OutOfReach(agg.side, agg.price, order_pool[m].price)
       /\ \A n \in DOMAIN order_pool :
            order_pool[n].side = order_pool[m].side => ~Before(n, m)]_vars
=============================================================================
