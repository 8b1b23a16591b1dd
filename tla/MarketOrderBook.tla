-------------------------- MODULE MarketOrderBook --------------------------
(***************************************************************************)
(* The trading client's copy of one instrument's book                      *)
(* (trading/strategy/market_order_book.{h,cpp}), rebuilt from market       *)
(* updates down to its pointers, with the best bid and offer the           *)
(* strategies look at.                                                     *)
(*                                                                         *)
(* resting is the reference: the orders that the updates so far leave on   *)
(* the book.  Market order ids grow, so the older order has the smaller    *)
(* id.  The exchange never sends a crossed book (Uncrossed of MEOrderBook). *)
(***************************************************************************)
EXTENDS BookLists, SequencesExt

CONSTANTS Prices, Qtys,
          ClearsMidway   \* may a snapshot arrive when the book is not empty?

ASSUME InputAssumption == Prices \subseteq Nat \ {0} /\ Qtys \subseteq Nat \ {0}

VARIABLES book,      \* the memory of the book: see BookLists
          bbo_,      \* [price, qty] of each side
          resting,   \* the reference: [side, price, qty] of each order by id
          next_id    \* the next market order id of the exchange

vars == <<book, bbo_, resting, next_id>>

Invalid == [price |-> 0, qty |-> 0]     \* Price_INVALID, Qty_INVALID

Init ==
  /\ book = EmptyBook
  /\ bbo_ = [s \in Sides |-> Invalid]
  /\ resting = << >>
  /\ next_id = 1

TotalQty(orders) == FoldSeq(LAMBDA r, sum : r.qty + sum, 0, orders)

-----------------------------------------------------------------------------
\* Defect: an order that joins the best price does not refresh the BBO.
TopTouchedStrict(side, s, price) ==
  /\ book.best[side] # Null /\ s = side
  /\ Behind(side, book.level[book.best[side]].price, price)

\* bid_updated and ask_updated: taken before the update is applied.
TopTouched(side, s, price) ==
  /\ book.best[side] # Null /\ s = side
  /\ ~Behind(side, price, book.level[book.best[side]].price)

\* The values updateBBO() gives to a side.
Top(b, side) ==
  IF b.best[side] = Null THEN Invalid
  ELSE LET orders == OrdersOf(b, b.best[side])
       IN  [price |-> b.level[b.best[side]].price,
            qty |-> TotalQty([k \in 1 .. Len(orders) |-> b.order[orders[k]]])]

updateBBO(s, price) ==
  bbo_' = [side \in Sides |-> IF TopTouched(side, s, price) THEN Top(book', side) ELSE bbo_[side]]

Crosses(s, price) ==
  \E i \in DOMAIN resting :
    resting[i].side # s /\ ~Behind(s, price, resting[i].price)

-----------------------------------------------------------------------------
(* onMarketUpdate(), by type of update.  A TRADE is handed to the trade      *)
(* engine and returns: it changes neither the book nor the BBO.            *)

\* ADD.  A pool whose last block is taken exits (MemPool), so it keeps one.
OnAdd(s, price, qty) ==
  /\ next_id \in OrderIds
  /\ ~Crosses(s, price)
  /\ Cardinality(book.free_order) > 1
  /\ getOrdersAtPrice(book, price) = Null => Cardinality(book.free_level) > 1
  /\ LET order == [id |-> next_id, side |-> s, price |-> price, qty |-> qty,
                   prev |-> Null, next |-> Null]
     IN  book' = addOrder(AllocateOrder(book, order), book.next_order)
  /\ updateBBO(s, price)
  /\ resting' = [i \in DOMAIN resting \cup {next_id} |->
                   IF i = next_id THEN [side |-> s, price |-> price, qty |-> qty]
                   ELSE resting[i]]
  /\ next_id' = next_id + 1

\* MODIFY: a partial fill.
OnModify(id, qty) ==
  /\ id \in DOMAIN resting
  /\ qty < resting[id].qty
  /\ book' = [book EXCEPT !.order[book.by_id[id]].qty = qty]
  /\ updateBBO(resting[id].side, resting[id].price)
  /\ resting' = [resting EXCEPT ![id].qty = qty]
  /\ UNCHANGED next_id

\* CANCEL.
OnCancel(id) ==
  /\ id \in DOMAIN resting
  /\ book' = removeOrder(book, book.by_id[id])
  /\ updateBBO(resting[id].side, resting[id].price)
  /\ resting' = Restrict(resting, DOMAIN resting \ {id})
  /\ UNCHANGED next_id

\* CLEAR: all blocks are given back and both lists emptied; the hash map from
\* prices to levels is left as it is.  Its side is INVALID, so no BBO changes.
OnClear ==
  /\ ClearsMidway \/ resting = << >>
  /\ LET used == UNION {ToSet(LevelsOf(book, s)) : s \in Sides}
         orders == {book.by_id[i] : i \in OrderIds} \ {Null}
     IN  book' = [book EXCEPT !.free_order = @ \cup orders, !.free_level = @ \cup used,
                              !.by_id = [i \in OrderIds |-> Null],
                              !.best = [s \in Sides |-> Null]]
  /\ resting' = << >>
  /\ UNCHANGED <<bbo_, next_id>>

Next ==
  \/ \E s \in Sides, price \in Prices, qty \in Qtys : OnAdd(s, price, qty)
  \/ \E id \in OrderIds, qty \in Qtys : OnModify(id, qty)
  \/ \E id \in OrderIds : OnCancel(id)
  \/ OnClear

Spec == Init /\ [][Next]_vars

-----------------------------------------------------------------------------
TypeOK ==
  /\ book.free_order \subseteq OrderBlocks /\ book.free_level \subseteq LevelBlocks
  /\ \A i \in Index : book.at[i] \in LevelBlocks \cup {Null}
  /\ \A s \in Sides : book.best[s] \in LevelBlocks \cup {Null}
  /\ \A i \in OrderIds : book.by_id[i] \in OrderBlocks \cup {Null}
  /\ book.next_order \in OrderBlocks /\ book.next_level \in LevelBlocks
  /\ next_id \in Nat

\* What a reader who walks the lists of a side sees.
Shown(side) ==
  LET levels == LevelsOf(book, side)
  IN  [k \in 1 .. Len(levels) |->
         [price |-> book.level[levels[k]].price,
          orders |-> LET orders == OrdersOf(book, levels[k])
                     IN  [j \in 1 .. Len(orders) |->
                            [id |-> book.order[orders[j]].id, qty |-> book.order[orders[j]].qty]]]]

\* The resting orders of a side, and those at one price.
OnSide(side) == {i \in DOMAIN resting : resting[i].side = side}
OnLevel(side, price) == {i \in OnSide(side) : resting[i].price = price}

\* The lists show the resting orders: the prices of each side, once each and from
\* the best on, and at each price its orders, once each and in arrival order, for
\* every sequence of insertions and removals.
\* "Clear the full limit order book" (market_order_book.cpp:46) leaves nothing.
ListsShowOrders ==
  \A side \in Sides :
    LET shown == Shown(side)
    IN  /\ \A j, k \in DOMAIN shown : j < k => Behind(side, shown[k].price, shown[j].price)
        /\ {shown[k].price : k \in DOMAIN shown} = {resting[i].price : i \in OnSide(side)}
        /\ \A k \in DOMAIN shown :
             LET orders == shown[k].orders
             IN  /\ \A i, j \in DOMAIN orders : i < j => orders[i].id < orders[j].id
                 /\ ToSet(orders) = {[id |-> i, qty |-> resting[i].qty] :
                                       i \in OnLevel(side, shown[k].price)}

\* Both directions of every list agree, and only blocks in use are linked.
ListsAreDoublyLinked ==
  \A side \in Sides :
    LET levels == ToSet(LevelsOf(book, side))
    IN  \A l \in levels :
          /\ l \notin book.free_level
          /\ book.level[book.level[l].next].prev = l
          /\ book.at[priceToIndex(book.level[l].price)] = l
          /\ \A o \in ToSet(OrdersOf(book, l)) :
               /\ o \notin book.free_order
               /\ book.order[book.order[o].next].prev = o
               /\ book.by_id[book.order[o].id] = o

\* Every block is linked or free: none leaks from the pools.
NoBlockLeaks ==
  /\ LevelBlocks \ book.free_level = UNION {ToSet(LevelsOf(book, s)) : s \in Sides}
  /\ OrderBlocks \ book.free_order = {book.by_id[i] : i \in OrderIds} \ {Null}

\* However orders come and go, every block of the two pools is in its place in the lists
\* and maps of the book, or free.
BlocksAreAccountedFor == ListsAreDoublyLinked /\ NoBlockLeaks

\* The BBO never shows a price or quantity that is not at the top of the book: it
\* is exact or, after the first order of an empty side, still unset.
BBOExactOrUnset == \A s \in Sides : bbo_[s] \in {Top(book, s), Invalid}
=============================================================================
