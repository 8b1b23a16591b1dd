----------------------------- MODULE BookLists -----------------------------
(***************************************************************************)
(* The pointer structures of an order book, as operators on the memory     *)
(* they live in.  exchange/matcher/me_order_book.h and                     *)
(* trading/strategy/market_order_book.h hold the same code.                *)
(*                                                                         *)
(* A book b is a record of                                                 *)
(*   order, level          the blocks of the two memory pools              *)
(*   free_order, free_level  the blocks whose is_free_ is set              *)
(*   next_order, next_level  next_free_index_ of the two pools             *)
(*   at                    price_orders_at_price_                          *)
(*   best                  bids_by_price_ and asks_by_price_               *)
(*   by_id                 the hash map from an order's id to its block    *)
(* Operators whose comment starts with "Defect:" are variants of the       *)
(* definition that follows them, which some property must exclude.         *)
(* Each operator makes the assignments of its function in their order, so  *)
(* that two pointers to one block behave as they do in memory.             *)
(***************************************************************************)
EXTENDS Integers, Sequences, FiniteSetsExt

CONSTANTS OrderPoolSize, LevelPoolSize,
          OrderIds,
          Levels,                     \* ME_MAX_PRICE_LEVELS
          Null                        \* nullptr

ASSUME PoolsAssumption == OrderPoolSize \in Nat \ {0} /\ LevelPoolSize \in Nat \ {0}
ASSUME KeysAssumption  == OrderIds \subseteq Nat /\ Levels \in Nat \ {0}
ASSUME NullAssumption  == Null \notin Int

Sides == {"BUY", "SELL"}
Index == 0 .. (Levels - 1)
OrderBlocks == 0 .. (OrderPoolSize - 1)
LevelBlocks == 0 .. (LevelPoolSize - 1)

BlankOrder == [id |-> 0, side |-> "BUY", price |-> 0, qty |-> 0, prev |-> Null, next |-> Null]
BlankLevel == [side |-> "BUY", price |-> 0, first |-> Null, prev |-> Null, next |-> Null]

EmptyBook ==
  [order |-> [o \in OrderBlocks |-> BlankOrder], level |-> [l \in LevelBlocks |-> BlankLevel],
   free_order |-> OrderBlocks, free_level |-> LevelBlocks,
   next_order |-> 0, next_level |-> 0,
   at |-> [i \in Index |-> Null], best |-> [s \in Sides |-> Null],
   by_id |-> [i \in OrderIds |-> Null]]

\* Defect: the index is not wrapped.
NextFreeNoWrap(free, i, size) == i + 1

\* updateNextFreeIndex() of MemPool: the first free block after i.
NextFree(free, i, size) ==
  LET Block(d) == IF i + d < size THEN i + d ELSE i + d - size
  IN  Block(CHOOSE d \in 1 .. (size - 1) :
              Block(d) \in free /\ \A e \in 1 .. (d - 1) : Block(e) \notin free)

\* allocate() of either pool, with the new object's fields; the callers see to
\* it that the block is not the last free one, which ends the process.
AllocateOrder(b, fields) ==
  LET o == b.next_order
  IN  [b EXCEPT !.order[o] = fields, !.free_order = @ \ {o},
                !.next_order = NextFree(b.free_order \ {o}, o, OrderPoolSize)]

AllocateLevel(b, fields) ==
  LET l == b.next_level
  IN  [b EXCEPT !.level[l] = fields, !.free_level = @ \ {l},
                !.next_level = NextFree(b.free_level \ {l}, l, LevelPoolSize)]

priceToIndex(price) == price % Levels
getOrdersAtPrice(b, price) == b.at[priceToIndex(price)]

\* The comparison that keeps addOrdersAtPrice() going: does price p of this side
\* come after price q?
Behind(side, p, q) == IF side = "SELL" THEN p > q ELSE p < q

\* The blocks that next leads to from head, one step after the other.
Following(node, a) == IF a = Null THEN Null ELSE node[a].next
Chain(node, head, limit) ==
  LET at[k \in 0 .. limit] == IF k = 0 THEN head ELSE Following(node, at[k - 1])
  IN  at

\* Where the while loop of addOrdersAtPrice() stops, for a price behind the best
\* one: at the first level that the price is not behind, or at the best one again.
FindTarget(level, best, side, price) ==
  LET chain == Chain(level, best, LevelPoolSize)
      Stops(k) == chain[k] = best \/ ~Behind(side, price, level[chain[k]].price)
  IN  chain[Min({k \in 1 .. LevelPoolSize : Stops(k)})]

LinkAfter(level, new, target) ==
  LET l1 == [level EXCEPT ![new].prev = target]
      l2 == [l1 EXCEPT ![l1[target].next].prev = new]
      l3 == [l2 EXCEPT ![new].next = l2[target].next]
  IN  [l3 EXCEPT ![target].next = new]

\* Defect: the level behind keeps its old prev_entry_.
LinkBeforeOneWay(level, new, target) ==
  LET l1 == [level EXCEPT ![new].prev = level[target].prev, ![new].next = target]
  IN  [l1 EXCEPT ![l1[target].prev].next = new]

LinkBefore(level, new, target) ==
  LET l1 == [level EXCEPT ![new].prev = level[target].prev, ![new].next = target]
      l2 == [l1 EXCEPT ![l1[target].prev].next = new]
  IN  [l2 EXCEPT ![target].prev = new]

\* addOrdersAtPrice(): new is a filled-in level block.
addOrdersAtPrice(b, new) ==
  LET side == b.level[new].side
      price == b.level[new].price
      best == b.best[side]
      at == [b.at EXCEPT ![priceToIndex(price)] = new]
      after == Behind(side, price, b.level[best].price)
      target == IF after THEN FindTarget(b.level, best, side, price) ELSE best
      before == LinkBefore(b.level, new, target)
      newBest == Behind(side, b.level[best].price, price)
  IN  IF best = Null
      THEN [b EXCEPT !.at = at, !.best[side] = new,
                     !.level[new].prev = new, !.level[new].next = new]
      ELSE IF after /\ target = best
      THEN [b EXCEPT !.at = at, !.level = LinkAfter(b.level, new, b.level[best].prev)]
      ELSE IF newBest
      THEN [b EXCEPT !.at = at, !.best[side] = new,
                     !.level = [before EXCEPT ![target].next =
                                  IF @ = best THEN new ELSE @]]
      ELSE [b EXCEPT !.at = at, !.level = before]

\* Defect: the block of the last level of a side is not given back.
removeOrdersAtPriceLeaks(b, side, price) ==
  LET l == getOrdersAtPrice(b, price)
      l1 == [b.level EXCEPT ![b.level[l].prev].next = b.level[l].next]
      l2 == [l1 EXCEPT ![l1[l].next].prev = l1[l].prev]
      cleared == [b EXCEPT !.at[priceToIndex(price)] = Null]
  IN  IF b.level[l].next = l
      THEN [cleared EXCEPT !.best[side] = Null]
      ELSE [cleared EXCEPT !.best[side] = IF @ = l THEN l2[l].next ELSE @,
                           !.free_level = @ \cup {l},
                           !.level = [l2 EXCEPT ![l].prev = Null, ![l].next = Null]]

\* removeOrdersAtPrice(): unlink the level, clear its hash slot, free its block.
removeOrdersAtPrice(b, side, price) ==
  LET l == getOrdersAtPrice(b, price)
      l1 == [b.level EXCEPT ![b.level[l].prev].next = b.level[l].next]
      l2 == [l1 EXCEPT ![l1[l].next].prev = l1[l].prev]
      freed == [b EXCEPT !.at[priceToIndex(price)] = Null, !.free_level = @ \cup {l}]
  IN  IF b.level[l].next = l
      THEN [freed EXCEPT !.best[side] = Null]
      ELSE [freed EXCEPT !.best[side] = IF @ = l THEN l2[l].next ELSE @,
                         !.level = [l2 EXCEPT ![l].prev = Null, ![l].next = Null]]

\* addOrder(): o is a filled-in order block.
addOrder(b, o) ==
  LET order == b.order[o]
      at == getOrdersAtPrice(b, order.price)
      first == b.level[at].first
      o1 == [b.order EXCEPT ![b.order[first].prev].next = o]
      o2 == [o1 EXCEPT ![o].prev = o1[first].prev, ![o].next = first]
      new == [side |-> order.side, price |-> order.price, first |-> o, prev |-> Null, next |-> Null]
      added == IF at = Null
               THEN addOrdersAtPrice(
                      AllocateLevel([b EXCEPT !.order[o].prev = o, !.order[o].next = o], new),
                      b.next_level)
               ELSE [b EXCEPT !.order = [o2 EXCEPT ![first].prev = o]]
  IN  [added EXCEPT !.by_id[order.id] = o]

\* Defect: the level keeps pointing at the order that leaves first.
removeOrderKeepsFirst(b, o) ==
  LET order == b.order[o]
      o1 == [b.order EXCEPT ![order.prev].next = order.next]
      unlinked == IF order.prev = o THEN removeOrdersAtPrice(b, order.side, order.price)
                  ELSE [b EXCEPT !.order = [o1 EXCEPT ![order.next].prev = order.prev]]
  IN  [unlinked EXCEPT !.by_id[order.id] = Null, !.free_order = @ \cup {o}]

\* removeOrder(): unlink the order, clear its hash slot, free its block.
removeOrder(b, o) ==
  LET order == b.order[o]
      at == getOrdersAtPrice(b, order.price)
      o1 == [b.order EXCEPT ![order.prev].next = order.next]
      o2 == [o1 EXCEPT ![order.next].prev = order.prev]
      unlinked == IF order.prev = o THEN removeOrdersAtPrice(b, order.side, order.price)
                  ELSE [b EXCEPT !.level[at].first = IF @ = o THEN order.next ELSE @,
                                 !.order = [o2 EXCEPT ![o].prev = Null, ![o].next = Null]]
  IN  [unlinked EXCEPT !.by_id[order.id] = Null, !.free_order = @ \cup {o}]

-----------------------------------------------------------------------------
(* The books as their readers walk them: from a head along next, back to the *)
(* head.  limit bounds the walk of a list that does not come back.           *)

Walk(node, head, limit) ==
  LET chain == Chain(node, head, limit)
      len == IF head = Null THEN 0
             ELSE Min({limit} \cup {k \in 1 .. limit : chain[k] \in {head, Null}})
  IN  [k \in 1 .. len |-> chain[k - 1]]

LevelsOf(b, side) == Walk(b.level, b.best[side], LevelPoolSize)

OrdersOf(b, l) == Walk(b.order, b.level[l].first, OrderPoolSize)
=============================================================================
