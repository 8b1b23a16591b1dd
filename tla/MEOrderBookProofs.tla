------------------------- MODULE MEOrderBookProofs -------------------------
(***************************************************************************)
(* For any clients, quantities and numbers of orders, and all prices that  *)
(* hash to levels of their own: the containers of the order book agree,    *)
(* the book is never crossed, matching follows price and time, and the     *)
(* responses and the incremental stream say what the book holds.           *)
(*                                                                         *)
(* The argument has three layers.  Lemmas about InsertAt and RemoveAt say  *)
(* what a list looks like after an insertion or a removal.  RemoveOrder,   *)
(* AddOrder and StayInBook carry the agreement of the containers (ListsOK) *)
(* over the three ways in which the book changes.  Inv adds what relates   *)
(* the containers to the ids, the feed and the ledger, and is inductive.   *)
(***************************************************************************)
EXTENDS MEOrderBook, SequenceTheorems, TLAPS

\* What the theorems assume of the prices: no two hash to one level.  The code assumes
\* it (getOrdersAtPrice() looks at the index only); prices within ME_MAX_PRICE_LEVELS of
\* each other satisfy it.
NoCollision == \A p, q \in Prices : priceToIndex(p) = priceToIndex(q) => p = q

\* The types of the containers.
ContainersOK ==
  /\ DOMAIN order_pool \subseteq MarketOrderIds
  /\ \A m \in DOMAIN order_pool : order_pool[m] \in Order
  /\ DOMAIN price_orders_at_price_ \subseteq 0 .. (Levels - 1)
  /\ \A i \in DOMAIN price_orders_at_price_ : price_orders_at_price_[i] \in Level
  /\ by_price \in [Sides -> Seq(0 .. (Levels - 1))]

\* The containers, without what the clients' ids lead to.
ListsOK == ContainersOK /\ LevelsHoldOrders /\ SidesHoldLevels /\ OldestFirst

-----------------------------------------------------------------------------
(* Sequences. *)

\* What the insertion of a level into the list of a side gives.
LEMMA InsertAtProperties ==
  ASSUME NEW S, NEW s \in Seq(S), NEW k \in 1 .. (Len(s) + 1), NEW e \in S
  PROVE  /\ InsertAt(s, k, e) \in Seq(S)
         /\ Len(InsertAt(s, k, e)) = Len(s) + 1
         /\ \A j \in 1 .. (Len(s) + 1) :
              InsertAt(s, k, e)[j] = IF j < k THEN s[j] ELSE IF j = k THEN e ELSE s[j - 1]
<1> DEFINE a == SubSeq(s, 1, k - 1)
           b == SubSeq(s, k, Len(s))
<1>1. a \in Seq(S) /\ Len(a) = k - 1 /\ \A j \in 1 .. (k - 1) : a[j] = s[j]
  OBVIOUS
<1>2. b \in Seq(S) /\ Len(b) = Len(s) - k + 1 /\ \A j \in 1 .. (Len(s) - k + 1) : b[j] = s[k + j - 1]
  OBVIOUS
<1> HIDE DEF a, b
<1>3. InsertAt(s, k, e) = (a \o <<e>>) \o b
  BY DEF InsertAt, a, b
<1>4. /\ a \o <<e>> \in Seq(S) /\ Len(a \o <<e>>) = k
      /\ \A j \in 1 .. k : (a \o <<e>>)[j] = IF j < k THEN s[j] ELSE e
  BY <1>1
<1> DEFINE c == a \o <<e>>
<1> HIDE DEF c
<1>5. c \in Seq(S) /\ Len(c) = k /\ \A j \in 1 .. k : c[j] = IF j < k THEN s[j] ELSE e
  BY <1>4 DEF c
<1>6. InsertAt(s, k, e) = c \o b
  BY <1>3 DEF c
<1>7. c \o b \in Seq(S) /\ Len(c \o b) = Len(s) + 1
  <2>1. c \o b \in Seq(S) /\ Len(c \o b) = Len(c) + Len(b)
    BY <1>2, <1>5, ConcatProperties, Zenon
  <2>2. Len(s) \in Nat
    OBVIOUS
  <2> QED BY <2>1, <2>2, <1>2, <1>5
<1>8. ASSUME NEW j \in 1 .. (Len(s) + 1)
      PROVE  (c \o b)[j] = IF j < k THEN s[j] ELSE IF j = k THEN e ELSE s[j - 1]
  <2>1. (c \o b)[j] = IF j <= k THEN c[j] ELSE b[j - k]
    BY <1>2, <1>5, SMTT(30)
  <2>2. ASSUME j > k PROVE b[j - k] = s[j - 1]
    <3>1. j - k \in 1 .. (Len(s) - k + 1) /\ k + (j - k) - 1 = j - 1
      BY <2>2
    <3> QED BY <3>1, <1>2
  <2> QED BY <2>1, <2>2, <1>5
<1> QED BY <1>6, <1>7, <1>8

\* What the removal of an order or a level from its list gives.
LEMMA RemoveAtProperties ==
  ASSUME NEW S, NEW s \in Seq(S), NEW k \in 1 .. Len(s)
  PROVE  /\ RemoveAt(s, k) \in Seq(S)
         /\ Len(RemoveAt(s, k)) = Len(s) - 1
         /\ \A j \in 1 .. (Len(s) - 1) :
              RemoveAt(s, k)[j] = IF j < k THEN s[j] ELSE s[j + 1]
<1> DEFINE a == SubSeq(s, 1, k - 1)
           b == SubSeq(s, k + 1, Len(s))
<1>1. a \in Seq(S) /\ Len(a) = k - 1 /\ \A j \in 1 .. (k - 1) : a[j] = s[j]
  OBVIOUS
<1>2. b \in Seq(S) /\ Len(b) = Len(s) - k /\ \A j \in 1 .. (Len(s) - k) : b[j] = s[k + j]
  OBVIOUS
<1> HIDE DEF a, b
<1>3. RemoveAt(s, k) = a \o b
  BY DEF RemoveAt, a, b
<1>4. a \o b \in Seq(S) /\ Len(a \o b) = Len(s) - 1
  <2>1. a \o b \in Seq(S) /\ Len(a \o b) = Len(a) + Len(b)
    BY <1>1, <1>2, ConcatProperties, Zenon
  <2>2. Len(s) \in Nat
    OBVIOUS
  <2> QED BY <2>1, <2>2, <1>1, <1>2
<1>5. ASSUME NEW j \in 1 .. (Len(s) - 1)
      PROVE  (a \o b)[j] = IF j < k THEN s[j] ELSE s[j + 1]
  <2>1. (a \o b)[j] = IF j < k THEN a[j] ELSE b[j - (k - 1)]
    BY <1>1, <1>2, SMTT(30)
  <2>2. ASSUME j >= k PROVE b[j - (k - 1)] = s[j + 1]
    <3>1. j - (k - 1) \in 1 .. (Len(s) - k) /\ k + (j - (k - 1)) = j + 1
      BY <2>2
    <3> QED BY <3>1, <1>2
  <2> QED BY <2>1, <2>2, <1>1
<1> QED BY <1>3, <1>4, <1>5

\* Where the elements of a list come from when the k-th was removed.
Origin(x, k) == IF x < k THEN x ELSE x + 1

LEMMA RemoveAtOrigin ==
  ASSUME NEW S, NEW s \in Seq(S), NEW k \in 1 .. Len(s)
  PROVE  /\ \A x \in 1 .. Len(RemoveAt(s, k)) :
              /\ Origin(x, k) \in 1 .. Len(s) /\ Origin(x, k) # k
              /\ RemoveAt(s, k)[x] = s[Origin(x, k)]
         /\ \A x, y \in 1 .. Len(RemoveAt(s, k)) : x < y => Origin(x, k) < Origin(y, k)
         /\ \A j \in 1 .. Len(s) : j # k =>
              \E x \in 1 .. Len(RemoveAt(s, k)) : Origin(x, k) = j
<1>1. Len(s) \in Nat
  OBVIOUS
<1>2. Len(RemoveAt(s, k)) = Len(s) - 1
  BY RemoveAtProperties
<1>3. \A x \in 1 .. (Len(s) - 1) : RemoveAt(s, k)[x] = s[Origin(x, k)]
  BY RemoveAtProperties DEF Origin
<1>4. ASSUME NEW j \in 1 .. Len(s), j # k
      PROVE  \E x \in 1 .. (Len(s) - 1) : Origin(x, k) = j
  <2>1. CASE j < k
    BY <1>1, <2>1 DEF Origin
  <2>2. CASE j > k
    <3>1. j - 1 \in 1 .. (Len(s) - 1) /\ Origin(j - 1, k) = j
      BY <1>1, <2>2 DEF Origin
    <3> QED BY <3>1
  <2> QED BY <1>4, <2>1, <2>2
<1> QED BY <1>1, <1>2, <1>3, <1>4 DEF Origin

\* Where they come from when a new k-th was inserted.
InsertOrigin(x, k) == IF x < k THEN x ELSE x - 1

LEMMA InsertAtOrigin ==
  ASSUME NEW S, NEW s \in Seq(S), NEW k \in 1 .. (Len(s) + 1), NEW e \in S,
         NEW t, t = InsertAt(s, k, e)
  PROVE  /\ k \in 1 .. Len(t) /\ t[k] = e
         /\ \A x \in 1 .. Len(t) : x # k =>
              InsertOrigin(x, k) \in 1 .. Len(s) /\ t[x] = s[InsertOrigin(x, k)]
         /\ \A j \in 1 .. Len(s) : \E x \in 1 .. Len(t) : x # k /\ InsertOrigin(x, k) = j
<1>1. Len(s) \in Nat
  OBVIOUS
<1>2. Len(InsertAt(s, k, e)) = Len(s) + 1
  BY InsertAtProperties
<1>3. \A x \in 1 .. (Len(s) + 1) :
        InsertAt(s, k, e)[x] = IF x = k THEN e ELSE s[InsertOrigin(x, k)]
  BY InsertAtProperties DEF InsertOrigin
<1>4. ASSUME NEW j \in 1 .. Len(s)
      PROVE  \E x \in 1 .. (Len(s) + 1) : x # k /\ InsertOrigin(x, k) = j
  <2>1. CASE j < k
    BY <1>1, <2>1 DEF InsertOrigin
  <2>2. CASE j >= k
    <3>1. j + 1 \in 1 .. (Len(s) + 1) /\ j + 1 # k /\ InsertOrigin(j + 1, k) = j
      BY <1>1, <2>2 DEF InsertOrigin
    <3> QED BY <3>1
  <2> QED BY <2>1, <2>2
<1> QED BY <1>1, <1>2, <1>3, <1>4 DEF InsertOrigin

-----------------------------------------------------------------------------
(* removeOrder(). *)

\* The entries of a side's list are distinct.
LEMMA LevelsDistinct ==
  ASSUME ListsOK, NEW side \in Sides
  PROVE  \A j, k \in 1 .. Len(by_price[side]) : by_price[side][j] = by_price[side][k] => j = k
<1> SUFFICES ASSUME NEW j \in 1 .. Len(by_price[side]), NEW k \in 1 .. Len(by_price[side]),
                    by_price[side][j] = by_price[side][k], j # k
             PROVE  FALSE
  OBVIOUS
<1> DEFINE q == price_orders_at_price_[by_price[side][j]].price
<1>1. q \in Nat
  BY InputAssumption DEF ListsOK, ContainersOK, SidesHoldLevels, Level
<1>2. MoreAggressive(side, q, q)
  <2>1. Len(by_price[side]) \in Nat
    BY DEF ListsOK, ContainersOK
  <2>2. j < k \/ k < j
    BY <2>1
  <2> QED BY <2>2 DEF ListsOK, SidesHoldLevels
<1> QED BY <1>1, <1>2 DEF MoreAggressive

\* An order is in the queue of the level of its price, and in no other.
LEMMA OrderInOneLevel ==
  ASSUME ListsOK, NEW m \in DOMAIN order_pool,
         NEW i \in DOMAIN price_orders_at_price_,
         NEW k \in 1 .. Len(price_orders_at_price_[i].fifo), price_orders_at_price_[i].fifo[k] = m
  PROVE  i = priceToIndex(order_pool[m].price)
BY DEF ListsOK, LevelsHoldOrders

\* An order's id is in its queue once.
LEMMA OrderInQueueOnce ==
  ASSUME ListsOK, NEW i \in DOMAIN price_orders_at_price_
  PROVE  \A j, k \in 1 .. Len(price_orders_at_price_[i].fifo) :
           price_orders_at_price_[i].fifo[j] = price_orders_at_price_[i].fifo[k] => j = k
<1> DEFINE fifo == price_orders_at_price_[i].fifo
<1>1. fifo \in Seq(MarketOrderIds)
  BY DEF ListsOK, ContainersOK, Level
<1>2. \A j \in 1 .. Len(fifo) : fifo[j] \in Nat
  BY <1>1, BoundAssumption DEF MarketOrderIds
<1>3. \A j, k \in 1 .. Len(fifo) : j < k => fifo[j] < fifo[k]
  BY DEF ListsOK, OldestFirst
<1>4. Len(fifo) \in Nat
  BY <1>1
<1> QED BY <1>2, <1>3, <1>4



\* The last order of a level goes, and the level with it.
LEMMA RemoveWithLevel ==
  ASSUME ListsOK, NEW m \in DOMAIN order_pool,
         order_pool' = Without(order_pool, m),
         Len(price_orders_at_price_[priceToIndex(order_pool[m].price)].fifo) = 1,
         removeOrdersAtPrice(order_pool[m].side, order_pool[m].price)
  PROVE  ListsOK'
<1> DEFINE i == priceToIndex(order_pool[m].price)
           side == order_pool[m].side
           level == price_orders_at_price_
           list == by_price[side]
<1>1. PICK k \in 1 .. Len(list) :
        list[k] = i /\ by_price' = [by_price EXCEPT ![side] = RemoveAt(list, k)]
  BY DEF removeOrdersAtPrice
<1>2. i \in DOMAIN level /\ level[i].fifo[1] = m /\ level[i].side = side /\ side \in Sides
  <2>1. i \in DOMAIN level /\ \E x \in 1 .. Len(level[i].fifo) : level[i].fifo[x] = m
    BY DEF ListsOK, LevelsHoldOrders
  <2>2. PICK x \in 1 .. 1 : level[i].fifo[x] = m
    BY <2>1
  <2>3. level[i].side = side
    BY <2>1 DEF ListsOK, LevelsHoldOrders
  <2>4. side \in Sides
    BY DEF ListsOK, ContainersOK, Order
  <2> QED BY <2>1, <2>2, <2>3, <2>4
<1>3. DOMAIN order_pool' = DOMAIN order_pool \ {m} /\ \A n \in DOMAIN order_pool' : order_pool'[n] = order_pool[n]
  BY DEF Without
<1>4. /\ DOMAIN level' = DOMAIN level \ {i}
      /\ \A j \in DOMAIN level' : level'[j] = level[j]
  BY DEF removeOrdersAtPrice, Without
<1>5. list \in Seq(0 .. (Levels - 1))
  BY <1>2 DEF ListsOK, ContainersOK
<1>6. RemoveAt(list, k) \in Seq(0 .. (Levels - 1))
  BY <1>5, RemoveAtProperties
<1>7. \A s \in Sides : by_price'[s] = IF s = side THEN RemoveAt(list, k) ELSE by_price[s]
  BY <1>1 DEF ListsOK, ContainersOK
<1>8. ContainersOK'
  <2>1. by_price' \in [Sides -> Seq(0 .. (Levels - 1))]
    BY <1>1, <1>6 DEF ListsOK, ContainersOK
  <2>2. DOMAIN order_pool' \subseteq MarketOrderIds /\ \A n \in DOMAIN order_pool' : order_pool'[n] \in Order
    BY <1>3 DEF ListsOK, ContainersOK
  <2>3. DOMAIN level' \subseteq 0 .. (Levels - 1) /\ \A j \in DOMAIN level' : level'[j] \in Level
    BY <1>4 DEF ListsOK, ContainersOK
  <2> QED BY <2>1, <2>2, <2>3 DEF ContainersOK, MarketOrderIds, Order, Level, OrderIds, Quantity, Sides
<1>9. ASSUME NEW n \in DOMAIN order_pool' PROVE priceToIndex(order_pool[n].price) # i
  <2> SUFFICES ASSUME priceToIndex(order_pool[n].price) = i PROVE n = m
    BY <1>3
  <2>1. \E x \in 1 .. Len(level[i].fifo) : level[i].fifo[x] = n
    BY <1>3 DEF ListsOK, LevelsHoldOrders
  <2> QED BY <2>1, <1>2
<1>10. LevelsHoldOrders'
  <2>1. ASSUME NEW n \in DOMAIN order_pool'
        PROVE  /\ priceToIndex(order_pool'[n].price) \in DOMAIN level'
               /\ \E x \in 1 .. Len(level'[priceToIndex(order_pool'[n].price)].fifo) :
                    level'[priceToIndex(order_pool'[n].price)].fifo[x] = n
    BY <1>3, <1>4, <1>9 DEF ListsOK, LevelsHoldOrders
  <2>2. ASSUME NEW j \in DOMAIN level'
        PROVE  /\ priceToIndex(level'[j].price) = j
               /\ level'[j].fifo # << >>
               /\ \A x \in 1 .. Len(level'[j].fifo) :
                    /\ level'[j].fifo[x] \in DOMAIN order_pool'
                    /\ order_pool'[level'[j].fifo[x]].side = level'[j].side
                    /\ order_pool'[level'[j].fifo[x]].price = level'[j].price
    <3>1. \A x \in 1 .. Len(level[j].fifo) : level[j].fifo[x] # m
      BY <1>4, OrderInOneLevel
    <3> QED BY <3>1, <1>3, <1>4 DEF ListsOK, LevelsHoldOrders
  <2> QED BY <2>1, <2>2 DEF LevelsHoldOrders, priceToIndex
<1>11. /\ \A x \in 1 .. Len(RemoveAt(list, k)) :
            /\ Origin(x, k) \in 1 .. Len(list) /\ Origin(x, k) # k
            /\ RemoveAt(list, k)[x] = list[Origin(x, k)]
       /\ \A x, y \in 1 .. Len(RemoveAt(list, k)) : x < y => Origin(x, k) < Origin(y, k)
       /\ \A j \in 1 .. Len(list) : j # k =>
            \E x \in 1 .. Len(RemoveAt(list, k)) : Origin(x, k) = j
  BY <1>5, RemoveAtOrigin, ZenonT(60)
<1>12. \A x \in 1 .. Len(RemoveAt(list, k)) : list[Origin(x, k)] # i
  BY <1>1, <1>2, <1>11, LevelsDistinct
<1>13. SidesHoldLevels'
  <2>1. ASSUME NEW j \in DOMAIN level'
        PROVE  \E x \in 1 .. Len(by_price'[level'[j].side]) : by_price'[level'[j].side][x] = j
    <3>1. PICK y \in 1 .. Len(by_price[level[j].side]) : by_price[level[j].side][y] = j
      BY <1>4 DEF ListsOK, SidesHoldLevels
    <3>2. level'[j] = level[j] /\ level[j].side \in Sides /\ j # i
      BY <1>4 DEF ListsOK, ContainersOK, Level
    <3>3. CASE level[j].side = side
      <4>1. y # k
        BY <3>1, <3>2, <3>3, <1>1
      <4>2. PICK x \in 1 .. Len(RemoveAt(list, k)) : Origin(x, k) = y
        BY <4>1, <3>1, <3>3, <1>11
      <4> QED BY <4>2, <3>1, <3>2, <3>3, <1>7, <1>11
    <3>4. CASE level[j].side # side
      BY <3>1, <3>2, <3>4, <1>7
    <3> QED BY <3>3, <3>4
  <2>2. ASSUME NEW s \in Sides, NEW x \in 1 .. Len(by_price'[s])
        PROVE  by_price'[s][x] \in DOMAIN level' /\ level'[by_price'[s][x]].side = s
    <3>1. CASE s = side
      <4>1. by_price'[s] = RemoveAt(list, k) /\ x \in 1 .. Len(RemoveAt(list, k))
        BY <3>1, <1>7
      <4>2. Origin(x, k) \in 1 .. Len(list) /\ by_price'[s][x] = list[Origin(x, k)]
        BY <4>1, <1>11
      <4>3. list[Origin(x, k)] # i
        BY <4>1, <1>12
      <4>4. \A y \in 1 .. Len(list) : list[y] \in DOMAIN level /\ level[list[y]].side = side
        BY <1>2 DEF ListsOK, SidesHoldLevels
      <4> HIDE DEF list, side
      <4>5. list[Origin(x, k)] \in DOMAIN level /\ level[list[Origin(x, k)]].side = s
        BY <3>1, <4>2, <4>4
      <4> QED BY <4>2, <4>3, <4>5, <1>4
    <3>2. CASE s # side
      <4>1. by_price'[s] = by_price[s] /\ x \in 1 .. Len(by_price[s])
        BY <3>2, <1>7
      <4>2. by_price[s][x] \in DOMAIN level /\ level[by_price[s][x]].side = s
        BY <4>1 DEF ListsOK, SidesHoldLevels
      <4>3. by_price[s][x] # i
        BY <3>2, <4>2, <1>2
      <4> QED BY <4>1, <4>2, <4>3, <1>4
    <3> QED BY <3>1, <3>2
  <2>3. ASSUME NEW s \in Sides, NEW x \in 1 .. Len(by_price'[s]), NEW y \in 1 .. Len(by_price'[s]), x < y
        PROVE  MoreAggressive(s, level'[by_price'[s][x]].price, level'[by_price'[s][y]].price)
    <3>0. level'[by_price'[s][x]] = level[by_price'[s][x]] /\ level'[by_price'[s][y]] = level[by_price'[s][y]]
      BY <2>2, <1>4
    <3>1. CASE s = side
      <4>1. /\ Origin(x, k) \in 1 .. Len(list) /\ Origin(y, k) \in 1 .. Len(list)
            /\ Origin(x, k) < Origin(y, k)
            /\ by_price'[s][x] = list[Origin(x, k)] /\ by_price'[s][y] = list[Origin(y, k)]
        BY <2>3, <3>1, <1>7, <1>11
      <4> QED BY <4>1, <3>0, <3>1 DEF ListsOK, SidesHoldLevels
    <3>2. CASE s # side
      BY <2>3, <3>0, <3>2, <1>7 DEF ListsOK, SidesHoldLevels
    <3> QED BY <3>1, <3>2
  <2> QED BY <2>1, <2>2, <2>3 DEF SidesHoldLevels, MoreAggressive, Sides
<1>14. OldestFirst'
  <2>1. ASSUME NEW j \in DOMAIN level', NEW x \in 1 .. Len(level'[j].fifo)
        PROVE  level'[j] = level[j] /\ j \in DOMAIN level /\ order_pool'[level[j].fifo[x]] = order_pool[level[j].fifo[x]]
    BY <1>3, <1>4, <1>10 DEF LevelsHoldOrders
  <2> QED BY <2>1 DEF ListsOK, OldestFirst
<1> QED BY <1>8, <1>10, <1>13, <1>14 DEF ListsOK

\* An order goes, and others of its level stay.
LEMMA RemoveFromLevel ==
  ASSUME ListsOK, NEW m \in DOMAIN order_pool,
         order_pool' = Without(order_pool, m),
         UNCHANGED by_price,
         Len(price_orders_at_price_[priceToIndex(order_pool[m].price)].fifo) # 1,
         NEW k \in 1 .. Len(price_orders_at_price_[priceToIndex(order_pool[m].price)].fifo),
         price_orders_at_price_[priceToIndex(order_pool[m].price)].fifo[k] = m,
         price_orders_at_price_' =
           [price_orders_at_price_ EXCEPT ![priceToIndex(order_pool[m].price)].fifo = RemoveAt(@, k)]
  PROVE  ListsOK'
<1> DEFINE i == priceToIndex(order_pool[m].price)
           level == price_orders_at_price_
           fifo == level[i].fifo
<1>1. i \in DOMAIN level /\ level[i] \in Level /\ fifo \in Seq(MarketOrderIds)
  <2>1. i \in DOMAIN level
    BY DEF ListsOK, LevelsHoldOrders
  <2> QED BY <2>1 DEF ListsOK, ContainersOK, Level
<1>2. DOMAIN order_pool' = DOMAIN order_pool \ {m} /\ \A n \in DOMAIN order_pool' : order_pool'[n] = order_pool[n]
  BY DEF Without
<1>3. /\ RemoveAt(fifo, k) \in Seq(MarketOrderIds)
      /\ Len(RemoveAt(fifo, k)) = Len(fifo) - 1
  BY <1>1, RemoveAtProperties
<1>4. /\ DOMAIN level' = DOMAIN level
      /\ \A j \in DOMAIN level : level'[j].side = level[j].side /\ level'[j].price = level[j].price
      /\ \A j \in DOMAIN level : j # i => level'[j] = level[j]
      /\ level'[i].fifo = RemoveAt(fifo, k)
      /\ level'[i] \in Level
  BY <1>1, <1>3 DEF Level
<1>5. ContainersOK'
  <2>1. \A n \in DOMAIN order_pool' : order_pool'[n] \in Order
    BY <1>2 DEF ListsOK, ContainersOK
  <2>2. \A j \in DOMAIN level' : level'[j] \in Level
    BY <1>4 DEF ListsOK, ContainersOK
  <2>3. /\ DOMAIN order_pool' \subseteq MarketOrderIds /\ DOMAIN level' \subseteq 0 .. (Levels - 1)
        /\ by_price' \in [Sides -> Seq(0 .. (Levels - 1))]
    BY <1>2, <1>4 DEF ListsOK, ContainersOK
  <2> QED BY <2>1, <2>2, <2>3 DEF ContainersOK, MarketOrderIds, Order, Level, OrderIds, Quantity, Sides
<1>6. /\ \A x \in 1 .. Len(RemoveAt(fifo, k)) :
            /\ Origin(x, k) \in 1 .. Len(fifo) /\ Origin(x, k) # k
            /\ RemoveAt(fifo, k)[x] = fifo[Origin(x, k)]
      /\ \A x, y \in 1 .. Len(RemoveAt(fifo, k)) : x < y => Origin(x, k) < Origin(y, k)
      /\ \A j \in 1 .. Len(fifo) : j # k =>
            \E x \in 1 .. Len(RemoveAt(fifo, k)) : Origin(x, k) = j
  <2>1. ASSUME NEW s \in Seq(MarketOrderIds), NEW kk \in 1 .. Len(s)
        PROVE  /\ \A x \in 1 .. Len(RemoveAt(s, kk)) :
                    /\ Origin(x, kk) \in 1 .. Len(s) /\ Origin(x, kk) # kk
                    /\ RemoveAt(s, kk)[x] = s[Origin(x, kk)]
               /\ \A x, y \in 1 .. Len(RemoveAt(s, kk)) : x < y => Origin(x, kk) < Origin(y, kk)
               /\ \A j \in 1 .. Len(s) : j # kk =>
                    \E x \in 1 .. Len(RemoveAt(s, kk)) : Origin(x, kk) = j
    BY RemoveAtOrigin
  <2> HIDE DEF fifo
  <2>2. fifo \in Seq(MarketOrderIds) /\ k \in 1 .. Len(fifo)
    BY <1>1 DEF fifo
  <2> QED BY <2>1, <2>2, Zenon
<1>7. \A x \in 1 .. Len(RemoveAt(fifo, k)) : RemoveAt(fifo, k)[x] # m
  BY <1>1, <1>6, OrderInQueueOnce, SMTT(60)
<1>8. LevelsHoldOrders'
  <2>1. ASSUME NEW n \in DOMAIN order_pool'
        PROVE  /\ priceToIndex(order_pool'[n].price) \in DOMAIN level'
               /\ \E x \in 1 .. Len(level'[priceToIndex(order_pool'[n].price)].fifo) :
                    level'[priceToIndex(order_pool'[n].price)].fifo[x] = n
    <3> DEFINE j == priceToIndex(order_pool[n].price)
    <3>1. j \in DOMAIN level /\ order_pool'[n] = order_pool[n] /\ n # m
      BY <1>2 DEF ListsOK, LevelsHoldOrders
    <3>2. PICK y \in 1 .. Len(level[j].fifo) : level[j].fifo[y] = n
      BY <1>2 DEF ListsOK, LevelsHoldOrders
    <3>3. CASE j = i
      <4>1. y \in 1 .. Len(fifo) /\ y # k
        BY <3>1, <3>2, <3>3
      <4>2. PICK x \in 1 .. Len(RemoveAt(fifo, k)) : Origin(x, k) = y
        BY <4>1, <1>6
      <4>3. RemoveAt(fifo, k)[x] = n
        BY <4>2, <3>2, <3>3, <1>6
      <4>4. level'[i].fifo[x] = n /\ x \in 1 .. Len(level'[i].fifo)
        BY <4>3, <1>4
      <4> QED BY <4>4, <3>1, <3>3, <1>4
    <3>4. CASE j # i
      <4>1. level'[j] = level[j] /\ j \in DOMAIN level'
        BY <3>1, <3>4, <1>4, SMTT(30)
      <4>2. priceToIndex(order_pool'[n].price) = j
        BY <3>1
      <4> HIDE DEF j
      <4> QED BY <3>2, <4>1, <4>2
    <3> QED BY <3>3, <3>4
  <2>2. ASSUME NEW j \in DOMAIN level'
        PROVE  /\ priceToIndex(level'[j].price) = j
               /\ level'[j].fifo # << >>
               /\ \A x \in 1 .. Len(level'[j].fifo) :
                    /\ level'[j].fifo[x] \in DOMAIN order_pool'
                    /\ order_pool'[level'[j].fifo[x]].side = level'[j].side
                    /\ order_pool'[level'[j].fifo[x]].price = level'[j].price
    <3>1. CASE j = i
      <4>1. RemoveAt(fifo, k) # << >>
        <5>1. Len(fifo) \in Nat /\ Len(fifo) # 1 /\ k \in 1 .. Len(fifo)
          BY <1>1
        <5>2. Len(RemoveAt(fifo, k)) # 0
          BY <5>1, <1>3
        <5> QED BY <5>2
      <4>2. \A y \in 1 .. Len(fifo) :
              /\ fifo[y] \in DOMAIN order_pool
              /\ order_pool[fifo[y]].side = level[i].side
              /\ order_pool[fifo[y]].price = level[i].price
        BY <1>1 DEF ListsOK, LevelsHoldOrders
      <4>3. ASSUME NEW x \in 1 .. Len(RemoveAt(fifo, k))
            PROVE  /\ RemoveAt(fifo, k)[x] \in DOMAIN order_pool'
                   /\ order_pool'[RemoveAt(fifo, k)[x]].side = level[i].side
                   /\ order_pool'[RemoveAt(fifo, k)[x]].price = level[i].price
        <5>1. RemoveAt(fifo, k)[x] \in DOMAIN order_pool'
          BY <4>2, <1>2, <1>6, <1>7, SMTT(30)
        <5> QED BY <5>1, <4>2, <1>2, <1>6, SMTT(30)
      <4>4. priceToIndex(level[i].price) = i
        BY <1>1 DEF ListsOK, LevelsHoldOrders
      <4>5. /\ level'[i].side = level[i].side /\ level'[i].price = level[i].price
            /\ level'[i].fifo = RemoveAt(fifo, k)
        BY <1>1, <1>4
      <4> QED BY <4>1, <4>3, <4>4, <4>5, <3>1
    <3>2. CASE j # i
      <4>1. \A x \in 1 .. Len(level[j].fifo) : level[j].fifo[x] # m
        BY <1>4, <3>2, OrderInOneLevel
      <4>2. level'[j] = level[j] /\ j \in DOMAIN level
        BY <3>2, <1>4
      <4>3. /\ priceToIndex(level[j].price) = j /\ level[j].fifo # << >>
            /\ \A x \in 1 .. Len(level[j].fifo) :
                 /\ level[j].fifo[x] \in DOMAIN order_pool
                 /\ order_pool[level[j].fifo[x]].side = level[j].side
                 /\ order_pool[level[j].fifo[x]].price = level[j].price
        BY <4>2 DEF ListsOK, LevelsHoldOrders
      <4>4. ASSUME NEW x \in 1 .. Len(level[j].fifo)
            PROVE  /\ level[j].fifo[x] \in DOMAIN order_pool'
                   /\ order_pool'[level[j].fifo[x]] = order_pool[level[j].fifo[x]]
        BY <4>1, <4>3, <1>2, SMTT(30)
      <4> DEFINE Holds(L) == /\ priceToIndex(L.price) = j
                             /\ L.fifo # << >>
                             /\ \A x \in 1 .. Len(L.fifo) :
                                  /\ L.fifo[x] \in DOMAIN order_pool'
                                  /\ order_pool'[L.fifo[x]].side = L.side
                                  /\ order_pool'[L.fifo[x]].price = L.price
      <4>5. Holds(level[j])
        BY <4>3, <4>4, ZenonT(30)
      <4>6. Holds(level'[j])
        <5> HIDE DEF Holds
        <5> QED BY <4>2, <4>5
      <4> QED BY <4>6
    <3> QED BY <3>1, <3>2
  <2> QED BY <2>1, <2>2 DEF LevelsHoldOrders, priceToIndex
<1>9. SidesHoldLevels'
  <2>1. ASSUME NEW s \in Sides, NEW x \in 1 .. Len(by_price[s])
        PROVE  /\ by_price[s][x] \in DOMAIN level
               /\ level'[by_price[s][x]].price = level[by_price[s][x]].price
    BY <1>4 DEF ListsOK, SidesHoldLevels
  <2>2. \A j \in DOMAIN level' :
          \E x \in 1 .. Len(by_price'[level'[j].side]) : by_price'[level'[j].side][x] = j
    BY <1>4 DEF ListsOK, SidesHoldLevels
  <2>3. \A s \in Sides : \A x \in 1 .. Len(by_price'[s]) :
          by_price'[s][x] \in DOMAIN level' /\ level'[by_price'[s][x]].side = s
    BY <1>4 DEF ListsOK, SidesHoldLevels
  <2>4. \A s \in Sides : \A x, y \in 1 .. Len(by_price'[s]) : x < y =>
          MoreAggressive(s, level'[by_price'[s][x]].price, level'[by_price'[s][y]].price)
    BY <2>1, SMTT(30) DEF ListsOK, SidesHoldLevels
  <2> QED BY <2>2, <2>3, <2>4 DEF SidesHoldLevels, MoreAggressive, Sides
<1>10. OldestFirst'
  <2> SUFFICES ASSUME NEW j \in DOMAIN level', NEW x \in 1 .. Len(level'[j].fifo),
                      NEW y \in 1 .. Len(level'[j].fifo), x < y
               PROVE  /\ level'[j].fifo[x] < level'[j].fifo[y]
                      /\ order_pool'[level'[j].fifo[x]].priority < order_pool'[level'[j].fifo[y]].priority
    BY SMTT(30) DEF OldestFirst
  <2>1. /\ order_pool'[level'[j].fifo[x]] = order_pool[level'[j].fifo[x]]
        /\ order_pool'[level'[j].fifo[y]] = order_pool[level'[j].fifo[y]]
    BY <1>2, <1>8 DEF LevelsHoldOrders
  <2>2. CASE j = i
    <3>1. /\ Origin(x, k) \in 1 .. Len(fifo) /\ Origin(y, k) \in 1 .. Len(fifo)
          /\ Origin(x, k) < Origin(y, k)
          /\ level'[j].fifo[x] = fifo[Origin(x, k)] /\ level'[j].fifo[y] = fifo[Origin(y, k)]
      BY <2>2, <1>4, <1>6
    <3>2. /\ fifo[Origin(x, k)] < fifo[Origin(y, k)]
          /\ order_pool[fifo[Origin(x, k)]].priority < order_pool[fifo[Origin(y, k)]].priority
      BY <3>1, <1>1, SMTT(30) DEF ListsOK, OldestFirst
    <3> QED BY <3>1, <3>2, <2>1
  <2>3. CASE j # i
    BY <2>1, <2>3, <1>4 DEF ListsOK, OldestFirst
  <2> QED BY <2>2, <2>3
<1> QED BY <1>5, <1>8, <1>9, <1>10 DEF ListsOK

\* removeOrder() leaves the containers in agreement.
LEMMA RemoveOrder ==
  ASSUME ListsOK, NEW m \in DOMAIN order_pool, removeOrder(m) PROVE ListsOK'
<1> DEFINE i == priceToIndex(order_pool[m].price)
<1>1. order_pool' = Without(order_pool, m)
  BY DEF removeOrder
<1>2. CASE /\ Len(price_orders_at_price_[i].fifo) = 1
           /\ removeOrdersAtPrice(order_pool[m].side, order_pool[m].price)
  BY <1>1, <1>2, RemoveWithLevel
<1>3. CASE /\ Len(price_orders_at_price_[i].fifo) # 1
           /\ \E k \in 1 .. Len(price_orders_at_price_[i].fifo) :
                /\ price_orders_at_price_[i].fifo[k] = m
                /\ price_orders_at_price_' = [price_orders_at_price_ EXCEPT ![i].fifo = RemoveAt(@, k)]
           /\ UNCHANGED by_price
  BY <1>1, <1>3, RemoveFromLevel
<1> QED BY <1>2, <1>3 DEF removeOrder, unlinkOrder

-----------------------------------------------------------------------------
(* addOrder(). *)

\* The order is newer than all in the book, and no level of the other side has its price.
Joins(m, order) ==
  /\ \A n \in DOMAIN order_pool : n < m
  /\ priceToIndex(order.price) \in DOMAIN price_orders_at_price_ =>
       price_orders_at_price_[priceToIndex(order.price)].side = order.side
  /\ order.priority = getNextPriority(order.price)

AppendsOrder(m, order, i) ==
  /\ i = priceToIndex(order.price)
  /\ i \in DOMAIN price_orders_at_price_
  /\ order_pool' = With(order_pool, m, order)
  /\ price_orders_at_price_' = [price_orders_at_price_ EXCEPT ![i].fifo = Append(@, m)]
  /\ UNCHANGED by_price

\* A new order goes behind the others of its level.
LEMMA AddToLevel ==
  ASSUME ListsOK, NoCollision, NEW m \in MarketOrderIds, NEW order \in Order,
         Joins(m, order), NEW i, AppendsOrder(m, order, i)
  PROVE  ListsOK'
<1> DEFINE level == price_orders_at_price_
           fifo == level[i].fifo
<1>0. i \in DOMAIN level /\ i = priceToIndex(order.price) /\ level[i].side = order.side
  BY DEF Joins, AppendsOrder
<1>1. level[i] \in Level /\ fifo \in Seq(MarketOrderIds) /\ Len(fifo) \in Nat
  <2>1. level[i] \in Level
    BY <1>0 DEF ListsOK, ContainersOK
  <2>2. fifo \in Seq(MarketOrderIds)
    BY <2>1 DEF Level
  <2> QED BY <2>1, <2>2
<1>2. level[i].price = order.price /\ fifo # << >> /\ Len(fifo) > 0
  <2>1. priceToIndex(level[i].price) = priceToIndex(order.price) /\ fifo # << >>
    BY <1>0 DEF ListsOK, LevelsHoldOrders
  <2>2. level[i].price \in Prices /\ order.price \in Prices
    BY <1>1 DEF Level, Order
  <2>3. Len(fifo) # 0
    BY <2>1, <1>1
  <2> QED BY <2>1, <2>2, <2>3, <1>1 DEF NoCollision
<1>3. m \notin DOMAIN order_pool
  BY BoundAssumption DEF MarketOrderIds, Joins
<1>4. /\ DOMAIN order_pool' = DOMAIN order_pool \cup {m} /\ order_pool'[m] = order
      /\ \A n \in DOMAIN order_pool : order_pool'[n] = order_pool[n]
  BY <1>3 DEF AppendsOrder, With
<1>5. /\ Append(fifo, m) \in Seq(MarketOrderIds) /\ Len(Append(fifo, m)) = Len(fifo) + 1
      /\ \A x \in 1 .. Len(fifo) : Append(fifo, m)[x] = fifo[x]
      /\ Append(fifo, m)[Len(fifo) + 1] = m
  BY <1>1
<1>6. /\ DOMAIN level' = DOMAIN level
      /\ \A j \in DOMAIN level : level'[j].side = level[j].side /\ level'[j].price = level[j].price
      /\ \A j \in DOMAIN level : j # i => level'[j] = level[j]
      /\ level'[i].fifo = Append(fifo, m)
      /\ level'[i] \in Level
      /\ by_price' = by_price
  BY <1>0, <1>1, <1>5 DEF Level, AppendsOrder
<1>7. ContainersOK'
  <2>1. \A n \in DOMAIN order_pool' : order_pool'[n] \in Order
    BY <1>4 DEF ListsOK, ContainersOK
  <2>2. \A j \in DOMAIN level' : level'[j] \in Level
    BY <1>6 DEF ListsOK, ContainersOK
  <2>3. /\ DOMAIN order_pool' \subseteq MarketOrderIds /\ DOMAIN level' \subseteq 0 .. (Levels - 1)
        /\ by_price' \in [Sides -> Seq(0 .. (Levels - 1))]
    BY <1>4, <1>6 DEF ListsOK, ContainersOK
  <2> QED BY <2>1, <2>2, <2>3 DEF ContainersOK, MarketOrderIds, Order, Level, OrderIds, Quantity, Sides
<1>8. \A x \in 1 .. Len(fifo) :
        /\ fifo[x] \in DOMAIN order_pool
        /\ order_pool[fifo[x]].side = level[i].side
        /\ order_pool[fifo[x]].price = level[i].price
  BY <1>0 DEF ListsOK, LevelsHoldOrders
<1>9. LevelsHoldOrders'
  <2>1. ASSUME NEW n \in DOMAIN order_pool'
        PROVE  /\ priceToIndex(order_pool'[n].price) \in DOMAIN level'
               /\ \E x \in 1 .. Len(level'[priceToIndex(order_pool'[n].price)].fifo) :
                    level'[priceToIndex(order_pool'[n].price)].fifo[x] = n
    <3> DEFINE j == priceToIndex(order_pool[n].price)
    <3>1. CASE n = m
      <4>1. Len(fifo) + 1 \in 1 .. Len(Append(fifo, m))
        BY <1>1, <1>5
      <4> QED BY <3>1, <4>1, <1>0, <1>4, <1>5, <1>6
    <3>2. CASE n # m
      <4>1. n \in DOMAIN order_pool /\ order_pool'[n] = order_pool[n]
        BY <3>2, <1>4
      <4>2. PICK x \in 1 .. Len(level[j].fifo) : j \in DOMAIN level /\ level[j].fifo[x] = n
        BY <4>1 DEF ListsOK, LevelsHoldOrders
      <4>3. CASE j = i
        <5>1. x \in 1 .. Len(Append(fifo, m)) /\ Append(fifo, m)[x] = n
          BY <4>2, <4>3, <1>1, <1>5
        <5> QED BY <5>1, <4>1, <4>2, <4>3, <1>6
      <4>4. CASE j # i
        BY <4>1, <4>2, <4>4, <1>6
      <4> QED BY <4>3, <4>4
    <3> QED BY <3>1, <3>2
  <2>2. ASSUME NEW j \in DOMAIN level'
        PROVE  /\ priceToIndex(level'[j].price) = j
               /\ level'[j].fifo # << >>
               /\ \A x \in 1 .. Len(level'[j].fifo) :
                    /\ level'[j].fifo[x] \in DOMAIN order_pool'
                    /\ order_pool'[level'[j].fifo[x]].side = level'[j].side
                    /\ order_pool'[level'[j].fifo[x]].price = level'[j].price
    <3>1. CASE j = i
      <4>1. Append(fifo, m) # << >>
        BY <1>1
      <4>2. ASSUME NEW x \in 1 .. Len(Append(fifo, m))
            PROVE  /\ Append(fifo, m)[x] \in DOMAIN order_pool'
                   /\ order_pool'[Append(fifo, m)[x]].side = level[i].side
                   /\ order_pool'[Append(fifo, m)[x]].price = level[i].price
        <5>1. CASE x = Len(fifo) + 1
          <6>1. Append(fifo, m)[x] = m
            BY <5>1, <1>5
          <6> QED BY <6>1, <1>0, <1>2, <1>4
        <5>2. CASE x \in 1 .. Len(fifo)
          BY <5>2, <1>4, <1>5, <1>8
        <5>3. x = Len(fifo) + 1 \/ x \in 1 .. Len(fifo)
          BY <1>1, <1>5
        <5> QED BY <5>1, <5>2, <5>3
      <4>3. priceToIndex(level[i].price) = i
        BY <1>0, <1>2
      <4> QED BY <4>1, <4>2, <4>3, <3>1, <1>0, <1>6
    <3>2. CASE j # i
      <4>1. j \in DOMAIN level /\ level'[j] = level[j]
        BY <3>2, <1>6
      <4>2. \A x \in 1 .. Len(level[j].fifo) : level[j].fifo[x] \in DOMAIN order_pool
        BY <4>1 DEF ListsOK, LevelsHoldOrders
      <4>3. \A x \in 1 .. Len(level[j].fifo) : order_pool'[level[j].fifo[x]] = order_pool[level[j].fifo[x]]
        BY <4>2, <1>4
      <4> QED BY <4>1, <4>2, <4>3, <1>4 DEF ListsOK, LevelsHoldOrders
    <3> QED BY <3>1, <3>2
  <2> QED BY <2>1, <2>2 DEF LevelsHoldOrders, priceToIndex
<1>10. SidesHoldLevels'
  <2>1. ASSUME NEW s \in Sides, NEW x \in 1 .. Len(by_price[s])
        PROVE  /\ by_price[s][x] \in DOMAIN level
               /\ level'[by_price[s][x]].price = level[by_price[s][x]].price
    BY <1>6 DEF ListsOK, SidesHoldLevels
  <2>2. \A j \in DOMAIN level' :
          \E x \in 1 .. Len(by_price'[level'[j].side]) : by_price'[level'[j].side][x] = j
    BY <1>6 DEF ListsOK, SidesHoldLevels
  <2>3. \A s \in Sides : \A x \in 1 .. Len(by_price'[s]) :
          by_price'[s][x] \in DOMAIN level' /\ level'[by_price'[s][x]].side = s
    BY <1>6 DEF ListsOK, SidesHoldLevels
  <2>4. \A s \in Sides : \A x, y \in 1 .. Len(by_price'[s]) : x < y =>
          MoreAggressive(s, level'[by_price'[s][x]].price, level'[by_price'[s][y]].price)
    <3> SUFFICES ASSUME NEW s \in Sides, NEW x \in 1 .. Len(by_price[s]),
                        NEW y \in 1 .. Len(by_price[s]), x < y
                 PROVE  MoreAggressive(s, level'[by_price[s][x]].price, level'[by_price[s][y]].price)
      BY <1>6
    <3>1. MoreAggressive(s, level[by_price[s][x]].price, level[by_price[s][y]].price)
      BY DEF ListsOK, SidesHoldLevels
    <3> QED BY <3>1, <2>1
  <2> QED BY <2>2, <2>3, <2>4 DEF SidesHoldLevels, MoreAggressive, Sides
<1>11. OldestFirst'
  <2> SUFFICES ASSUME NEW j \in DOMAIN level', NEW x \in 1 .. Len(level'[j].fifo),
                      NEW y \in 1 .. Len(level'[j].fifo), x < y
               PROVE  /\ level'[j].fifo[x] < level'[j].fifo[y]
                      /\ order_pool'[level'[j].fifo[x]].priority < order_pool'[level'[j].fifo[y]].priority
    BY DEF OldestFirst
  <2>1. \A z \in 1 .. Len(level[j].fifo) : level[j].fifo[z] \in DOMAIN order_pool
    BY <1>6 DEF ListsOK, LevelsHoldOrders
  <2>2. CASE j = i /\ y = Len(fifo) + 1
    <3>1. x \in 1 .. Len(fifo) /\ level'[j].fifo[x] = fifo[x] /\ level'[j].fifo[y] = m
      BY <2>2, <1>1, <1>5, <1>6
    <3>2. fifo[x] < m /\ order_pool'[fifo[x]] = order_pool[fifo[x]] /\ order_pool'[m] = order
      BY <3>1, <1>4, <1>8 DEF Joins
    <3>3. order_pool[fifo[x]].priority <= order_pool[fifo[Len(fifo)]].priority
      <4>1. x < Len(fifo) => order_pool[fifo[x]].priority < order_pool[fifo[Len(fifo)]].priority
        BY <3>1, <1>0, <1>1, <1>2 DEF ListsOK, OldestFirst
      <4>2. \A z \in 1 .. Len(fifo) : order_pool[fifo[z]].priority \in Nat
        BY <1>8 DEF ListsOK, ContainersOK, Order
      <4>3. order_pool[fifo[x]].priority \in Nat /\ (x < Len(fifo) \/ x = Len(fifo))
        BY <4>2, <3>1, <1>1
      <4>4. CASE x = Len(fifo)
        BY <4>3, <4>4
      <4>5. CASE x < Len(fifo)
        <5>1. Len(fifo) \in 1 .. Len(fifo)
          BY <1>1, <1>2
        <5>2. order_pool[fifo[Len(fifo)]].priority \in Nat
          BY <4>2, <5>1
        <5> QED BY <4>1, <4>3, <4>5, <5>2
      <4> QED BY <4>3, <4>4, <4>5
    <3>4. order.priority = order_pool[fifo[Len(fifo)]].priority + 1
      BY <1>0 DEF Joins, getNextPriority, Last
    <3>5. order_pool[fifo[x]].priority \in Nat /\ order_pool[fifo[Len(fifo)]].priority \in Nat
      <4>1. Len(fifo) \in 1 .. Len(fifo)
        BY <1>1, <1>2
      <4>2. \A z \in 1 .. Len(fifo) : order_pool[fifo[z]].priority \in Nat
        BY <1>8 DEF ListsOK, ContainersOK, Order
      <4> QED BY <4>1, <4>2, <3>1, SMTT(30)
    <3> QED BY <3>1, <3>2, <3>3, <3>4, <3>5, SMTT(30)
  <2>3. CASE j = i /\ y # Len(fifo) + 1
    <3>1. /\ x \in 1 .. Len(fifo) /\ level'[j].fifo[x] = fifo[x]
          /\ y \in 1 .. Len(fifo) /\ level'[j].fifo[y] = fifo[y]
      BY <2>3, <1>1, <1>5, <1>6
    <3>2. order_pool'[fifo[x]] = order_pool[fifo[x]] /\ order_pool'[fifo[y]] = order_pool[fifo[y]]
      BY <3>1, <1>4, <1>8
    <3> QED BY <3>1, <3>2, <1>0 DEF ListsOK, OldestFirst
  <2>4. CASE j # i
    BY <2>1, <2>4, <1>4, <1>6 DEF ListsOK, OldestFirst
  <2> QED BY <2>2, <2>3, <2>4
<1> QED BY <1>7, <1>9, <1>10, <1>11 DEF ListsOK

OpensLevel(m, order, i) ==
  /\ i = priceToIndex(order.price)
  /\ i \notin DOMAIN price_orders_at_price_
  /\ order_pool' = With(order_pool, m, order)
  /\ price_orders_at_price_' =
       With(price_orders_at_price_, i, [side |-> order.side, price |-> order.price, fifo |-> <<m>>])
  /\ addOrdersAtPrice(order.side, order.price)

\* A new order opens a level, which goes where its price belongs.
LEMMA AddWithLevel ==
  ASSUME ListsOK, NoCollision, NEW m \in MarketOrderIds, NEW order \in Order,
         Joins(m, order), NEW i, OpensLevel(m, order, i)
  PROVE  ListsOK'
<1> DEFINE level == price_orders_at_price_
           side == order.side
           new == [side |-> order.side, price |-> order.price, fifo |-> <<m>>]
<1>0. i \notin DOMAIN level /\ i = priceToIndex(order.price) /\ i \in 0 .. (Levels - 1)
  <2>1. order.price \in Nat
    BY InputAssumption DEF Order
  <2> QED BY <2>1, LevelsAssumption DEF OpensLevel, priceToIndex
<1>1. side \in Sides /\ order.price \in Prices /\ new \in Level
  BY DEF Order, Level
<1>2. /\ DOMAIN level' = DOMAIN level \cup {i} /\ level'[i] = new
      /\ \A j \in DOMAIN level : level'[j] = level[j]
  BY <1>0 DEF OpensLevel, With
<1>3. m \notin DOMAIN order_pool
  BY BoundAssumption DEF MarketOrderIds, Joins
<1>4. /\ DOMAIN order_pool' = DOMAIN order_pool \cup {m} /\ order_pool'[m] = order
      /\ \A n \in DOMAIN order_pool : order_pool'[n] = order_pool[n]
  BY <1>3 DEF OpensLevel, With
<1> DEFINE list == by_price[side]
           PriceOf(j) == level[list[j]].price
<1>5. PICK k \in 1 .. (Len(list) + 1) :
        /\ \A j \in 1 .. (k - 1) : MoreAggressive(side, PriceOf(j), order.price)
        /\ \A j \in k .. Len(list) : ~MoreAggressive(side, PriceOf(j), order.price)
        /\ by_price' = [by_price EXCEPT ![side] = InsertAt(list, k, i)]
  BY <1>0 DEF OpensLevel, addOrdersAtPrice
<1>6. list \in Seq(0 .. (Levels - 1)) /\ Len(list) \in Nat
  BY <1>1 DEF ListsOK, ContainersOK
<1> DEFINE longer == InsertAt(list, k, i)
<1>7. longer \in Seq(0 .. (Levels - 1))
  BY <1>0, <1>6, InsertAtProperties, Zenon
<1>8. /\ k \in 1 .. Len(longer) /\ longer[k] = i
      /\ \A x \in 1 .. Len(longer) : x # k =>
           InsertOrigin(x, k) \in 1 .. Len(list) /\ longer[x] = list[InsertOrigin(x, k)]
      /\ \A j \in 1 .. Len(list) :
           \E x \in 1 .. Len(longer) : x # k /\ InsertOrigin(x, k) = j
  <2>1. longer = InsertAt(list, k, i)
    OBVIOUS
  <2> DEFINE S == 0 .. (Levels - 1)
  <2>2. i \in S
    BY <1>0
  <2>3. list \in Seq(S)
    BY <1>6
  <2>4. k \in 1 .. (Len(list) + 1)
    OBVIOUS
  <2> HIDE DEF list, longer, S
  <2>5. k \in 1 .. Len(longer) /\ longer[k] = i
    BY <2>1, <2>2, <2>3, <2>4, InsertAtOrigin
  <2>6. \A x \in 1 .. Len(longer) : x # k =>
           InsertOrigin(x, k) \in 1 .. Len(list) /\ longer[x] = list[InsertOrigin(x, k)]
    BY <2>1, <2>2, <2>3, <2>4, InsertAtOrigin
  <2>7. \A j \in 1 .. Len(list) :
           \E x \in 1 .. Len(longer) : x # k /\ InsertOrigin(x, k) = j
    BY <2>1, <2>2, <2>3, <2>4, InsertAtOrigin
  <2> QED BY <2>5, <2>6, <2>7
<1>9. \A s \in Sides : by_price'[s] = IF s = side THEN longer ELSE by_price[s]
  BY <1>5 DEF ListsOK, ContainersOK
<1>10. \A j \in 1 .. Len(list) : list[j] \in DOMAIN level /\ list[j] # i /\ level[list[j]].side = side
  BY <1>0, <1>1 DEF ListsOK, SidesHoldLevels
<1> HIDE DEF longer, list
<1>11. ContainersOK'
  <2>1. \A n \in DOMAIN order_pool' : order_pool'[n] \in Order
    BY <1>4 DEF ListsOK, ContainersOK
  <2>2. \A j \in DOMAIN level' : level'[j] \in Level
    BY <1>1, <1>2 DEF ListsOK, ContainersOK
  <2>3. DOMAIN order_pool' \subseteq MarketOrderIds /\ DOMAIN level' \subseteq 0 .. (Levels - 1)
    BY <1>0, <1>2, <1>4 DEF ListsOK, ContainersOK
  <2>4. by_price' \in [Sides -> Seq(0 .. (Levels - 1))]
    <3>1. by_price' = [by_price EXCEPT ![side] = longer]
      BY <1>5 DEF longer
    <3> QED BY <3>1, <1>7 DEF ListsOK, ContainersOK
  <2> QED BY <2>1, <2>2, <2>3, <2>4 DEF ContainersOK, MarketOrderIds, Order, Level, OrderIds, Quantity, Sides
<1>12. LevelsHoldOrders'
  <2>1. ASSUME NEW n \in DOMAIN order_pool'
        PROVE  /\ priceToIndex(order_pool'[n].price) \in DOMAIN level'
               /\ \E x \in 1 .. Len(level'[priceToIndex(order_pool'[n].price)].fifo) :
                    level'[priceToIndex(order_pool'[n].price)].fifo[x] = n
    <3>1. CASE n = m
      <4>1. level'[i].fifo = <<m>> /\ 1 \in 1 .. Len(<<m>>) /\ <<m>>[1] = m
        BY <1>2
      <4> QED BY <3>1, <4>1, <1>0, <1>2, <1>4
    <3>2. CASE n # m
      <4>1. n \in DOMAIN order_pool /\ order_pool'[n] = order_pool[n]
        BY <3>2, <1>4
      <4> QED BY <4>1, <1>2 DEF ListsOK, LevelsHoldOrders
    <3> QED BY <3>1, <3>2
  <2>2. ASSUME NEW j \in DOMAIN level'
        PROVE  /\ priceToIndex(level'[j].price) = j
               /\ level'[j].fifo # << >>
               /\ \A x \in 1 .. Len(level'[j].fifo) :
                    /\ level'[j].fifo[x] \in DOMAIN order_pool'
                    /\ order_pool'[level'[j].fifo[x]].side = level'[j].side
                    /\ order_pool'[level'[j].fifo[x]].price = level'[j].price
    <3>1. CASE j = i
      BY <3>1, <1>0, <1>2, <1>4
    <3>2. CASE j # i
      <4>1. j \in DOMAIN level /\ level'[j] = level[j]
        BY <3>2, <1>2
      <4>2. \A x \in 1 .. Len(level[j].fifo) : level[j].fifo[x] \in DOMAIN order_pool
        BY <4>1 DEF ListsOK, LevelsHoldOrders
      <4>3. \A x \in 1 .. Len(level[j].fifo) : order_pool'[level[j].fifo[x]] = order_pool[level[j].fifo[x]]
        BY <4>2, <1>4
      <4> QED BY <4>1, <4>2, <4>3, <1>4 DEF ListsOK, LevelsHoldOrders
    <3> QED BY <3>1, <3>2
  <2> QED BY <2>1, <2>2 DEF LevelsHoldOrders, priceToIndex
<1>13. ASSUME NEW j \in 1 .. Len(list)
       PROVE  /\ j < k => MoreAggressive(side, level[list[j]].price, order.price)
              /\ j >= k => MoreAggressive(side, order.price, level[list[j]].price)
  <2> DEFINE q == level[list[j]].price
  <2>1. q \in Prices /\ q # order.price
    <3>1. level[list[j]] \in Level /\ priceToIndex(q) = list[j]
      BY <1>10 DEF ListsOK, ContainersOK, LevelsHoldOrders
    <3> QED BY <3>1, <1>0, <1>1, <1>10 DEF Level
  <2>2. q \in Nat /\ order.price \in Nat
    BY <2>1, <1>1, InputAssumption
  <2>3. j < k => MoreAggressive(side, q, order.price)
    BY <1>5, <1>6 DEF list
  <2>4. j >= k => ~MoreAggressive(side, q, order.price)
    BY <1>5, <1>6 DEF list
  <2> HIDE DEF q
  <2>5. j >= k => MoreAggressive(side, order.price, q)
    BY <2>1, <2>2, <2>4 DEF MoreAggressive
  <2> QED BY <2>3, <2>5 DEF q
<1>14. SidesHoldLevels'
  <2>1. ASSUME NEW j \in DOMAIN level'
        PROVE  \E x \in 1 .. Len(by_price'[level'[j].side]) : by_price'[level'[j].side][x] = j
    <3>1. CASE j = i
      <4>1. level'[j].side = side /\ by_price'[side] = longer
        BY <3>1, <1>1, <1>2, <1>9
      <4> QED BY <3>1, <4>1, <1>8
    <3>2. CASE j # i
      <4>1. j \in DOMAIN level /\ level'[j] = level[j]
        BY <3>2, <1>2
      <4>2. PICK y \in 1 .. Len(by_price[level[j].side]) : by_price[level[j].side][y] = j
        BY <4>1 DEF ListsOK, SidesHoldLevels
      <4>3. level[j].side \in Sides
        BY <4>1 DEF ListsOK, ContainersOK, Level
      <4>4. CASE level[j].side = side
        <5>1. y \in 1 .. Len(list) /\ list[y] = j
          BY <4>2, <4>4 DEF list
        <5>2. PICK x \in 1 .. Len(longer) : x # k /\ InsertOrigin(x, k) = y
          BY <5>1, <1>8
        <5>3. longer[x] = j
          BY <5>1, <5>2, <1>8
        <5>4. by_price'[level'[j].side] = longer
          BY <4>1, <4>3, <4>4, <1>9
        <5> QED BY <5>2, <5>3, <5>4
      <4>5. CASE level[j].side # side
        BY <4>1, <4>2, <4>3, <4>5, <1>9
      <4> QED BY <4>4, <4>5
    <3> QED BY <3>1, <3>2
  <2>2. ASSUME NEW x \in 1 .. Len(longer)
        PROVE  longer[x] \in DOMAIN level' /\ level'[longer[x]].side = side
    <3>1. CASE x = k
      BY <3>1, <1>2, <1>8
    <3>2. CASE x # k
      <4>1. longer[x] = list[InsertOrigin(x, k)] /\ InsertOrigin(x, k) \in 1 .. Len(list)
        BY <3>2, <1>8
      <4> QED BY <4>1, <1>2, <1>10
    <3> QED BY <3>1, <3>2
  <2>3. ASSUME NEW s \in Sides, NEW x \in 1 .. Len(by_price'[s])
        PROVE  by_price'[s][x] \in DOMAIN level' /\ level'[by_price'[s][x]].side = s
    <3>1. CASE s = side
      BY <3>1, <2>2, <1>9
    <3>2. CASE s # side
      BY <3>2, <1>2, <1>9 DEF ListsOK, SidesHoldLevels
    <3> QED BY <3>1, <3>2
  <2>4. ASSUME NEW x \in 1 .. Len(longer), NEW y \in 1 .. Len(longer), x < y
        PROVE  MoreAggressive(side, level'[longer[x]].price, level'[longer[y]].price)
    <3>1. CASE x = k
      <4>1. y # k /\ InsertOrigin(y, k) >= k
        BY <2>4, <3>1 DEF InsertOrigin
      <4>2. /\ InsertOrigin(y, k) \in 1 .. Len(list)
            /\ level'[longer[y]] = level[list[InsertOrigin(y, k)]]
        BY <4>1, <1>2, <1>8, <1>10
      <4> QED BY <4>1, <4>2, <3>1, <1>2, <1>8, <1>13
    <3>2. CASE y = k
      <4>1. x # k /\ InsertOrigin(x, k) < k
        BY <2>4, <3>2 DEF InsertOrigin
      <4>2. /\ InsertOrigin(x, k) \in 1 .. Len(list)
            /\ level'[longer[x]] = level[list[InsertOrigin(x, k)]]
        BY <4>1, <1>2, <1>8, <1>10
      <4> QED BY <4>1, <4>2, <3>2, <1>2, <1>8, <1>13
    <3>3. CASE x # k /\ y # k
      <4>1. /\ InsertOrigin(x, k) \in 1 .. Len(list) /\ InsertOrigin(y, k) \in 1 .. Len(list)
            /\ level'[longer[x]] = level[list[InsertOrigin(x, k)]]
            /\ level'[longer[y]] = level[list[InsertOrigin(y, k)]]
        BY <3>3, <1>2, <1>8, <1>10
      <4>2. InsertOrigin(x, k) < InsertOrigin(y, k)
        BY <2>4, <3>3, <1>6 DEF InsertOrigin
      <4>3. \A a, b \in 1 .. Len(list) : a < b =>
              MoreAggressive(side, level[list[a]].price, level[list[b]].price)
        BY <1>1 DEF ListsOK, SidesHoldLevels, list
      <4> QED BY <4>1, <4>2, <4>3
    <3> QED BY <3>1, <3>2, <3>3
  <2>5. ASSUME NEW s \in Sides, NEW x \in 1 .. Len(by_price'[s]), NEW y \in 1 .. Len(by_price'[s]), x < y
        PROVE  MoreAggressive(s, level'[by_price'[s][x]].price, level'[by_price'[s][y]].price)
    <3>1. CASE s = side
      BY <2>5, <3>1, <2>4, <1>9
    <3>2. CASE s # side
      <4>1. by_price'[s] = by_price[s]
        BY <3>2, <1>9
      <4>2. \A z \in 1 .. Len(by_price[s]) : level'[by_price[s][z]] = level[by_price[s][z]]
        BY <1>2 DEF ListsOK, SidesHoldLevels
      <4>3. MoreAggressive(s, level[by_price[s][x]].price, level[by_price[s][y]].price)
        BY <2>5, <4>1 DEF ListsOK, SidesHoldLevels
      <4> QED BY <4>1, <4>2, <4>3
    <3> QED BY <3>1, <3>2
  <2> QED BY <2>1, <2>3, <2>5 DEF SidesHoldLevels, MoreAggressive, Sides
<1>15. OldestFirst'
  <2> SUFFICES ASSUME NEW j \in DOMAIN level', NEW x \in 1 .. Len(level'[j].fifo),
                      NEW y \in 1 .. Len(level'[j].fifo), x < y
               PROVE  /\ level'[j].fifo[x] < level'[j].fifo[y]
                      /\ order_pool'[level'[j].fifo[x]].priority < order_pool'[level'[j].fifo[y]].priority
    BY DEF OldestFirst
  <2>1. j # i
    <3>1. Len(<<m>>) = 1 /\ level'[i].fifo = <<m>>
      BY <1>2
    <3>2. j = i => x \in 1 .. 1 /\ y \in 1 .. 1
      BY <3>1, Zenon
    <3> QED BY <3>2
  <2>2. j \in DOMAIN level /\ level'[j] = level[j]
    BY <2>1, <1>2
  <2>3. \A z \in 1 .. Len(level[j].fifo) : level[j].fifo[z] \in DOMAIN order_pool
    BY <2>2 DEF ListsOK, LevelsHoldOrders
  <2> QED BY <2>2, <2>3, <1>4 DEF ListsOK, OldestFirst
<1> QED BY <1>11, <1>12, <1>14, <1>15 DEF ListsOK

\* addOrder() leaves the containers in agreement.
LEMMA AddOrder ==
  ASSUME ListsOK, NoCollision, NEW m \in MarketOrderIds, NEW order \in Order,
         Joins(m, order), addOrder(m, order)
  PROVE  ListsOK'
<1> DEFINE i == priceToIndex(order.price)
<1>1. AppendsOrder(m, order, i) \/ OpensLevel(m, order, i)
  BY DEF addOrder, enqueue, AppendsOrder, OpensLevel
<1> QED BY <1>1, AddToLevel, AddWithLevel

-----------------------------------------------------------------------------
(* The best order of a side. *)

\* The first order of the best level is before all others of its side, by price and then
\* by time.
LEMMA BestOrder ==
  ASSUME ListsOK, NEW side \in Sides, by_price[side] # << >>,
         NEW m, m = Head(price_orders_at_price_[Head(by_price[side])].fifo)
  PROVE  /\ m \in DOMAIN order_pool /\ order_pool[m].side = side
         /\ \A n \in DOMAIN order_pool : order_pool[n].side = side =>
              \/ MoreAggressive(side, order_pool[m].price, order_pool[n].price)
              \/ order_pool[m].price = order_pool[n].price /\ m <= n
<1> DEFINE level == price_orders_at_price_
           list == by_price[side]
           best == level[list[1]]
<1>1. list \in Seq(0 .. (Levels - 1)) /\ Len(list) \in Nat /\ Len(list) > 0 /\ Head(list) = list[1]
  <2>1. list \in Seq(0 .. (Levels - 1))
    BY DEF ListsOK, ContainersOK
  <2> QED BY <2>1
<1>2. list[1] \in DOMAIN level /\ best.side = side /\ best \in Level
  <2>1. 1 \in 1 .. Len(list)
    BY <1>1
  <2>2. list[1] \in DOMAIN level /\ best.side = side
    BY <2>1 DEF ListsOK, SidesHoldLevels
  <2> QED BY <2>2 DEF ListsOK, ContainersOK
<1>3. best.fifo \in Seq(MarketOrderIds) /\ Len(best.fifo) \in Nat /\ Len(best.fifo) > 0 /\ best.fifo[1] = m
  <2>1. best.fifo \in Seq(MarketOrderIds) /\ best.fifo # << >>
    BY <1>2 DEF Level, ListsOK, LevelsHoldOrders
  <2>2. m = Head(best.fifo)
    BY <1>1
  <2> HIDE DEF best
  <2> QED BY <2>1, <2>2
<1>4. 1 \in 1 .. Len(best.fifo)
  BY <1>3
<1>5. m \in DOMAIN order_pool /\ order_pool[m].side = side /\ order_pool[m].price = best.price
  BY <1>2, <1>3, <1>4, SMTT(30) DEF ListsOK, LevelsHoldOrders
<1>6. ASSUME NEW n \in DOMAIN order_pool, order_pool[n].side = side
      PROVE  \/ MoreAggressive(side, order_pool[m].price, order_pool[n].price)
             \/ order_pool[m].price = order_pool[n].price /\ m <= n
  <2> DEFINE i == priceToIndex(order_pool[n].price)
  <2>1. PICK x \in 1 .. Len(level[i].fifo) : i \in DOMAIN level /\ level[i].fifo[x] = n
    BY DEF ListsOK, LevelsHoldOrders
  <2>2. level[i].side = side /\ level[i].price = order_pool[n].price
    BY <1>6, <2>1 DEF ListsOK, LevelsHoldOrders
  <2>3. PICK y \in 1 .. Len(list) : list[y] = i
    BY <2>1, <2>2 DEF ListsOK, SidesHoldLevels
  <2>4. CASE y = 1
    <3>1. level[i] = best
      BY <2>3, <2>4
    <3>2. m <= n
      <4>1. x \in 1 .. Len(best.fifo) /\ best.fifo[x] = n /\ best.fifo[1] = m
        BY <2>1, <3>1, <1>3
      <4>2. 1 < x => best.fifo[1] < best.fifo[x]
        BY <4>1, <1>2, <1>4 DEF ListsOK, OldestFirst
      <4>3. m \in Nat /\ n \in Nat
        BY <1>5, BoundAssumption, SMTT(30) DEF ListsOK, ContainersOK, MarketOrderIds
      <4> QED BY <4>1, <4>2, <4>3, <1>3, SMTT(30)
    <3> QED BY <3>1, <3>2, <2>2, <1>5
  <2>5. CASE y # 1
    <3>1. 1 \in 1 .. Len(list) /\ 1 < y
      BY <2>5, <1>1
    <3>2. MoreAggressive(side, level[list[1]].price, level[list[y]].price)
      BY <3>1 DEF ListsOK, SidesHoldLevels
    <3> QED BY <3>2, <2>2, <2>3, <1>5
  <2> QED BY <2>4, <2>5
<1> QED BY <1>5, <1>6

\* A side without levels has no orders.
LEMMA NoOrder ==
  ASSUME ListsOK, NEW side \in Sides, by_price[side] = << >>
  PROVE  \A n \in DOMAIN order_pool : order_pool[n].side # side
<1> SUFFICES ASSUME NEW n \in DOMAIN order_pool, order_pool[n].side = side PROVE FALSE
  OBVIOUS
<1> DEFINE i == priceToIndex(order_pool[n].price)
<1>1. i \in DOMAIN price_orders_at_price_ /\ price_orders_at_price_[i].side = side
  BY DEF ListsOK, LevelsHoldOrders
<1>2. \E y \in 1 .. Len(by_price[side]) : by_price[side][y] = i
  BY <1>1 DEF ListsOK, SidesHoldLevels
<1>3. Len(by_price[side]) = 0
  OBVIOUS
<1> QED BY <1>2, <1>3

\* What add() leaves on the other side when its loop ends is out of the order's reach.
LEMMA RestOutOfReach ==
  ASSUME ListsOK, agg.side \in Sides, agg.price \in Nat, ~CanMatch, agg.leaves # 0
  PROVE  \A n \in DOMAIN order_pool : order_pool[n].side = Opposite(agg.side) =>
           OutOfReach(agg.side, agg.price, order_pool[n].price)
<1> SUFFICES ASSUME NEW n \in DOMAIN order_pool, order_pool[n].side = Opposite(agg.side)
             PROVE  OutOfReach(agg.side, agg.price, order_pool[n].price)
  OBVIOUS
<1> DEFINE other == Opposite(agg.side)
           m == Head(price_orders_at_price_[Head(by_price[other])].fifo)
<1>1. other \in Sides
  BY DEF Opposite, Sides
<1>2. by_price[other] # << >>
  BY <1>1, NoOrder
<1>3. OutOfReach(agg.side, agg.price, order_pool[m].price)
  BY <1>2 DEF CanMatch, FirstOpposite
<1> HIDE DEF m, other
<1>4. /\ m \in DOMAIN order_pool
      /\ \/ MoreAggressive(other, order_pool[m].price, order_pool[n].price)
         \/ order_pool[m].price = order_pool[n].price
  <2>1. m = Head(price_orders_at_price_[Head(by_price[other])].fifo)
    BY DEF m
  <2>2. order_pool[n].side = other
    BY DEF other
  <2> QED BY <2>1, <2>2, <1>1, <1>2, BestOrder
<1>5. order_pool[m].price \in Nat /\ order_pool[n].price \in Nat
  BY <1>4, InputAssumption DEF ListsOK, ContainersOK, Order
<1> QED BY <1>3, <1>4, <1>5 DEF OutOfReach, MoreAggressive, Opposite, Sides, other

-----------------------------------------------------------------------------
(* The invariant. *)

\* The types of everything but the containers.
OtherTypesOK ==
  /\ cid_oid_to_order_ \in [Clients \X OrderIds -> 0 .. MaxOrders]
  /\ next_market_order_id_ \in 1 .. (MaxOrders + 1)
  /\ agg \in {Idle} \cup [moid : MarketOrderIds, client : Clients, oid : OrderIds,
                          side : Sides, price : Prices, leaves : Quantity]
  /\ next_order_id \in [Clients -> 1 .. (MaxOrders + 1)]
  /\ ledger \in [Clients \X OrderIds -> LedgerEntry]

\* Market order ids and client order ids are used once, and the order add() works on is
\* newer than all that rest, and cannot be found yet.
IdsAgree ==
  /\ \A m \in DOMAIN order_pool : m < next_market_order_id_
  /\ \A c \in Clients : next_order_id[c] <= next_market_order_id_
  /\ Busy => /\ \A m \in DOMAIN order_pool : m < agg.moid
             /\ agg.moid < next_market_order_id_
             /\ agg.oid < next_order_id[agg.client]
             /\ cid_oid_to_order_[<<agg.client, agg.oid>>] = 0

\* Of an order that was not sent the client knows nothing.
UnsentIsBlank ==
  \A co \in Clients \X OrderIds : co[2] >= next_order_id[co[1]] =>
    /\ ledger[co].sent = 0 /\ ledger[co].open = 0 /\ ledger[co].filled = 0
    /\ ledger[co].canceled = 0 /\ ~ledger[co].rejected

\* An order is canceled at most once: nothing of it is left then.
CanceledIsGone ==
  \A co \in Clients \X OrderIds : ledger[co].canceled # 0 => ledger[co].open = 0

LedgerOK ==
  LedgerMirrorsBook /\ QuantityConserved /\ RejectedIsGone /\ CanceledIsGone /\ UnsentIsBlank

Inv == /\ ListsOK
       /\ OtherTypesOK
       /\ ClientIdsFindOrders
       /\ NoEmptyOrder
       /\ Uncrossed
       /\ FeedMirrorsBook
       /\ IdsAgree
       /\ LedgerOK

LEMMA InvImpliesTypeOK == Inv => TypeOK
<1> SUFFICES ASSUME Inv PROVE TypeOK
  OBVIOUS
<1>1. DOMAIN feed = DOMAIN order_pool
  BY DEF Inv, FeedMirrorsBook
<1>2. \A m \in DOMAIN feed : feed[m] \in [side : Sides, price : Prices, qty : Quantity]
  BY DEF Inv, FeedMirrorsBook, ListsOK, ContainersOK, Order
<1> QED BY <1>1, <1>2 DEF Inv, ListsOK, ContainersOK, OtherTypesOK, TypeOK

LEMMA InitInv == Init => Inv
<1> SUFFICES ASSUME Init PROVE Inv
  OBVIOUS
<1>1. DOMAIN order_pool = {} /\ DOMAIN price_orders_at_price_ = {} /\ ~Busy
  BY DEF Init, Busy, Idle
<1>2. by_price \in [Sides -> Seq(0 .. (Levels - 1))] /\ \A s \in Sides : Len(by_price[s]) = 0
  BY DEF Init
<1>3. ListsOK
  BY <1>1, <1>2 DEF ListsOK, ContainersOK, LevelsHoldOrders, SidesHoldLevels, OldestFirst
<1>4. OtherTypesOK
  BY BoundAssumption DEF Init, OtherTypesOK, LedgerEntry, Quantity, OrderIds
<1>5. ClientIdsFindOrders /\ NoEmptyOrder /\ Uncrossed
  BY <1>1 DEF Init, ClientIdsFindOrders, NoEmptyOrder, Uncrossed
<1>6. FeedMirrorsBook
  BY <1>1 DEF Init, FeedMirrorsBook
<1>7. IdsAgree
  BY <1>1 DEF Init, IdsAgree
<1>8. LedgerOK
  BY <1>1 DEF Init, LedgerOK, LedgerMirrorsBook, QuantityConserved, RejectedIsGone, CanceledIsGone, UnsentIsBlank
<1> QED BY <1>3, <1>4, <1>5, <1>6, <1>7, <1>8 DEF Inv

-----------------------------------------------------------------------------
(* The messages. *)

\* Between the ledgers l and t one order's entry has become e.
OneEntry(l, t, k, e) ==
  /\ t \in [Clients \X OrderIds -> LedgerEntry]
  /\ \A co \in Clients \X OrderIds : co # k => t[co] = l[co]
  /\ t[k] = e

\* A response changes what the client knows of one order.
LEMMA AcceptedLedger ==
  ASSUME NEW l \in [Clients \X OrderIds -> LedgerEntry], NEW c \in Clients, NEW oid \in OrderIds,
         NEW q \in Quantity, NEW k, k = <<c, oid>>, NEW t, t = Accepted(l, c, oid, q)
  PROVE  OneEntry(l, t, k, [l[k] EXCEPT !.sent = q, !.open = q])
<1>1. k \in Clients \X OrderIds
  OBVIOUS
<1>2. l[k] \in LedgerEntry
  BY <1>1
<1>3. t = [l EXCEPT ![k] = [l[k] EXCEPT !.sent = q, !.open = q]]
  <2>1. t = [co \in Clients \X OrderIds |-> IF co = k THEN [l[k] EXCEPT !.sent = q, !.open = q] ELSE l[co]]
    BY <1>1 DEF Accepted
  <2> QED BY <2>1
<1>4. [l[k] EXCEPT !.sent = q, !.open = q] \in LedgerEntry
  BY <1>2 DEF LedgerEntry
<1> QED BY <1>1, <1>3, <1>4 DEF OneEntry

LEMMA FilledLedger ==
  ASSUME NEW l \in [Clients \X OrderIds -> LedgerEntry], NEW c \in Clients, NEW oid \in OrderIds,
         NEW q \in Quantity, NEW r \in Quantity, NEW k, k = <<c, oid>>, NEW t, t = Filled(l, c, oid, q, r)
  PROVE  OneEntry(l, t, k, [l[k] EXCEPT !.filled = @ + q, !.open = r])
<1>1. k \in Clients \X OrderIds
  OBVIOUS
<1>2. l[k] \in LedgerEntry /\ l[k].filled + q \in Quantity
  BY <1>1 DEF LedgerEntry, Quantity
<1>3. t = [l EXCEPT ![k] = [l[k] EXCEPT !.filled = @ + q, !.open = r]]
  <2>1. t = [co \in Clients \X OrderIds |-> IF co = k THEN [l[k] EXCEPT !.filled = @ + q, !.open = r] ELSE l[co]]
    BY <1>1 DEF Filled
  <2> QED BY <2>1
<1>4. [l[k] EXCEPT !.filled = @ + q, !.open = r] \in LedgerEntry
  BY <1>2 DEF LedgerEntry
<1> QED BY <1>1, <1>3, <1>4 DEF OneEntry

LEMMA CanceledLedger ==
  ASSUME NEW l \in [Clients \X OrderIds -> LedgerEntry], NEW c \in Clients, NEW oid \in OrderIds,
         NEW q \in Quantity, NEW k, k = <<c, oid>>, NEW t, t = Canceled(l, c, oid, q)
  PROVE  OneEntry(l, t, k, [l[k] EXCEPT !.open = 0, !.canceled = q])
<1>1. k \in Clients \X OrderIds
  OBVIOUS
<1>2. l[k] \in LedgerEntry /\ 0 \in Quantity
  BY <1>1 DEF Quantity
<1>3. t = [l EXCEPT ![k] = [l[k] EXCEPT !.open = 0, !.canceled = q]]
  <2>1. t = [co \in Clients \X OrderIds |-> IF co = k THEN [l[k] EXCEPT !.open = 0, !.canceled = q] ELSE l[co]]
    BY <1>1 DEF Canceled
  <2> QED BY <2>1
<1>4. [l[k] EXCEPT !.open = 0, !.canceled = q] \in LedgerEntry
  BY <1>2 DEF LedgerEntry
<1> QED BY <1>1, <1>3, <1>4 DEF OneEntry

LEMMA RejectedLedger ==
  ASSUME NEW l \in [Clients \X OrderIds -> LedgerEntry], NEW c \in Clients, NEW oid \in OrderIds,
         NEW k, k = <<c, oid>>, NEW t, t = CancelRejected(l, c, oid)
  PROVE  OneEntry(l, t, k, [l[k] EXCEPT !.rejected = TRUE])
<1>1. k \in Clients \X OrderIds
  OBVIOUS
<1>2. l[k] \in LedgerEntry
  BY <1>1
<1>3. t = [l EXCEPT ![k] = [l[k] EXCEPT !.rejected = TRUE]]
  <2>1. t = [co \in Clients \X OrderIds |-> IF co = k THEN [l[k] EXCEPT !.rejected = TRUE] ELSE l[co]]
    BY <1>1 DEF CancelRejected
  <2> QED BY <2>1
<1>4. [l[k] EXCEPT !.rejected = TRUE] \in LedgerEntry
  BY <1>2 DEF LedgerEntry
<1> QED BY <1>1, <1>3, <1>4 DEF OneEntry


-----------------------------------------------------------------------------
(* An order leaves the book, loses quantity, or joins the book. *)

\* The part of the invariant that is about the book and who watches it.
BookInv == ListsOK /\ ClientIdsFindOrders /\ NoEmptyOrder /\ Uncrossed /\ FeedMirrorsBook

CidsOK == cid_oid_to_order_ \in [Clients \X OrderIds -> 0 .. MaxOrders]

LEMMA LeaveBook ==
  ASSUME BookInv, CidsOK, NEW m \in DOMAIN order_pool, removeOrder(m),
         feed' = UpdateCancel(feed, m)
  PROVE  BookInv' /\ CidsOK'
<1>1. ListsOK'
  BY RemoveOrder DEF BookInv
<1>2. order_pool' = Without(order_pool, m)
  BY DEF removeOrder
<1> DEFINE co == <<order_pool[m].client, order_pool[m].oid>>
<1>3. cid_oid_to_order_' = [cid_oid_to_order_ EXCEPT ![co] = 0]
  BY DEF removeOrder
<1>4. \A n \in DOMAIN order_pool : /\ order_pool[n] \in Order
                                   /\ <<order_pool[n].client, order_pool[n].oid>> \in Clients \X OrderIds
  BY DEF BookInv, ListsOK, ContainersOK, Order
<1>5. /\ DOMAIN order_pool' = DOMAIN order_pool \ {m}
      /\ \A n \in DOMAIN order_pool' : order_pool'[n] = order_pool[n]
  BY <1>2 DEF Without
<1>6. cid_oid_to_order_[co] = m
  BY DEF BookInv, ClientIdsFindOrders
<1>7. co \in Clients \X OrderIds
  BY <1>4
<1>8. CidsOK'
  <2>1. 0 \in 0 .. MaxOrders
    BY BoundAssumption
  <2> HIDE DEF co
  <2> QED BY <2>1, <1>3 DEF CidsOK, OrderIds
<1>9. ClientIdsFindOrders'
  <2>1. ASSUME NEW cp \in Clients \X OrderIds, cid_oid_to_order_'[cp] # 0
        PROVE  /\ cid_oid_to_order_'[cp] \in DOMAIN order_pool'
               /\ order_pool'[cid_oid_to_order_'[cp]].client = cp[1]
               /\ order_pool'[cid_oid_to_order_'[cp]].oid = cp[2]
    <3>1. cp # co /\ cid_oid_to_order_'[cp] = cid_oid_to_order_[cp]
      <4> HIDE DEF co
      <4> QED BY <2>1, <1>3 DEF CidsOK
    <3>2. /\ cid_oid_to_order_[cp] \in DOMAIN order_pool
          /\ order_pool[cid_oid_to_order_[cp]].client = cp[1]
          /\ order_pool[cid_oid_to_order_[cp]].oid = cp[2]
      BY <2>1, <3>1 DEF BookInv, ClientIdsFindOrders
    <3>3. cid_oid_to_order_[cp] # m
      BY <3>1, <3>2
    <3> QED BY <3>1, <3>2, <3>3, <1>5
  <2>2. ASSUME NEW n \in DOMAIN order_pool'
        PROVE  cid_oid_to_order_'[<<order_pool'[n].client, order_pool'[n].oid>>] = n
    <3> DEFINE cp == <<order_pool[n].client, order_pool[n].oid>>
    <3>1. n \in DOMAIN order_pool /\ n # m /\ order_pool'[n] = order_pool[n]
      BY <1>5
    <3>2. cid_oid_to_order_[cp] = n /\ cp \in Clients \X OrderIds
      BY <3>1, <1>4 DEF BookInv, ClientIdsFindOrders
    <3>3. cp # co
      BY <3>1, <3>2, <1>6
    <3>4. cid_oid_to_order_'[cp] = cid_oid_to_order_[cp]
      <4> HIDE DEF co, cp
      <4> QED BY <3>2, <3>3, <1>3 DEF CidsOK
    <3> QED BY <3>1, <3>2, <3>4
  <2> HIDE DEF co
  <2> QED BY <2>1, <2>2 DEF ClientIdsFindOrders, OrderIds
<1>10. NoEmptyOrder' /\ Uncrossed'
  BY <1>5 DEF BookInv, NoEmptyOrder, Uncrossed
<1>11. FeedMirrorsBook'
  <2> HIDE DEF co
  <2> QED BY <1>5 DEF BookInv, FeedMirrorsBook, UpdateCancel, Without
<1> QED BY <1>1, <1>8, <1>9, <1>10, <1>11 DEF BookInv

LEMMA ModifiedRecord ==
  ASSUME NEW side, NEW price, NEW old, NEW qty,
         NEW r, r = [side |-> side, price |-> price, qty |-> old],
         NEW t, t = [r EXCEPT !.qty = qty, !.price = price]
  PROVE  t = [side |-> side, price |-> price, qty |-> qty]
<1>1. r \in [side : {side}, price : {price}, qty : {old, qty}]
  OBVIOUS
<1>2. t \in [side : {side}, price : {price}, qty : {old, qty}] /\ t.qty = qty
  BY <1>1
<1> QED BY <1>2

\* A partial fill changes the quantity of one order.
LosesQuantity(m, q) ==
  /\ order_pool' = [order_pool EXCEPT ![m].qty = q]
  /\ feed' = UpdateModify(feed, m, order_pool[m].price, q)
  /\ UNCHANGED <<cid_oid_to_order_, price_orders_at_price_, by_price>>

LEMMA StayInBook ==
  ASSUME BookInv, CidsOK, NEW m \in DOMAIN order_pool, NEW q \in Quantity, q # 0,
         LosesQuantity(m, q)
  PROVE  BookInv' /\ CidsOK'
<1>1. \A n \in DOMAIN order_pool : order_pool[n] \in Order
  BY DEF BookInv, ListsOK, ContainersOK
<1>2. /\ DOMAIN order_pool' = DOMAIN order_pool
      /\ order_pool'[m].qty = q
      /\ \A n \in DOMAIN order_pool :
           /\ order_pool'[n] \in Order
           /\ order_pool'[n].client = order_pool[n].client
           /\ order_pool'[n].oid = order_pool[n].oid
           /\ order_pool'[n].side = order_pool[n].side
           /\ order_pool'[n].price = order_pool[n].price
           /\ order_pool'[n].priority = order_pool[n].priority
           /\ n # m => order_pool'[n].qty = order_pool[n].qty
  BY <1>1 DEF LosesQuantity, Order, Quantity
<1>3. UNCHANGED <<cid_oid_to_order_, price_orders_at_price_, by_price>>
  BY DEF LosesQuantity
<1>4. ContainersOK'
  BY <1>2, <1>3 DEF BookInv, ListsOK, ContainersOK, MarketOrderIds, Order, Level, OrderIds, Quantity, Sides
<1>5. LevelsHoldOrders'
  <2>1. ASSUME NEW n \in DOMAIN order_pool'
        PROVE  LET i == priceToIndex(order_pool'[n].price)
               IN  /\ i \in DOMAIN price_orders_at_price_'
                   /\ \E k \in 1 .. Len(price_orders_at_price_'[i].fifo) :
                        price_orders_at_price_'[i].fifo[k] = n
    BY <1>2, <1>3 DEF BookInv, ListsOK, LevelsHoldOrders
  <2>2. ASSUME NEW i \in DOMAIN price_orders_at_price_'
        PROVE  LET level == price_orders_at_price_'[i]
               IN  /\ priceToIndex(level.price) = i
                   /\ level.fifo # << >>
                   /\ \A k \in 1 .. Len(level.fifo) :
                        /\ level.fifo[k] \in DOMAIN order_pool'
                        /\ order_pool'[level.fifo[k]].side = level.side
                        /\ order_pool'[level.fifo[k]].price = level.price
    BY <1>2, <1>3 DEF BookInv, ListsOK, LevelsHoldOrders
  <2> QED BY <2>1, <2>2 DEF LevelsHoldOrders, priceToIndex
<1>6. SidesHoldLevels'
  BY <1>3 DEF BookInv, ListsOK, SidesHoldLevels, Sides, MoreAggressive
<1>7. OldestFirst'
  <2> SUFFICES ASSUME NEW i \in DOMAIN price_orders_at_price_,
                      NEW j \in 1 .. Len(price_orders_at_price_[i].fifo),
                      NEW k \in 1 .. Len(price_orders_at_price_[i].fifo), j < k
               PROVE  LET fifo == price_orders_at_price_[i].fifo
                      IN  /\ fifo[j] < fifo[k]
                          /\ order_pool'[fifo[j]].priority < order_pool'[fifo[k]].priority
    BY <1>3 DEF OldestFirst
  <2> DEFINE fifo == price_orders_at_price_[i].fifo
  <2>1. fifo[j] \in DOMAIN order_pool /\ fifo[k] \in DOMAIN order_pool
    BY DEF BookInv, ListsOK, LevelsHoldOrders
  <2>2. /\ fifo[j] < fifo[k]
        /\ order_pool[fifo[j]].priority < order_pool[fifo[k]].priority
    BY DEF BookInv, ListsOK, OldestFirst
  <2> QED BY <2>1, <2>2, <1>2
<1>8. ClientIdsFindOrders'
  BY <1>2, <1>3 DEF BookInv, ClientIdsFindOrders, OrderIds
<1>9. NoEmptyOrder' /\ Uncrossed'
  BY <1>2 DEF BookInv, NoEmptyOrder, Uncrossed, Quantity
<1>10. FeedMirrorsBook'
  <2>1. /\ DOMAIN feed = DOMAIN order_pool
        /\ \A n \in DOMAIN order_pool :
             feed[n] = [side |-> order_pool[n].side, price |-> order_pool[n].price,
                        qty |-> order_pool[n].qty]
    BY DEF BookInv, FeedMirrorsBook
  <2>2. feed' = [feed EXCEPT ![m].qty = q, ![m].price = order_pool[m].price]
    BY DEF LosesQuantity, UpdateModify
  <2>3. \A n \in DOMAIN order_pool :
          feed'[n] = [side |-> order_pool'[n].side, price |-> order_pool'[n].price,
                      qty |-> order_pool'[n].qty]
    <3> SUFFICES ASSUME NEW n \in DOMAIN order_pool
                 PROVE  feed'[n] = [side |-> order_pool'[n].side, price |-> order_pool'[n].price,
                                    qty |-> order_pool'[n].qty]
      OBVIOUS
    <3>1. CASE n # m
      BY <3>1, <2>1, <2>2, <1>2
    <3>2. CASE n = m
      <4>1. feed'[m] = [feed[m] EXCEPT !.qty = q, !.price = order_pool[m].price]
        BY <2>1, <2>2
      <4>2. feed[m] = [side |-> order_pool[m].side, price |-> order_pool[m].price,
                       qty |-> order_pool[m].qty]
        BY <2>1
      <4>3. feed'[m] = [side |-> order_pool[m].side, price |-> order_pool[m].price, qty |-> q]
        <5> DEFINE side == order_pool[m].side
                   price == order_pool[m].price
                   old == order_pool[m].qty
                   r == feed[m]
                   t == feed'[m]
        <5>1. r = [side |-> side, price |-> price, qty |-> old]
          BY <4>2
        <5>2. t = [r EXCEPT !.qty = q, !.price = price]
          BY <4>1
        <5> HIDE DEF side, price, old, r, t
        <5>3. t = [side |-> side, price |-> price, qty |-> q]
          BY <5>1, <5>2, ModifiedRecord, Zenon
        <5> QED BY <5>3 DEF side, price, t
      <4> QED BY <4>3, <3>2, <1>2
    <3> QED BY <3>1, <3>2
  <2>4. feed' = [n \in DOMAIN order_pool |-> feed'[n]]
    BY <2>1, <2>2
  <2> QED BY <2>3, <2>4, <1>2 DEF FeedMirrorsBook
<1>11. CidsOK'
  BY <1>3 DEF CidsOK, OrderIds
<1> QED BY <1>4, <1>5, <1>6, <1>7, <1>8, <1>9, <1>10, <1>11 DEF BookInv, ListsOK

\* The order that add() is left with, as it rests.
Remainder == [client |-> agg.client, oid |-> agg.oid, side |-> agg.side, price |-> agg.price,
              qty |-> agg.leaves, priority |-> getNextPriority(agg.price)]

LEMMA BusyIsTyped ==
  ASSUME OtherTypesOK, Busy
  PROVE  agg \in [moid : MarketOrderIds, client : Clients, oid : OrderIds,
                  side : Sides, price : Prices, leaves : Quantity]
BY DEF OtherTypesOK, Busy, Idle

\* The priority of a new order is a number.
LEMMA NextPriorityType ==
  ASSUME ListsOK, NEW price \in Prices PROVE getNextPriority(price) \in Nat
<1> DEFINE i == priceToIndex(price)
           fifo == price_orders_at_price_[i].fifo
<1>1. CASE i \notin DOMAIN price_orders_at_price_
  BY <1>1 DEF getNextPriority
<1>2. CASE i \in DOMAIN price_orders_at_price_
  <2>1. fifo \in Seq(MarketOrderIds) /\ fifo # << >>
    BY <1>2 DEF ListsOK, ContainersOK, LevelsHoldOrders, Level
  <2>2. Len(fifo) \in 1 .. Len(fifo) /\ Last(fifo) = fifo[Len(fifo)]
    <3> HIDE DEF fifo
    <3> QED BY <2>1 DEF Last
  <2>3. Last(fifo) \in DOMAIN order_pool
    BY <1>2, <2>2 DEF ListsOK, LevelsHoldOrders
  <2>4. order_pool[Last(fifo)].priority \in Nat
    BY <2>3 DEF ListsOK, ContainersOK, Order
  <2> QED BY <2>4, <1>2 DEF getNextPriority
<1> QED BY <1>1, <1>2

\* What is left of an order joins a book that has no order of its price on the other side.
LEMMA RemainderJoins ==
  ASSUME ListsOK, OtherTypesOK, IdsAgree, NoCollision, Busy, ~CanMatch, agg.leaves # 0
  PROVE  Remainder \in Order /\ Joins(agg.moid, Remainder)
<1>1. agg \in [moid : MarketOrderIds, client : Clients, oid : OrderIds,
               side : Sides, price : Prices, leaves : Quantity]
  BY BusyIsTyped
<1>2. getNextPriority(agg.price) \in Nat
  BY <1>1, NextPriorityType
<1>3. Remainder \in Order
  BY <1>1, <1>2 DEF Remainder, Order
<1>4. ASSUME priceToIndex(agg.price) \in DOMAIN price_orders_at_price_
      PROVE  price_orders_at_price_[priceToIndex(agg.price)].side = agg.side
  <2> DEFINE i == priceToIndex(agg.price)
             level == price_orders_at_price_[i]
             n == level.fifo[1]
  <2>1. level \in Level /\ priceToIndex(level.price) = i /\ level.fifo # << >>
    BY <1>4 DEF ListsOK, ContainersOK, LevelsHoldOrders
  <2>2. level.price = agg.price
    BY <2>1, <1>1 DEF NoCollision, Level
  <2>3. 1 \in 1 .. Len(level.fifo)
    <3>1. level.fifo \in Seq(MarketOrderIds)
      BY <2>1 DEF Level
    <3> QED BY <3>1, <2>1
  <2>4. n \in DOMAIN order_pool /\ order_pool[n].side = level.side /\ order_pool[n].price = level.price
    BY <2>3, <1>4 DEF ListsOK, LevelsHoldOrders
  <2>5. agg.price \in Nat
    BY <1>1, InputAssumption
  <2>6. order_pool[n].side # Opposite(agg.side)
    <3> SUFFICES ASSUME order_pool[n].side = Opposite(agg.side) PROVE FALSE
      OBVIOUS
    <3>1. agg.side \in Sides
      BY <1>1
    <3>2. OutOfReach(agg.side, agg.price, order_pool[n].price)
      BY <3>1, <2>4, <2>5, RestOutOfReach
    <3> QED BY <3>2, <2>2, <2>4, <2>5 DEF OutOfReach
  <2>7. level.side \in Sides /\ agg.side \in Sides
    BY <2>1, <1>1 DEF Level
  <2> QED BY <2>4, <2>6, <2>7 DEF Opposite, Sides
<1>5. \A n \in DOMAIN order_pool : n < agg.moid
  BY DEF IdsAgree
<1>6. /\ Remainder.price = agg.price /\ Remainder.side = agg.side
      /\ Remainder.priority = getNextPriority(agg.price)
  BY DEF Remainder
<1> QED BY <1>3, <1>4, <1>5, <1>6 DEF Joins

LEMMA JoinBook ==
  ASSUME BookInv, OtherTypesOK, IdsAgree, NoCollision, Busy, ~CanMatch, agg.leaves # 0,
         addOrder(agg.moid, Remainder), feed' = UpdateAdd(feed, agg.moid, Remainder)
  PROVE  BookInv' /\ CidsOK'
<1> DEFINE m == agg.moid
           r == Remainder
           co == <<agg.client, agg.oid>>
<1>1. agg \in [moid : MarketOrderIds, client : Clients, oid : OrderIds,
               side : Sides, price : Prices, leaves : Quantity]
  BY BusyIsTyped
<1>2. r \in Order /\ Joins(m, r) /\ m \in MarketOrderIds
  BY <1>1, RemainderJoins DEF BookInv
<1>3. ListsOK'
  <2> HIDE DEF m, r
  <2> QED BY <1>2, AddOrder DEF BookInv, m, r
<1>4. /\ r.client = agg.client /\ r.oid = agg.oid /\ r.side = agg.side
      /\ r.price = agg.price /\ r.qty = agg.leaves
  BY DEF Remainder
<1>5. order_pool' = With(order_pool, m, r)
  BY DEF addOrder
<1>6. cid_oid_to_order_' = [cid_oid_to_order_ EXCEPT ![co] = m]
  BY <1>4 DEF addOrder
<1>7. co \in Clients \X OrderIds /\ cid_oid_to_order_[co] = 0
  BY <1>1 DEF IdsAgree
<1>8. m \notin DOMAIN order_pool /\ m # 0 /\ m \in 0 .. MaxOrders
  <2>1. m \in Int /\ \A n \in DOMAIN order_pool : n < m
    BY <1>2 DEF Joins, MarketOrderIds
  <2> QED BY <2>1, <1>2, BoundAssumption DEF MarketOrderIds
<1>9. /\ DOMAIN order_pool' = DOMAIN order_pool \cup {m}
      /\ order_pool'[m] = r
      /\ \A n \in DOMAIN order_pool : order_pool'[n] = order_pool[n]
  <2> HIDE DEF m, r
  <2> QED BY <1>5, <1>8 DEF With
<1>10. \A n \in DOMAIN order_pool :
         /\ order_pool[n] \in Order
         /\ <<order_pool[n].client, order_pool[n].oid>> \in Clients \X OrderIds
         /\ cid_oid_to_order_[<<order_pool[n].client, order_pool[n].oid>>] = n
  BY DEF BookInv, ListsOK, ContainersOK, Order, ClientIdsFindOrders
<1> DEFINE reach == \A n \in DOMAIN order_pool : order_pool[n].side = Opposite(agg.side) =>
                       OutOfReach(agg.side, agg.price, order_pool[n].price)
<1>11. reach
  <2>1. agg.side \in Sides /\ agg.price \in Nat
    BY <1>1, InputAssumption
  <2> QED BY <2>1, RestOutOfReach DEF BookInv
<1> HIDE DEF m, r, co, reach
<1>12. CidsOK'
  BY <1>6, <1>8 DEF OtherTypesOK, CidsOK, OrderIds
<1>13. /\ cid_oid_to_order_'[co] = m
       /\ \A cp \in Clients \X OrderIds : cp # co => cid_oid_to_order_'[cp] = cid_oid_to_order_[cp]
  BY <1>6, <1>7 DEF OtherTypesOK
<1>14. ClientIdsFindOrders'
  <2>1. ASSUME NEW cp \in Clients \X OrderIds, cid_oid_to_order_'[cp] # 0
        PROVE  /\ cid_oid_to_order_'[cp] \in DOMAIN order_pool'
               /\ order_pool'[cid_oid_to_order_'[cp]].client = cp[1]
               /\ order_pool'[cid_oid_to_order_'[cp]].oid = cp[2]
    <3>1. CASE cp = co
      BY <3>1, <1>13, <1>9, <1>4 DEF co
    <3>2. CASE cp # co
      <4>1. cid_oid_to_order_'[cp] = cid_oid_to_order_[cp]
        BY <3>2, <1>13
      <4>2. /\ cid_oid_to_order_[cp] \in DOMAIN order_pool
            /\ order_pool[cid_oid_to_order_[cp]].client = cp[1]
            /\ order_pool[cid_oid_to_order_[cp]].oid = cp[2]
        BY <2>1, <4>1 DEF BookInv, ClientIdsFindOrders
      <4> QED BY <4>1, <4>2, <1>9
    <3> QED BY <3>1, <3>2
  <2>2. ASSUME NEW n \in DOMAIN order_pool'
        PROVE  cid_oid_to_order_'[<<order_pool'[n].client, order_pool'[n].oid>>] = n
    <3>1. CASE n = m
      BY <3>1, <1>9, <1>4, <1>13 DEF co
    <3>2. CASE n # m
      <4>1. n \in DOMAIN order_pool /\ order_pool'[n] = order_pool[n]
        BY <3>2, <1>9
      <4> DEFINE cp == <<order_pool[n].client, order_pool[n].oid>>
      <4>2. cp \in Clients \X OrderIds /\ cid_oid_to_order_[cp] = n
        BY <4>1, <1>10
      <4>3. n # 0
        BY <4>1 DEF BookInv, ListsOK, ContainersOK, MarketOrderIds
      <4>4. cp # co
        BY <4>2, <4>3, <1>7
      <4>5. cid_oid_to_order_'[cp] = n
        <5> HIDE DEF cp
        <5> QED BY <4>2, <4>4, <1>13
      <4> QED BY <4>1, <4>5
    <3> QED BY <3>1, <3>2
  <2> QED BY <2>1, <2>2 DEF ClientIdsFindOrders, OrderIds
<1>15. NoEmptyOrder'
  <2>1. r.qty > 0
    BY <1>1, <1>4 DEF Quantity
  <2> QED BY <2>1, <1>9 DEF BookInv, NoEmptyOrder
<1>16. Uncrossed'
  <2> SUFFICES ASSUME NEW x \in DOMAIN order_pool', NEW y \in DOMAIN order_pool',
                      order_pool'[x].side = "BUY", order_pool'[y].side = "SELL"
               PROVE  order_pool'[x].price < order_pool'[y].price
    BY DEF Uncrossed
  <2>1. agg.price \in Nat /\ agg.side \in Sides
    BY <1>1, InputAssumption
  <2>2. CASE x = m
    <3>1. agg.side = "BUY" /\ order_pool'[x].price = agg.price
      BY <2>2, <1>9, <1>4
    <3>2. y \in DOMAIN order_pool /\ order_pool'[y] = order_pool[y]
      BY <2>2, <1>9
    <3>3. OutOfReach("BUY", agg.price, order_pool[y].price)
      BY <3>1, <3>2, <1>11 DEF reach, Opposite
    <3> QED BY <3>1, <3>2, <3>3 DEF OutOfReach
  <2>3. CASE y = m
    <3>1. agg.side = "SELL" /\ order_pool'[y].price = agg.price
      BY <2>3, <1>9, <1>4
    <3>2. x \in DOMAIN order_pool /\ order_pool'[x] = order_pool[x]
      BY <2>3, <1>9
    <3>3. OutOfReach("SELL", agg.price, order_pool[x].price)
      BY <3>1, <3>2, <1>11 DEF reach, Opposite
    <3>4. order_pool[x].price \in Nat
      BY <3>2, <1>10, InputAssumption DEF Order
    <3> QED BY <3>1, <3>2, <3>3, <3>4, <2>1 DEF OutOfReach
  <2>4. CASE x # m /\ y # m
    BY <2>4, <1>9 DEF BookInv, Uncrossed
  <2> QED BY <2>2, <2>3, <2>4
<1>17. FeedMirrorsBook'
  <2>1. feed' = With(feed, m, [side |-> r.side, price |-> r.price, qty |-> r.qty])
    BY DEF UpdateAdd, m, r
  <2>2. feed = [n \in DOMAIN order_pool |->
                  [side |-> order_pool[n].side, price |-> order_pool[n].price,
                   qty |-> order_pool[n].qty]]
    BY DEF BookInv, FeedMirrorsBook
  <2>3. DOMAIN feed' = DOMAIN order_pool' /\ feed' = [n \in DOMAIN feed' |-> feed'[n]]
    BY <2>1, <2>2, <1>9 DEF With
  <2>4. ASSUME NEW n \in DOMAIN order_pool'
        PROVE  feed'[n] = [side |-> order_pool'[n].side, price |-> order_pool'[n].price,
                           qty |-> order_pool'[n].qty]
    BY <2>1, <2>2, <1>8, <1>9 DEF With
  <2> QED BY <2>3, <2>4 DEF FeedMirrorsBook
<1> QED BY <1>3, <1>12, <1>14, <1>15, <1>16, <1>17 DEF BookInv

-----------------------------------------------------------------------------
(* The ledger, order by order. *)

\* What can still trade of an order.
Tradable(co) == IF Busy /\ co = <<agg.client, agg.oid>> THEN agg.leaves
                ELSE IF cid_oid_to_order_[co] # 0 THEN order_pool[cid_oid_to_order_[co]].qty
                ELSE 0

EntryOK(co) ==
  /\ ledger[co].open = Tradable(co)
  /\ ledger[co].sent = ledger[co].open + ledger[co].filled + ledger[co].canceled
  /\ ledger[co].rejected => ledger[co].open = 0
  /\ ledger[co].canceled # 0 => ledger[co].open = 0
  /\ co[2] >= next_order_id[co[1]] =>
       /\ ledger[co].sent = 0 /\ ledger[co].open = 0 /\ ledger[co].filled = 0
       /\ ledger[co].canceled = 0 /\ ~ledger[co].rejected

LEMMA LedgerByEntry == LedgerOK <=> \A co \in Clients \X OrderIds : EntryOK(co)
BY DEF LedgerOK, LedgerMirrorsBook, QuantityConserved, RejectedIsGone, CanceledIsGone, UnsentIsBlank,
       EntryOK, Tradable

LEMMA LedgerByEntryPrime ==
  ASSUME \A co \in Clients \X OrderIds : EntryOK(co)' PROVE LedgerOK'
BY DEF LedgerOK, LedgerMirrorsBook, QuantityConserved, RejectedIsGone, CanceledIsGone, UnsentIsBlank,
       EntryOK, Tradable, Busy, OrderIds

\* An order that was not sent is not on the book.
LEMMA UnsentIsNotFound ==
  ASSUME Inv, ~Busy, NEW co \in Clients \X OrderIds, co[2] >= next_order_id[co[1]]
  PROVE  cid_oid_to_order_[co] = 0
<1>1. EntryOK(co)
  BY LedgerByEntry DEF Inv
<1>2. Tradable(co) = 0
  BY <1>1 DEF EntryOK
<1>3. cid_oid_to_order_[co] # 0 => /\ cid_oid_to_order_[co] \in DOMAIN order_pool
                                   /\ order_pool[cid_oid_to_order_[co]].qty > 0
  BY DEF Inv, ClientIdsFindOrders, NoEmptyOrder
<1> QED BY <1>2, <1>3 DEF Tradable

LEMMA SameBook ==
  ASSUME BookInv, UNCHANGED <<book, feed>> PROVE BookInv'
<1>1. /\ UNCHANGED order_pool /\ UNCHANGED cid_oid_to_order_ /\ UNCHANGED price_orders_at_price_
      /\ UNCHANGED by_price /\ UNCHANGED feed
  BY DEF book
<1>2. ContainersOK'
  BY <1>1 DEF BookInv, ListsOK, ContainersOK, MarketOrderIds, Order, Level, OrderIds, Quantity, Sides
<1>3. LevelsHoldOrders'
  BY <1>1 DEF BookInv, ListsOK, LevelsHoldOrders, priceToIndex
<1>4. SidesHoldLevels'
  BY <1>1 DEF BookInv, ListsOK, SidesHoldLevels, Sides, MoreAggressive
<1>5. OldestFirst'
  BY <1>1 DEF BookInv, ListsOK, OldestFirst
<1>6. ClientIdsFindOrders' /\ NoEmptyOrder' /\ Uncrossed' /\ FeedMirrorsBook'
  BY <1>1 DEF BookInv, ClientIdsFindOrders, OrderIds, NoEmptyOrder, Uncrossed, FeedMirrorsBook
<1> QED BY <1>2, <1>3, <1>4, <1>5, <1>6 DEF BookInv, ListsOK

-----------------------------------------------------------------------------
(* The steps. *)

LEMMA InvByPart ==
  Inv <=> BookInv /\ OtherTypesOK /\ IdsAgree /\ LedgerOK
BY DEF Inv, BookInv

LEMMA NewOrderInv ==
  ASSUME Inv, NEW c \in Clients, NEW side \in Sides, NEW price \in Prices, NEW qty \in Qtys,
         NewOrder(c, side, price, qty)
  PROVE  Inv'
<1> DEFINE oid == next_order_id[c]
           new == <<c, oid>>
<1>1. BookInv'
  BY SameBook, InvByPart DEF NewOrder
<1>2. /\ UNCHANGED cid_oid_to_order_ /\ UNCHANGED order_pool
      /\ next_market_order_id_' = next_market_order_id_ + 1
      /\ next_order_id' = [next_order_id EXCEPT ![c] = @ + 1]
      /\ ledger' = Accepted(ledger, c, oid, qty)
      /\ agg' = [moid |-> next_market_order_id_, client |-> c, oid |-> oid,
                 side |-> side, price |-> price, leaves |-> qty]
      /\ next_market_order_id_ <= MaxOrders /\ ~Busy
  BY DEF NewOrder, book
<1>3. /\ cid_oid_to_order_ \in [Clients \X OrderIds -> 0 .. MaxOrders]
      /\ next_market_order_id_ \in 1 .. (MaxOrders + 1)
      /\ next_order_id \in [Clients -> 1 .. (MaxOrders + 1)]
      /\ ledger \in [Clients \X OrderIds -> LedgerEntry]
  BY DEF Inv, OtherTypesOK
<1>4. /\ oid \in OrderIds /\ oid <= next_market_order_id_ /\ next_market_order_id_ \in MarketOrderIds
      /\ qty \in Quantity
  <2>1. oid <= next_market_order_id_ /\ oid \in 1 .. (MaxOrders + 1)
    BY <1>3 DEF Inv, IdsAgree
  <2> HIDE DEF oid
  <2> QED BY <2>1, <1>2, <1>3, BoundAssumption, InputAssumption DEF OrderIds, MarketOrderIds, Quantity
<1>5. new \in Clients \X OrderIds /\ cid_oid_to_order_[new] = 0
  <2>1. new \in Clients \X OrderIds
    BY <1>4
  <2>2. new[2] >= next_order_id[new[1]]
    BY <1>3
  <2> QED BY <2>1, <2>2, <1>2, UnsentIsNotFound
<1>6. /\ ledger' \in [Clients \X OrderIds -> LedgerEntry]
      /\ \A co \in Clients \X OrderIds : co # new => ledger'[co] = ledger[co]
      /\ ledger'[new] = [ledger[new] EXCEPT !.sent = qty, !.open = qty]
  <2> HIDE DEF oid
  <2>1. ledger' = Accepted(ledger, c, oid, qty) /\ ledger \in [Clients \X OrderIds -> LedgerEntry]
    BY <1>2, <1>3
  <2>2. oid \in OrderIds /\ qty \in Quantity
    BY <1>4
  <2>3. new = <<c, oid>>
    OBVIOUS
  <2> HIDE DEF new
  <2>4. OneEntry(ledger, ledger', new, [ledger[new] EXCEPT !.sent = qty, !.open = qty])
    BY <2>1, <2>2, <2>3, AcceptedLedger, Zenon
  <2> QED BY <2>4 DEF OneEntry
<1>7. /\ next_order_id' \in [Clients -> 1 .. (MaxOrders + 1)]
      /\ next_order_id'[c] = oid + 1
      /\ \A d \in Clients : d # c => next_order_id'[d] = next_order_id[d]
  BY <1>2, <1>3, <1>4, BoundAssumption DEF OrderIds
<1>8. /\ agg' \in [moid : MarketOrderIds, client : Clients, oid : OrderIds,
                   side : Sides, price : Prices, leaves : Quantity]
      /\ agg'.moid = next_market_order_id_ /\ agg'.client = c /\ agg'.oid = oid /\ agg'.leaves = qty
  <2> HIDE DEF oid
  <2> QED BY <1>2, <1>4
<1>9. Busy'
  BY <1>8 DEF Busy, MarketOrderIds
<1> HIDE DEF oid
<1>10. OtherTypesOK'
  <2>1. next_market_order_id_' \in 1 .. (MaxOrders + 1)
    BY <1>2, <1>3, BoundAssumption
  <2> QED BY <2>1, <1>2, <1>3, <1>6, <1>7, <1>8
       DEF OtherTypesOK, OrderIds, MarketOrderIds, Sides, Quantity, LedgerEntry
<1>11. IdsAgree'
  <2>1. \A m \in DOMAIN order_pool : m < next_market_order_id_ /\ m \in Int
    BY DEF Inv, IdsAgree, ListsOK, ContainersOK, MarketOrderIds
  <2>2. \A d \in Clients : next_order_id'[d] <= next_market_order_id_'
    <3>1. \A d \in Clients : next_order_id[d] <= next_market_order_id_ /\ next_order_id[d] \in Int
      BY <1>3 DEF Inv, IdsAgree
    <3> QED BY <3>1, <1>2, <1>3, <1>4, <1>7 DEF OrderIds
  <2>3. agg'.oid < next_order_id'[agg'.client]
    BY <1>4, <1>7, <1>8 DEF OrderIds
  <2>4. cid_oid_to_order_'[<<agg'.client, agg'.oid>>] = 0
    BY <1>2, <1>5, <1>8 DEF new
  <2> QED BY <2>1, <2>2, <2>3, <2>4, <1>2, <1>3, <1>8 DEF IdsAgree
<1>12. LedgerOK'
  <2>1. ASSUME NEW co \in Clients \X OrderIds PROVE EntryOK(co)'
    <3>1. EntryOK(co)
      BY LedgerByEntry DEF Inv
    <3>2. co = new <=> co = <<agg'.client, agg'.oid>>
      BY <1>8 DEF new
    <3>3. CASE co = new
      <4>1. Tradable(co)' = qty
        BY <3>2, <3>3, <1>8, <1>9 DEF Tradable, Busy
      <4>2. /\ co[1] = c /\ co[2] = oid
        BY <3>3 DEF new
      <4>3. /\ ledger[co].filled = 0 /\ ledger[co].canceled = 0 /\ ~ledger[co].rejected
        BY <3>1, <4>2, <1>3 DEF EntryOK, oid
      <4>4. ledger'[co] = [ledger[co] EXCEPT !.sent = qty, !.open = qty] /\ ledger[co] \in LedgerEntry
        BY <1>6, <1>3, <3>3
      <4>5. /\ ledger'[co].sent = qty /\ ledger'[co].open = qty
            /\ ledger'[co].filled = 0 /\ ledger'[co].canceled = 0 /\ ~ledger'[co].rejected
        BY <4>3, <4>4 DEF LedgerEntry
      <4>6. ~(co[2] >= next_order_id'[co[1]])
        BY <4>2, <1>4, <1>7 DEF OrderIds
      <4> QED BY <4>1, <4>5, <4>6, <1>4 DEF EntryOK, Quantity
    <3>4. CASE co # new
      <4>1. Tradable(co)' = Tradable(co)
        BY <3>2, <3>4, <1>2 DEF Tradable, Busy
      <4>2. ledger'[co] = ledger[co]
        BY <1>6, <3>4
      <4>3. co[2] >= next_order_id'[co[1]] => co[2] >= next_order_id[co[1]]
        <5>1. co[1] \in Clients /\ co[2] \in Int /\ next_order_id[co[1]] \in Int
          BY <1>3 DEF OrderIds
        <5>2. co[1] = c => next_order_id'[co[1]] = next_order_id[co[1]] + 1
          BY <1>7 DEF oid
        <5> QED BY <5>1, <5>2, <1>7
      <4> QED BY <3>1, <4>1, <4>2, <4>3 DEF EntryOK
    <3> QED BY <3>3, <3>4
  <2> QED BY <2>1, LedgerByEntryPrime
<1> QED BY <1>1, <1>10, <1>11, <1>12 DEF Inv, BookInv

\* What removeOrder() means to the clients: the order is not found any more, the others are.
LEMMA OthersStay ==
  ASSUME BookInv, CidsOK, NEW m \in DOMAIN order_pool, removeOrder(m),
         NEW k, k = <<order_pool[m].client, order_pool[m].oid>>
  PROVE  /\ k \in Clients \X OrderIds /\ cid_oid_to_order_'[k] = 0
         /\ \A co \in Clients \X OrderIds : co # k =>
              /\ cid_oid_to_order_'[co] = cid_oid_to_order_[co]
              /\ cid_oid_to_order_[co] # 0 =>
                   order_pool'[cid_oid_to_order_[co]] = order_pool[cid_oid_to_order_[co]]
<1>1. cid_oid_to_order_' = [cid_oid_to_order_ EXCEPT ![k] = 0] /\ order_pool' = Without(order_pool, m)
  BY DEF removeOrder
<1>2. k \in Clients \X OrderIds
  BY DEF BookInv, ListsOK, ContainersOK, Order
<1>3. ASSUME NEW co \in Clients \X OrderIds, co # k, cid_oid_to_order_[co] # 0
      PROVE  order_pool'[cid_oid_to_order_[co]] = order_pool[cid_oid_to_order_[co]]
  <2>1. /\ cid_oid_to_order_[co] \in DOMAIN order_pool
        /\ order_pool[cid_oid_to_order_[co]].client = co[1]
        /\ order_pool[cid_oid_to_order_[co]].oid = co[2]
    BY <1>3 DEF BookInv, ClientIdsFindOrders
  <2>2. cid_oid_to_order_[co] # m
    BY <2>1, <1>3
  <2> QED BY <2>1, <2>2, <1>1 DEF Without
<1>4. cid_oid_to_order_'[k] = 0
  BY <1>1, <1>2 DEF CidsOK
<1>5. ASSUME NEW co \in Clients \X OrderIds, co # k
      PROVE  cid_oid_to_order_'[co] = cid_oid_to_order_[co]
  BY <1>1, <1>5 DEF CidsOK
<1> QED BY <1>2, <1>3, <1>4, <1>5

LEMMA CancelOrderInv ==
  ASSUME Inv, NEW c \in Clients, NEW oid \in OrderIds, CancelOrder(c, oid) PROVE Inv'
<1> DEFINE k == <<c, oid>>
           m == cid_oid_to_order_[k]
<1>1. /\ UNCHANGED next_market_order_id_ /\ UNCHANGED agg /\ UNCHANGED next_order_id
      /\ ~Busy /\ ~Busy' /\ oid < next_order_id[c]
  BY DEF CancelOrder, Busy
<1>2. /\ BookInv /\ CidsOK /\ ledger \in [Clients \X OrderIds -> LedgerEntry]
      /\ next_market_order_id_ \in 1 .. (MaxOrders + 1)
      /\ next_order_id \in [Clients -> 1 .. (MaxOrders + 1)]
  BY DEF Inv, BookInv, OtherTypesOK, CidsOK
<1>3. k \in Clients \X OrderIds /\ k[1] = c /\ k[2] = oid
  OBVIOUS
<1>4. \A co \in Clients \X OrderIds : EntryOK(co)
  BY LedgerByEntry DEF Inv
<1>5. ~(k[2] >= next_order_id'[k[1]])
  BY <1>1, <1>2, <1>3 DEF OrderIds
<1>6. CASE m = 0 /\ ledger' = CancelRejected(ledger, c, oid) /\ UNCHANGED <<book, feed>>
  <2>1. BookInv'
    BY <1>2, <1>6, SameBook
  <2>2. UNCHANGED order_pool /\ UNCHANGED cid_oid_to_order_
    BY <1>6 DEF book
  <2>3. OneEntry(ledger, ledger', k, [ledger[k] EXCEPT !.rejected = TRUE])
    <3>1. k = <<c, oid>>
      OBVIOUS
    <3>2. ledger' = CancelRejected(ledger, c, oid)
      BY <1>6
    <3> HIDE DEF k, m
    <3> QED BY <3>1, <3>2, <1>2, RejectedLedger, Zenon
  <2>4. OtherTypesOK'
    BY <2>2, <2>3, <1>1
       DEF Inv, OtherTypesOK, OneEntry, OrderIds, MarketOrderIds, Sides, Quantity, LedgerEntry
  <2>5. IdsAgree'
    BY <2>2, <1>1 DEF Inv, IdsAgree
  <2>6. ASSUME NEW co \in Clients \X OrderIds PROVE EntryOK(co)'
    <3>1. Tradable(co)' = Tradable(co) /\ EntryOK(co)
      BY <2>2, <1>1, <1>4 DEF Tradable
    <3>2. CASE co # k
      <4>1. ledger'[co] = ledger[co]
        BY <3>2, <2>3 DEF OneEntry
      <4> QED BY <3>1, <4>1, <1>1 DEF EntryOK
    <3>3. CASE co = k
      <4>1. Tradable(co) = 0
        BY <3>3, <1>1, <1>6 DEF Tradable
      <4>2. ledger'[co] = [ledger[co] EXCEPT !.rejected = TRUE] /\ ledger[co] \in LedgerEntry
        BY <3>3, <2>3, <1>2 DEF OneEntry
      <4>3. /\ ledger'[co].sent = ledger[co].sent /\ ledger'[co].open = ledger[co].open
            /\ ledger'[co].filled = ledger[co].filled /\ ledger'[co].canceled = ledger[co].canceled
        BY <4>2 DEF LedgerEntry
      <4> QED BY <3>1, <3>3, <4>1, <4>3, <1>5 DEF EntryOK
    <3> QED BY <3>2, <3>3
  <2> QED BY <2>1, <2>4, <2>5, <2>6, LedgerByEntryPrime DEF Inv, BookInv
<1>7. CASE /\ m # 0 /\ removeOrder(m) /\ feed' = UpdateCancel(feed, m)
           /\ ledger' = Canceled(ledger, c, oid, order_pool[m].qty)
  <2>1. m \in DOMAIN order_pool /\ order_pool[m].client = c /\ order_pool[m].oid = oid
    BY <1>3, <1>7 DEF Inv, ClientIdsFindOrders
  <2> HIDE DEF m
  <2>2. BookInv' /\ CidsOK'
    BY <2>1, <1>2, <1>7, LeaveBook
  <2>3. order_pool[m] \in Order /\ order_pool[m].qty \in Quantity /\ order_pool[m].qty > 0
    BY <2>1 DEF Inv, ListsOK, ContainersOK, Order, NoEmptyOrder
  <2>4. OneEntry(ledger, ledger', k, [ledger[k] EXCEPT !.open = 0, !.canceled = order_pool[m].qty])
    <3>1. k = <<c, oid>>
      OBVIOUS
    <3>2. ledger' = Canceled(ledger, c, oid, order_pool[m].qty)
      BY <1>7
    <3> HIDE DEF k
    <3> QED BY <3>1, <3>2, <2>3, <1>2, CanceledLedger, Zenon
  <2>5. /\ cid_oid_to_order_'[k] = 0
        /\ \A co \in Clients \X OrderIds : co # k =>
              /\ cid_oid_to_order_'[co] = cid_oid_to_order_[co]
              /\ cid_oid_to_order_[co] # 0 =>
                   order_pool'[cid_oid_to_order_[co]] = order_pool[cid_oid_to_order_[co]]
    <3>1. k = <<order_pool[m].client, order_pool[m].oid>> /\ removeOrder(m)
      BY <2>1, <1>7
    <3> HIDE DEF k
    <3> QED BY <3>1, <2>1, <1>2, OthersStay
  <2>6. OtherTypesOK'
    BY <2>2, <2>4, <1>1
       DEF Inv, OtherTypesOK, CidsOK, OneEntry, OrderIds, MarketOrderIds, Sides, Quantity, LedgerEntry
  <2>7. IdsAgree'
    <3>1. DOMAIN order_pool' \subseteq DOMAIN order_pool
      BY <1>7 DEF removeOrder, Without
    <3> QED BY <3>1, <1>1 DEF Inv, IdsAgree
  <2>8. ASSUME NEW co \in Clients \X OrderIds PROVE EntryOK(co)'
    <3>1. EntryOK(co)
      BY <1>4
    <3>2. CASE co # k
      <4>1. ledger'[co] = ledger[co]
        BY <3>2, <2>4 DEF OneEntry
      <4>2. Tradable(co)' = Tradable(co)
        BY <3>2, <2>5, <1>1 DEF Tradable
      <4> QED BY <3>1, <4>1, <4>2, <1>1 DEF EntryOK
    <3>3. CASE co = k
      <4>1. Tradable(co)' = 0
        BY <3>3, <2>5, <1>1 DEF Tradable
      <4>2. Tradable(co) = order_pool[m].qty
        BY <3>3, <1>1, <1>7 DEF Tradable, m
      <4>3. /\ ledger'[co] = [ledger[co] EXCEPT !.open = 0, !.canceled = order_pool[m].qty]
            /\ ledger[co] \in LedgerEntry
        BY <3>3, <2>4, <1>2 DEF OneEntry
      <4>4. /\ ledger'[co].sent = ledger[co].sent /\ ledger'[co].open = 0
            /\ ledger'[co].filled = ledger[co].filled /\ ledger'[co].canceled = order_pool[m].qty
            /\ ledger[co].filled \in Nat /\ order_pool[m].qty \in Nat
        BY <4>3, <2>3 DEF LedgerEntry, Quantity
      <4>5. ledger[co].canceled = 0 /\ ledger[co].open = order_pool[m].qty
        BY <3>1, <4>2, <2>3 DEF EntryOK
      <4>6. ledger[co].sent = order_pool[m].qty + ledger[co].filled
        BY <3>1, <4>4, <4>5 DEF EntryOK
      <4> QED BY <3>3, <4>1, <4>4, <4>6, <1>5 DEF EntryOK
    <3> QED BY <3>2, <3>3
  <2> QED BY <2>2, <2>6, <2>7, <2>8, LedgerByEntryPrime DEF Inv, BookInv
<1> QED BY <1>6, <1>7 DEF CancelOrder

LEMMA FullyMatchedInv ==
  ASSUME Inv, FullyMatched PROVE Inv'
<1>1. /\ UNCHANGED <<book, feed>> /\ UNCHANGED next_market_order_id_ /\ UNCHANGED next_order_id
      /\ UNCHANGED ledger /\ agg' = Idle /\ agg.leaves = 0 /\ Busy
      /\ UNCHANGED order_pool /\ UNCHANGED cid_oid_to_order_
  BY DEF FullyMatched, book
<1>2. BookInv'
  BY <1>1, InvByPart, SameBook
<1>3. ~Busy'
  BY <1>1 DEF Busy, Idle
<1>4. OtherTypesOK'
  BY <1>1 DEF Inv, OtherTypesOK, Idle, OrderIds, LedgerEntry, Quantity
<1>5. IdsAgree'
  BY <1>1, <1>3 DEF Inv, IdsAgree
<1>6. ASSUME NEW co \in Clients \X OrderIds PROVE EntryOK(co)'
  <2>1. EntryOK(co)
    BY LedgerByEntry DEF Inv
  <2>2. Tradable(co)' = Tradable(co)
    <3>1. co = <<agg.client, agg.oid>> => cid_oid_to_order_[co] = 0
      BY <1>1 DEF Inv, IdsAgree
    <3> QED BY <3>1, <1>1, <1>3 DEF Tradable
  <2> QED BY <2>1, <2>2, <1>1 DEF EntryOK
<1> QED BY <1>2, <1>4, <1>5, <1>6, LedgerByEntryPrime DEF Inv, BookInv

LEMMA RestInv ==
  ASSUME Inv, NoCollision, Rest PROVE Inv'
<1> DEFINE k == <<agg.client, agg.oid>>
<1>1. /\ Busy /\ ~CanMatch /\ agg.leaves # 0 /\ agg' = Idle
      /\ UNCHANGED next_market_order_id_ /\ UNCHANGED next_order_id /\ UNCHANGED ledger
      /\ addOrder(agg.moid, Remainder) /\ feed' = UpdateAdd(feed, agg.moid, Remainder)
  BY DEF Rest, Remainder
<1>2. BookInv' /\ CidsOK'
  BY <1>1, InvByPart, JoinBook
<1>3. ~Busy'
  BY <1>1 DEF Busy, Idle
<1>4. OtherTypesOK'
  BY <1>1, <1>2 DEF Inv, OtherTypesOK, CidsOK, Idle, OrderIds, LedgerEntry, Quantity
<1>5. agg \in [moid : MarketOrderIds, client : Clients, oid : OrderIds,
               side : Sides, price : Prices, leaves : Quantity]
  BY <1>1, BusyIsTyped DEF Inv
<1>6. /\ order_pool' = With(order_pool, agg.moid, Remainder)
      /\ cid_oid_to_order_' = [cid_oid_to_order_ EXCEPT ![k] = agg.moid]
  BY <1>1 DEF addOrder, Remainder
<1>7. /\ DOMAIN order_pool' = DOMAIN order_pool \cup {agg.moid}
      /\ order_pool'[agg.moid].qty = agg.leaves
      /\ \A n \in DOMAIN order_pool : order_pool'[n].qty = order_pool[n].qty
  <2>1. Remainder.qty = agg.leaves
    BY DEF Remainder
  <2>2. \A n \in DOMAIN order_pool : n # agg.moid
    BY <1>1, <1>5 DEF Inv, IdsAgree, MarketOrderIds
  <2> QED BY <2>1, <2>2, <1>6 DEF With
<1>8. IdsAgree'
  <2>1. agg.moid < next_market_order_id_
    BY <1>1 DEF Inv, IdsAgree
  <2> QED BY <2>1, <1>1, <1>3, <1>7 DEF Inv, IdsAgree
<1>9. k \in Clients \X OrderIds /\ agg.moid # 0
  BY <1>5 DEF MarketOrderIds
<1>10. ASSUME NEW co \in Clients \X OrderIds PROVE EntryOK(co)'
  <2>1. EntryOK(co)
    BY LedgerByEntry DEF Inv
  <2>2. cid_oid_to_order_ \in [Clients \X OrderIds -> 0 .. MaxOrders]
    BY DEF Inv, OtherTypesOK
  <2> HIDE DEF k
  <2>3. Tradable(co)' = Tradable(co)
    <3>1. CASE co = k
      <4>1. cid_oid_to_order_'[co] = agg.moid
        BY <3>1, <2>2, <1>6
      <4>2. Tradable(co)' = agg.leaves
        BY <4>1, <1>3, <1>7, <1>9 DEF Tradable
      <4> QED BY <4>2, <3>1, <1>1 DEF Tradable, k
    <3>2. CASE co # k
      <4>1. cid_oid_to_order_'[co] = cid_oid_to_order_[co]
        BY <3>2, <2>2, <1>6
      <4>2. cid_oid_to_order_[co] # 0 => cid_oid_to_order_[co] \in DOMAIN order_pool
        BY SMTT(30) DEF Inv, ClientIdsFindOrders
      <4> QED BY <4>1, <4>2, <3>2, <1>3, <1>7, SMTT(30) DEF Tradable, k
    <3> QED BY <3>1, <3>2
  <2> QED BY <2>1, <2>3, <1>1 DEF EntryOK
<1> QED BY <1>2, <1>4, <1>8, <1>10, LedgerByEntryPrime DEF Inv, BookInv

\* Whom Match meets: the best order of the other side.
LEMMA MatchMeets ==
  ASSUME ListsOK, OtherTypesOK, Busy, CanMatch, NEW m, m = FirstOpposite(agg.side)
  PROVE  /\ m \in DOMAIN order_pool /\ order_pool[m].side = Opposite(agg.side)
         /\ \A n \in DOMAIN order_pool : order_pool[n].side = Opposite(agg.side) =>
              \/ MoreAggressive(Opposite(agg.side), order_pool[m].price, order_pool[n].price)
              \/ order_pool[m].price = order_pool[n].price /\ m <= n
<1> DEFINE other == Opposite(agg.side)
<1>1. other \in Sides
  BY DEF Opposite, Sides
<1>2. by_price[other] # << >> /\ m = Head(price_orders_at_price_[Head(by_price[other])].fifo)
  BY DEF CanMatch, FirstOpposite
<1> HIDE DEF other
<1> QED BY <1>1, <1>2, BestOrder DEF other

FilledEntry(f, r) ==
  f.open = r /\ f.sent = f.open + f.filled + f.canceled /\ ~f.rejected /\ f.canceled = 0

\* What a fill does to the entry of an order of which something can still trade.
LEMMA FillEntry ==
  ASSUME NEW e \in LedgerEntry, NEW q \in Nat, NEW r \in Nat, e.open = q + r, e.open # 0,
         e.sent = e.open + e.filled + e.canceled,
         e.rejected => e.open = 0, e.canceled # 0 => e.open = 0,
         NEW f, f = [e EXCEPT !.filled = @ + q, !.open = r]
  PROVE  FilledEntry(f, r)
<1>1. /\ f.open = r /\ f.filled = e.filled + q /\ f.sent = e.sent
      /\ f.canceled = e.canceled /\ f.rejected = e.rejected
  BY DEF LedgerEntry
<1>2. e.filled \in Nat /\ e.canceled = 0 /\ ~e.rejected
  BY DEF LedgerEntry, Quantity
<1> QED BY <1>1, <1>2 DEF FilledEntry

LEMMA MatchInv ==
  ASSUME Inv, Match PROVE Inv'
<1> DEFINE m == FirstOpposite(agg.side)
           fill == fillQty(agg.leaves, order_pool[m].qty)
           leaves == agg.leaves - fill
           rest == order_pool[m].qty - fill
           ka == <<agg.client, agg.oid>>
           kp == <<order_pool[m].client, order_pool[m].oid>>
           mid == Filled(ledger, agg.client, agg.oid, fill, leaves)
<1>1. /\ Busy /\ CanMatch /\ agg.leaves # 0
      /\ UNCHANGED next_market_order_id_ /\ UNCHANGED next_order_id
      /\ agg' = [agg EXCEPT !.leaves = leaves]
      /\ ledger' = Filled(mid, order_pool[m].client, order_pool[m].oid, fill, rest)
  BY DEF Match, CanMatch
<1>2. \/ rest = 0 /\ feed' = UpdateCancel(feed, m) /\ removeOrder(m)
      \/ rest # 0 /\ LosesQuantity(m, rest)
  BY DEF Match, LosesQuantity
<1>3. m \in DOMAIN order_pool
  BY <1>1, MatchMeets DEF Inv
<1>4. /\ BookInv /\ CidsOK /\ ledger \in [Clients \X OrderIds -> LedgerEntry]
      /\ next_order_id \in [Clients -> 1 .. (MaxOrders + 1)]
  BY DEF Inv, BookInv, OtherTypesOK, CidsOK
<1>5. agg \in [moid : MarketOrderIds, client : Clients, oid : OrderIds,
               side : Sides, price : Prices, leaves : Quantity]
  BY <1>1, BusyIsTyped DEF Inv
<1> HIDE DEF m
<1>6. order_pool[m] \in Order /\ order_pool[m].qty > 0
  BY <1>3 DEF Inv, ListsOK, ContainersOK, NoEmptyOrder
<1>7. /\ fill \in Nat /\ leaves \in Nat /\ rest \in Nat
      /\ agg.leaves = fill + leaves /\ order_pool[m].qty = fill + rest
  BY <1>5, <1>6 DEF fillQty, Order, Quantity
<1>8. ka \in Clients \X OrderIds /\ kp \in Clients \X OrderIds /\ ka # kp
  <2>1. cid_oid_to_order_[ka] = 0
    BY <1>1 DEF Inv, IdsAgree
  <2>2. cid_oid_to_order_[kp] = m /\ m # 0
    BY <1>3 DEF Inv, ClientIdsFindOrders, ListsOK, ContainersOK, MarketOrderIds
  <2>3. ka \in Clients \X OrderIds /\ kp \in Clients \X OrderIds
    BY <1>5, <1>6 DEF Order
  <2> QED BY <2>1, <2>2, <2>3
<1> HIDE DEF fill, leaves, rest
<1>9. OneEntry(ledger, mid, ka, [ledger[ka] EXCEPT !.filled = @ + fill, !.open = leaves])
  <2>1. agg.client \in Clients /\ agg.oid \in OrderIds /\ fill \in Quantity /\ leaves \in Quantity
    BY <1>5, <1>7 DEF Quantity
  <2>2. mid = Filled(ledger, agg.client, agg.oid, fill, leaves) /\ ka = <<agg.client, agg.oid>>
    OBVIOUS
  <2> HIDE DEF mid, ka
  <2> QED BY <2>1, <2>2, <1>4, FilledLedger, Zenon
<1>10. OneEntry(mid, ledger', kp, [mid[kp] EXCEPT !.filled = @ + fill, !.open = rest])
  <2>1. /\ order_pool[m].client \in Clients /\ order_pool[m].oid \in OrderIds
        /\ fill \in Quantity /\ rest \in Quantity
    BY <1>6, <1>7 DEF Quantity, Order
  <2>2. mid \in [Clients \X OrderIds -> LedgerEntry]
    BY <1>9 DEF OneEntry
  <2>3. /\ ledger' = Filled(mid, order_pool[m].client, order_pool[m].oid, fill, rest)
        /\ kp = <<order_pool[m].client, order_pool[m].oid>>
    BY <1>1
  <2> HIDE DEF mid, kp, ka
  <2> QED BY <2>1, <2>2, <2>3, FilledLedger, Zenon
<1>11. /\ ledger' \in [Clients \X OrderIds -> LedgerEntry]
       /\ ledger'[ka] = [ledger[ka] EXCEPT !.filled = @ + fill, !.open = leaves]
       /\ ledger'[kp] = [ledger[kp] EXCEPT !.filled = @ + fill, !.open = rest]
       /\ \A co \in Clients \X OrderIds : co # ka /\ co # kp => ledger'[co] = ledger[co]
  <2> HIDE DEF mid, ka, kp
  <2>1. mid[kp] = ledger[kp] /\ ledger'[ka] = mid[ka]
    BY <1>8, <1>9, <1>10 DEF OneEntry
  <2>2. ledger' \in [Clients \X OrderIds -> LedgerEntry]
    BY <1>10 DEF OneEntry
  <2>3. ledger'[ka] = [ledger[ka] EXCEPT !.filled = @ + fill, !.open = leaves]
    BY <2>1, <1>9 DEF OneEntry
  <2>4. ledger'[kp] = [ledger[kp] EXCEPT !.filled = @ + fill, !.open = rest]
    BY <2>1, <1>10 DEF OneEntry
  <2>5. \A co \in Clients \X OrderIds : co # ka /\ co # kp => ledger'[co] = ledger[co]
    BY <1>9, <1>10 DEF OneEntry
  <2> QED BY <2>2, <2>3, <2>4, <2>5
<1> HIDE DEF mid
<1>12. /\ agg' \in [moid : MarketOrderIds, client : Clients, oid : OrderIds,
                    side : Sides, price : Prices, leaves : Quantity]
       /\ agg'.moid = agg.moid /\ agg'.client = agg.client /\ agg'.oid = agg.oid
       /\ agg'.leaves = leaves /\ Busy'
  BY <1>1, <1>5, <1>7 DEF Busy, Quantity
\* The order that was met stays or goes, and the others are as they were.
<1>13. /\ BookInv' /\ CidsOK' /\ DOMAIN order_pool' \subseteq DOMAIN order_pool
       /\ \A co \in Clients \X OrderIds : co = kp => Tradable(co)' = rest
       /\ \A co \in Clients \X OrderIds : co # kp =>
            /\ cid_oid_to_order_'[co] = cid_oid_to_order_[co]
            /\ cid_oid_to_order_[co] # 0 =>
                 order_pool'[cid_oid_to_order_[co]].qty = order_pool[cid_oid_to_order_[co]].qty
  <2>1. CASE rest = 0 /\ feed' = UpdateCancel(feed, m) /\ removeOrder(m)
    <3>1. BookInv' /\ CidsOK'
      BY <2>1, <1>3, <1>4, LeaveBook
    <3>2. /\ cid_oid_to_order_'[kp] = 0
          /\ \A co \in Clients \X OrderIds : co # kp =>
               /\ cid_oid_to_order_'[co] = cid_oid_to_order_[co]
               /\ cid_oid_to_order_[co] # 0 =>
                    order_pool'[cid_oid_to_order_[co]] = order_pool[cid_oid_to_order_[co]]
      <4>1. kp = <<order_pool[m].client, order_pool[m].oid>>
        OBVIOUS
      <4> HIDE DEF kp
      <4> QED BY <4>1, <2>1, <1>3, <1>4, OthersStay
    <3>3. DOMAIN order_pool' \subseteq DOMAIN order_pool
      BY <2>1 DEF removeOrder, Without
    <3>4. ASSUME NEW co \in Clients \X OrderIds, co = kp PROVE Tradable(co)' = rest
      <4>1. co # <<agg'.client, agg'.oid>> /\ cid_oid_to_order_'[co] = 0
        BY <3>2, <3>4, <1>8, <1>12
      <4> QED BY <4>1, <2>1 DEF Tradable
    <3> QED BY <3>1, <3>2, <3>3, <3>4
  <2>2. CASE rest # 0 /\ LosesQuantity(m, rest)
    <3>1. BookInv' /\ CidsOK'
      <4>1. rest \in Quantity
        BY <1>7 DEF Quantity
      <4> QED BY <4>1, <2>2, <1>3, <1>4, StayInBook
    <3>2. /\ UNCHANGED cid_oid_to_order_ /\ order_pool' = [order_pool EXCEPT ![m].qty = rest]
      BY <2>2 DEF LosesQuantity
    <3>3. order_pool'[m].qty = rest /\ \A n \in DOMAIN order_pool : n # m => order_pool'[n] = order_pool[n]
      BY <3>2, <1>3, <1>6 DEF Order
    <3>4. cid_oid_to_order_[kp] = m /\ m # 0
      BY <1>3 DEF Inv, ClientIdsFindOrders, ListsOK, ContainersOK, MarketOrderIds
    <3>5. ASSUME NEW co \in Clients \X OrderIds, co = kp PROVE Tradable(co)' = rest
      <4>1. co # <<agg'.client, agg'.oid>> /\ cid_oid_to_order_'[co] = m
        BY <3>2, <3>4, <3>5, <1>8, <1>12
      <4> QED BY <4>1, <3>3, <3>4 DEF Tradable
    <3>6. ASSUME NEW co \in Clients \X OrderIds, co # kp, cid_oid_to_order_[co] # 0
          PROVE  order_pool'[cid_oid_to_order_[co]].qty = order_pool[cid_oid_to_order_[co]].qty
      <4>1. /\ cid_oid_to_order_[co] \in DOMAIN order_pool
            /\ order_pool[cid_oid_to_order_[co]].client = co[1]
            /\ order_pool[cid_oid_to_order_[co]].oid = co[2]
        BY <3>6 DEF Inv, ClientIdsFindOrders
      <4>2. cid_oid_to_order_[co] # m
        BY <4>1, <3>6
      <4> QED BY <4>1, <4>2, <3>3
    <3>7. DOMAIN order_pool' = DOMAIN order_pool
      BY <3>2
    <3> QED BY <3>1, <3>2, <3>5, <3>6, <3>7
  <2> QED BY <2>1, <2>2, <1>2
<1>14. OtherTypesOK'
  BY <1>1, <1>11, <1>12, <1>13
     DEF Inv, OtherTypesOK, CidsOK, OrderIds, MarketOrderIds, Sides, Quantity, LedgerEntry
<1>15. IdsAgree'
  <2>1. cid_oid_to_order_'[ka] = 0
    BY <1>1, <1>8, <1>13 DEF Inv, IdsAgree
  <2> QED BY <2>1, <1>1, <1>12, <1>13 DEF Inv, IdsAgree, ka
<1>16. ASSUME NEW co \in Clients \X OrderIds PROVE EntryOK(co)'
  <2>1. EntryOK(co) /\ ledger[co] \in LedgerEntry
    BY LedgerByEntry, <1>4 DEF Inv
  <2>2. CASE co = ka
    <3>1. Tradable(co) = agg.leaves /\ Tradable(co)' = leaves
      BY <2>2, <1>1, <1>12 DEF Tradable, ka
    <3>2. ledger'[co] = [ledger[co] EXCEPT !.filled = @ + fill, !.open = leaves]
      BY <2>2, <1>11
    <3>3. /\ ledger'[co].open = leaves
          /\ ledger'[co].sent = ledger'[co].open + ledger'[co].filled + ledger'[co].canceled
          /\ ~ledger'[co].rejected /\ ledger'[co].canceled = 0
      <4>1. /\ ledger[co].open = fill + leaves /\ ledger[co].open # 0
            /\ ledger[co].sent = ledger[co].open + ledger[co].filled + ledger[co].canceled
            /\ ledger[co].rejected => ledger[co].open = 0
            /\ ledger[co].canceled # 0 => ledger[co].open = 0
        BY <2>1, <3>1, <1>1, <1>7 DEF EntryOK
      <4> DEFINE e == ledger[co]
                 f == ledger'[co]
      <4>2. e \in LedgerEntry /\ f = [e EXCEPT !.filled = @ + fill, !.open = leaves]
        BY <3>2, <2>1
      <4> HIDE DEF e, f
      <4>3. FilledEntry(f, leaves)
        BY <4>1, <4>2, <1>7, FillEntry DEF e
      <4> QED BY <4>3 DEF FilledEntry, f
    <3>4. ~(co[2] >= next_order_id'[co[1]])
      <4>1. agg.oid < next_order_id[agg.client] /\ next_order_id[agg.client] \in Int /\ agg.oid \in Int
        BY <1>1, <1>4, <1>5 DEF Inv, IdsAgree, OrderIds
      <4>2. co[1] = agg.client /\ co[2] = agg.oid
        BY <2>2
      <4> QED BY <4>1, <4>2, <1>1
    <3> QED BY <3>1, <3>3, <3>4 DEF EntryOK
  <2>3. CASE co = kp
    <3>1. Tradable(co) = order_pool[m].qty /\ Tradable(co)' = rest
      <4>1. cid_oid_to_order_[kp] = m /\ m # 0
        BY <1>3 DEF Inv, ClientIdsFindOrders, ListsOK, ContainersOK, MarketOrderIds
      <4>2. co # <<agg.client, agg.oid>>
        BY <2>3, <1>8
      <4>3. Tradable(co) = order_pool[m].qty
        BY <4>1, <4>2, <2>3 DEF Tradable
      <4> QED BY <4>3, <2>3, <1>13
    <3>2. ledger'[co] = [ledger[co] EXCEPT !.filled = @ + fill, !.open = rest]
      BY <2>3, <1>11
    <3>3. /\ ledger[co].open = fill + rest /\ ledger[co].open # 0
          /\ ledger[co].sent = ledger[co].open + ledger[co].filled + ledger[co].canceled
          /\ ledger[co].rejected => ledger[co].open = 0
          /\ ledger[co].canceled # 0 => ledger[co].open = 0
      BY <2>1, <3>1, <1>6, <1>7 DEF EntryOK
    <3>4. /\ ledger'[co].open = rest
          /\ ledger'[co].sent = ledger'[co].open + ledger'[co].filled + ledger'[co].canceled
          /\ ~ledger'[co].rejected /\ ledger'[co].canceled = 0
      <4> DEFINE e == ledger[co]
                 f == ledger'[co]
      <4>1. e \in LedgerEntry /\ f = [e EXCEPT !.filled = @ + fill, !.open = rest]
        BY <3>2, <2>1
      <4> HIDE DEF e, f
      <4>2. FilledEntry(f, rest)
        BY <4>1, <3>3, <1>7, FillEntry DEF e
      <4> QED BY <4>2 DEF FilledEntry, f
    <3>5. ~(co[2] >= next_order_id'[co[1]])
      BY <2>1, <3>3, <1>1 DEF EntryOK
    <3> QED BY <3>1, <3>4, <3>5 DEF EntryOK
  <2>4. CASE co # ka /\ co # kp
    <3>1. Tradable(co)' = Tradable(co) /\ ledger'[co] = ledger[co]
      BY <2>4, <1>1, <1>11, <1>12, <1>13 DEF Tradable, ka
    <3> QED BY <2>1, <3>1, <1>1 DEF EntryOK
  <2> QED BY <2>2, <2>3, <2>4
<1> QED BY <1>13, <1>14, <1>15, <1>16, LedgerByEntryPrime DEF Inv, BookInv

LEMMA StutterInv ==
  ASSUME Inv, UNCHANGED vars PROVE Inv'
<1>1. /\ UNCHANGED <<book, feed>> /\ UNCHANGED next_market_order_id_ /\ UNCHANGED next_order_id
      /\ UNCHANGED ledger /\ UNCHANGED agg /\ UNCHANGED order_pool /\ UNCHANGED cid_oid_to_order_
  BY DEF vars, book
<1>2. BookInv'
  BY <1>1, InvByPart, SameBook
<1>3. OtherTypesOK'
  BY <1>1 DEF Inv, OtherTypesOK, Idle, OrderIds, MarketOrderIds, Sides, LedgerEntry, Quantity
<1>4. IdsAgree'
  BY <1>1 DEF Inv, IdsAgree, Busy
<1>5. ASSUME NEW co \in Clients \X OrderIds PROVE EntryOK(co)'
  <2>1. EntryOK(co)
    BY LedgerByEntry DEF Inv
  <2> QED BY <2>1, <1>1 DEF EntryOK, Tradable, Busy
<1> QED BY <1>2, <1>3, <1>4, <1>5, LedgerByEntryPrime DEF Inv, BookInv

LEMMA NextInv ==
  ASSUME NoCollision, Inv, [Next]_vars PROVE Inv'
<1>1. CASE \E c \in Clients, side \in Sides, price \in Prices, qty \in Qtys : NewOrder(c, side, price, qty)
  BY <1>1, NewOrderInv
<1>2. CASE \E c \in Clients, oid \in OrderIds : CancelOrder(c, oid)
  BY <1>2, CancelOrderInv
<1>3. CASE Match
  BY <1>3, MatchInv
<1>4. CASE Rest
  BY <1>4, RestInv
<1>5. CASE FullyMatched
  BY <1>5, FullyMatchedInv
<1>6. CASE UNCHANGED vars
  BY <1>6, StutterInv
<1> QED BY <1>1, <1>2, <1>3, <1>4, <1>5, <1>6 DEF Next, Engine

\* A step trades with a resting order only by matching, and then with the best one.
LEMMA StepTradesBest ==
  ASSUME Inv, Next, NEW m \in DOMAIN order_pool, Traded(m)
  PROVE  Match /\ m = FirstOpposite(agg.side)
<1>1. Busy /\ order_pool[m].qty \in Nat
  BY DEF Traded, Inv, ListsOK, ContainersOK, Order, Quantity
<1>2. CASE Match
  <2> DEFINE p == FirstOpposite(agg.side)
             rest == order_pool[p].qty - fillQty(agg.leaves, order_pool[p].qty)
  <2>1. \/ order_pool' = Without(order_pool, p)
        \/ order_pool' = [order_pool EXCEPT ![p].qty = rest]
    BY <1>2 DEF Match, removeOrder
  <2> HIDE DEF p, rest
  <2>2. ASSUME m # p PROVE m \in DOMAIN order_pool' /\ order_pool'[m] = order_pool[m]
    BY <2>1, <2>2 DEF Without
  <2> QED BY <2>2, <1>1, <1>2 DEF Traded, p
<1>3. CASE Rest
  <2>1. /\ \A n \in DOMAIN order_pool : n < agg.moid
        /\ agg.moid \in Int
    BY <1>1, BusyIsTyped DEF Inv, IdsAgree, MarketOrderIds
  <2>2. m # agg.moid
    BY <2>1
  <2>3. \E order : order_pool' = With(order_pool, agg.moid, order)
    BY <1>3 DEF Rest, addOrder
  <2>4. m \in DOMAIN order_pool' /\ order_pool'[m] = order_pool[m]
    BY <2>2, <2>3 DEF With
  <2> QED BY <2>4, <1>1 DEF Traded
<1>4. CASE FullyMatched
  BY <1>1, <1>4 DEF FullyMatched, book, Traded
<1>5. CASE \E c \in Clients, side \in Sides, price \in Prices, qty \in Qtys : NewOrder(c, side, price, qty)
  BY <1>1, <1>5 DEF NewOrder
<1>6. CASE \E c \in Clients, oid \in OrderIds : CancelOrder(c, oid)
  BY <1>1, <1>6 DEF CancelOrder
<1> QED BY <1>2, <1>3, <1>4, <1>5, <1>6 DEF Next, Engine

-----------------------------------------------------------------------------
(* The theorems. *)

LEMMA Invariance == ASSUME NoCollision PROVE Spec => []Inv
<1>1. Inv /\ [Next]_vars => Inv'
  BY NextInv
<1> QED BY <1>1, InitInv, PTL DEF Spec

\* Every variable keeps its type: market order ids and client order ids stay within
\* their ranges, the lists hold indices of levels, and quantities never become negative.
THEOREM BookTypeCorrect == ASSUME NoCollision PROVE Spec => []TypeOK
BY Invariance, InvImpliesTypeOK, PTL

\* The pool, the levels' queues, the lists of the sides and the clients' ids agree after
\* every iteration of add(), match() and cancel(), and no resting order is empty.
THEOREM BookAgrees == ASSUME NoCollision PROVE Spec => []BookIsConsistent
<1>1. Inv => BookIsConsistent
  BY DEF Inv, ListsOK, BookIsConsistent
<1> QED BY <1>1, Invariance, PTL

\* No resting buy order reaches a resting sell order, however add()'s loop interleaves
\* with fills of any size: checkForMatch() leaves nothing in reach behind.
THEOREM BookUncrossed == ASSUME NoCollision PROVE Spec => []Uncrossed
<1>1. Inv => Uncrossed
  BY DEF Inv
<1> QED BY <1>1, Invariance, PTL

\* The queue of a level is in the order of arrival and of the priorities that
\* getNextPriority() gave, although it reuses those of canceled orders.
THEOREM BookOldestFirst == ASSUME NoCollision PROVE Spec => []OldestFirst
<1>1. Inv => OldestFirst
  BY DEF Inv, ListsOK
<1> QED BY <1>1, Invariance, PTL

\* The resting orders a subscriber of the incremental stream knows are the book's after
\* every message of add(), match() and cancel().
THEOREM FeedIsExact == ASSUME NoCollision PROVE Spec => []FeedMirrorsBook
<1>1. Inv => FeedMirrorsBook
  BY DEF Inv
<1> QED BY <1>1, Invariance, PTL

\* The client responses tell each client what is open of each of its orders, account for
\* every unit it sent, and reject a cancel only when nothing of the order can trade.
THEOREM ResponsesAreTrue == ASSUME NoCollision PROVE Spec => []ResponsesAddUp
<1>1. Inv => ResponsesAddUp
  BY DEF Inv, LedgerOK, ResponsesAddUp
<1> QED BY <1>1, Invariance, PTL

\* match() fills only the order that is first by price and then by time among those of
\* the other side, and only within the aggressor's limit.
THEOREM MatchKeepsPriority == ASSUME NoCollision PROVE Spec => PriceTimePriority
<1> DEFINE Fair(m) ==
      /\ order_pool[m].side = Opposite(agg.side)
      /\ ~OutOfReach(agg.side, agg.price, order_pool[m].price)
      /\ \A n \in DOMAIN order_pool : order_pool[n].side = order_pool[m].side => ~Before(n, m)
<1>1. ASSUME Inv, Next, NEW m \in DOMAIN order_pool, Traded(m) PROVE Fair(m)
  <2>1. Match /\ m = FirstOpposite(agg.side)
    BY <1>1, StepTradesBest
  <2>2. Busy /\ CanMatch
    BY <2>1 DEF Match
  <2>3. /\ order_pool[m].side = Opposite(agg.side)
        /\ \A n \in DOMAIN order_pool : order_pool[n].side = Opposite(agg.side) =>
             \/ MoreAggressive(Opposite(agg.side), order_pool[m].price, order_pool[n].price)
             \/ order_pool[m].price = order_pool[n].price /\ m <= n
    BY <1>1, <2>1, <2>2, MatchMeets DEF Inv
  <2>4. ~OutOfReach(agg.side, agg.price, order_pool[m].price)
    BY <2>1, <2>2 DEF CanMatch
  <2>5. ASSUME NEW n \in DOMAIN order_pool, order_pool[n].side = order_pool[m].side PROVE ~Before(n, m)
    <3>1. n \in Nat /\ m \in Nat /\ order_pool[n].price \in Nat /\ order_pool[m].price \in Nat
      <4>1. /\ n \in 1 .. MaxOrders /\ m \in 1 .. MaxOrders
            /\ order_pool[n] \in Order /\ order_pool[m] \in Order
        BY <1>1 DEF Inv, ListsOK, ContainersOK, MarketOrderIds
      <4>2. n \in Nat /\ m \in Nat
        BY <4>1, BoundAssumption
      <4>3. order_pool[n].price \in Prices /\ order_pool[m].price \in Prices
        BY <4>1 DEF Order
      <4> QED BY <4>2, <4>3, InputAssumption
    <3>2. \/ MoreAggressive(order_pool[m].side, order_pool[m].price, order_pool[n].price)
          \/ order_pool[m].price = order_pool[n].price /\ m <= n
      BY <2>3, <2>5
    <3> QED BY <3>1, <3>2 DEF Before, MoreAggressive
  <2> QED BY <2>3, <2>4, <2>5
<1>2. Inv /\ [Next]_vars => [\A m \in DOMAIN order_pool : Traded(m) => Fair(m)]_vars
  BY <1>1
<1>3. Spec => [][\A m \in DOMAIN order_pool : Traded(m) => Fair(m)]_vars
  BY <1>2, Invariance, PTL DEF Spec
<1> QED BY <1>3 DEF PriceTimePriority
=============================================================================
