------------------------- MODULE TradeEngineProofs -------------------------
(***************************************************************************)
(* For all prices, quantities and limits, and any garbage in open_vwap_:   *)
(* the accounts of PositionKeeper, and what the strategies make of them    *)
(* and of the book.                                                        *)
(*                                                                         *)
(* The model counts a double in parts of 1/Unit.  The theorems are about   *)
(* the behaviours in which this is exact: no average price of a position   *)
(* has a remainder, and (for quotes) no fair price of a book.              *)
(***************************************************************************)
EXTENDS TradeEngine, TLAPS

Exact == \A t \in Tickers : NoRemainder(ticker_position_[t])

PositionInfo == [position_ : Int, real_pnl_ : Int, unreal_pnl_ : Int, total_pnl_ : Int,
                 open_vwap_ : [Sides -> Int], volume_ : Nat]
Account == [cash : Int, mark : Int, leftover : Int, low : Int, high : Int, clean : BOOLEAN]

\* What the open position cost, negative when it was sold.
Cost(p) == IF p.position_ > 0 THEN p.open_vwap_["BUY"]
           ELSE IF p.position_ < 0 THEN -p.open_vwap_["SELL"] ELSE 0

\* The realized profit is the money that came in, less what the open position cost; the
\* other is what the position is worth, less the same cost.
Balanced(p, a) ==
  /\ p.total_pnl_ = p.real_pnl_ + p.unreal_pnl_
  /\ p.real_pnl_ = a.cash + Cost(p) - a.leftover
  /\ p.unreal_pnl_ = p.position_ * a.mark - Cost(p)

\* Only before the first fill can open_vwap_ hold garbage for a position that opens.
Started(p, a) ==
  /\ p.position_ # 0 => p.volume_ # 0
  /\ p.volume_ # 0 /\ p.position_ = 0 => \A s \in Sides : p.open_vwap_[s] = 0
  /\ p.volume_ = 0 => a.cash = 0 /\ a.leftover = 0

WithinPrices(p, a) ==
  a.clean =>
    /\ p.position_ > 0 => /\ a.low * p.position_ <= p.open_vwap_["BUY"]
                          /\ p.open_vwap_["BUY"] <= a.high * p.position_
    /\ p.position_ < 0 => /\ a.low * (-p.position_) <= p.open_vwap_["SELL"]
                          /\ p.open_vwap_["SELL"] <= a.high * (-p.position_)

BooksOK(p, a) ==
  /\ p \in PositionInfo /\ a \in Account
  /\ Balanced(p, a) /\ Started(p, a) /\ WithinPrices(p, a)

-----------------------------------------------------------------------------
(* Arithmetic. *)

LEMMA DivExact ==
  ASSUME NEW a \in Int, NEW n \in Nat, n # 0, a % n = 0
  PROVE  (a \div n) \in Int /\ (a \div n) * n = a
OBVIOUS

LEMMA DivMult ==
  ASSUME NEW a \in Int, NEW n \in Nat, n # 0
  PROVE  (a * n) \div n = a
OBVIOUS

LEMMA DivInt == ASSUME NEW a \in Int, NEW n \in Nat, n # 0 PROVE a \div n \in Int
OBVIOUS

LEMMA DivAtLeast ==
  ASSUME NEW a \in Int, NEW n \in Nat, n # 0, NEW t \in Int
  PROVE  a \div n >= t <=> a >= t * n
OBVIOUS

LEMMA Cancels ==
  ASSUME NEW x \in Int, NEW y \in Int, NEW n \in Nat, n # 0
  PROVE  x * n <= y * n <=> x <= y
OBVIOUS

-----------------------------------------------------------------------------
(* PositionInfo. *)

\* What an open position gains at a price is its worth less its cost.
LEMMA UnrealizedIs ==
  ASSUME NEW p \in PositionInfo, NoRemainder(p), NEW price \in Int
  PROVE  Unrealized(p.position_, p.open_vwap_, price) = p.position_ * price - Cost(p)
<1>1. PICK n \in Int, buy \in Int, sell \in Int :
        n = p.position_ /\ buy = p.open_vwap_["BUY"] /\ sell = p.open_vwap_["SELL"]
  BY DEF PositionInfo, Sides
<1>2. CASE n > 0
  <2>1. n \in Nat /\ n # 0 /\ Abs(n) = n /\ buy % n = 0
    <3>1. n * sideToValue("BUY") > 0 /\ n \in Nat /\ n # 0 /\ Abs(n) = n
      BY <1>2 DEF sideToValue, Abs
    <3> QED BY <1>1, <3>1 DEF NoRemainder, Sides
  <2>2. PICK avg \in Int : avg = buy \div n /\ avg * n = buy
    BY <2>1, DivExact
  <2>3. Unrealized(p.position_, p.open_vwap_, price) = (price - avg) * n
    BY <1>1, <1>2, <2>1, <2>2 DEF Unrealized
  <2>4. (price - avg) * n = n * price - avg * n
    BY <2>2
  <2> QED BY <1>1, <1>2, <2>2, <2>3, <2>4 DEF Cost
<1>3. CASE n < 0
  <2>1. PICK m \in Nat : m # 0 /\ m = -n /\ Abs(n) = m /\ sell % m = 0
    <3>1. n * sideToValue("SELL") > 0 /\ -n \in Nat /\ -n # 0 /\ Abs(n) = -n
      BY <1>3 DEF sideToValue, Abs
    <3>2. sell % Abs(n) = 0
      BY <1>1, <3>1 DEF NoRemainder, Sides
    <3> QED BY <3>1, <3>2
  <2>2. PICK avg \in Int : avg = sell \div m /\ avg * m = sell
    BY <2>1, DivExact
  <2>3. Unrealized(p.position_, p.open_vwap_, price) = (avg - price) * m
    BY <1>1, <1>3, <2>1, <2>2 DEF Unrealized
  <2>4. (avg - price) * m = avg * m + n * price
    BY <2>1, <2>2
  <2> QED BY <1>1, <1>3, <2>2, <2>3, <2>4 DEF Cost
<1>4. CASE n = 0
  BY <1>1, <1>4 DEF Unrealized, Cost
<1> QED BY <1>1, <1>2, <1>3, <1>4

\* Seen from the side of a fill of quantity qty, the position is n and becomes n + qty.
Seen(p, side) == p.position_ * sideToValue(side)

LEMMA SideFacts ==
  ASSUME NEW p \in PositionInfo, NEW side \in Sides
  PROVE  /\ sideToValue(side) \in {1, -1}
         /\ Opposite(side) \in Sides /\ Opposite(side) # side
         /\ \A s \in Sides : s = side \/ s = Opposite(side)
         /\ Seen(p, side) \in Int /\ Abs(p.position_) \in Nat
         /\ Seen(p, side) > 0 => Abs(p.position_) = Seen(p, side)
         /\ Seen(p, side) < 0 => Abs(p.position_) = -Seen(p, side)
         /\ Seen(p, side) = 0 <=> p.position_ = 0
         /\ Seen(p, side) > 0 => Cost(p) = sideToValue(side) * p.open_vwap_[side]
         /\ Seen(p, side) < 0 => Cost(p) = -(sideToValue(side) * p.open_vwap_[Opposite(side)])
         /\ p.position_ = 0 => Cost(p) = 0
         /\ \A m \in Int : p.position_ * m = sideToValue(side) * (Seen(p, side) * m)
<1>1. PICK n \in Int, buy \in Int, sell \in Int :
        n = p.position_ /\ buy = p.open_vwap_["BUY"] /\ sell = p.open_vwap_["SELL"]
  BY DEF PositionInfo, Sides
<1>2. CASE side = "BUY"
  <2>1. sideToValue(side) = 1 /\ Opposite(side) = "SELL" /\ Seen(p, side) = n
    BY <1>1, <1>2 DEF sideToValue, Opposite, Seen
  <2> QED BY <1>1, <1>2, <2>1 DEF Cost, Abs, Sides
<1>3. CASE side = "SELL"
  <2>1. sideToValue(side) = -1 /\ Opposite(side) = "BUY" /\ Seen(p, side) = -n
    BY <1>1, <1>3 DEF sideToValue, Opposite, Seen
  <2>2. \A m \in Int : n * m = (-1) * ((-n) * m)
    OBVIOUS
  <2>3. \A m \in Int : p.position_ * m = sideToValue(side) * (Seen(p, side) * m)
    BY <1>1, <2>1, <2>2
  <2>4. /\ sideToValue(side) * p.open_vwap_[side] = -sell
        /\ -(sideToValue(side) * p.open_vwap_[Opposite(side)]) = buy
    BY <1>1, <1>3, <2>1
  <2>5. /\ Seen(p, side) > 0 => Cost(p) = -sell /\ Abs(p.position_) = -n
        /\ Seen(p, side) < 0 => Cost(p) = buy /\ Abs(p.position_) = n
        /\ p.position_ = 0 => Cost(p) = 0
        /\ Abs(p.position_) \in Nat
    BY <1>1, <2>1 DEF Cost, Abs
  <2> QED BY <1>1, <1>3, <2>1, <2>3, <2>4, <2>5 DEF Sides
<1> QED BY <1>2, <1>3 DEF Sides

\* What addFill() does, by how the fill meets the position.
Opened(p, u, side, price, qty) ==
  /\ u.open_vwap_ = [p.open_vwap_ EXCEPT ![side] = @ + price * qty]
  /\ u.real_pnl_ = p.real_pnl_
Closed(p, u, side, price, avg) ==
  /\ u.open_vwap_ = [s \in Sides |-> 0]
  /\ u.real_pnl_ = p.real_pnl_ + (-Seen(p, side)) * (avg - price) * sideToValue(side)
Flipped(p, u, side, price, qty, avg) ==
  /\ u.open_vwap_ = [s \in Sides |-> IF s = side THEN price * (Seen(p, side) + qty) ELSE 0]
  /\ u.real_pnl_ = p.real_pnl_ + (-Seen(p, side)) * (avg - price) * sideToValue(side)
Reduced(p, u, side, price, qty, avg) ==
  /\ u.open_vwap_ = [p.open_vwap_ EXCEPT ![Opposite(side)] = avg * (-(Seen(p, side) + qty))]
  /\ u.real_pnl_ = p.real_pnl_ + qty * (avg - price) * sideToValue(side)

LEMMA AddFillFields ==
  ASSUME NEW p \in PositionInfo, NEW side \in Sides, NEW price \in Nat, NEW qty \in Nat, qty # 0,
         NEW u, u = addFill(p, side, price, qty)
  PROVE  /\ u.position_ = p.position_ + qty * sideToValue(side)
         /\ u.volume_ = p.volume_ + qty
         /\ u.total_pnl_ = u.unreal_pnl_ + u.real_pnl_
         /\ u.unreal_pnl_ = Unrealized(u.position_, u.open_vwap_, price)
         /\ u = [position_ |-> u.position_, real_pnl_ |-> u.real_pnl_, unreal_pnl_ |-> u.unreal_pnl_,
                 total_pnl_ |-> u.total_pnl_, open_vwap_ |-> u.open_vwap_, volume_ |-> u.volume_]
BY DEF addFill, Volume

LEMMA AddFillCases ==
  ASSUME NEW p \in PositionInfo, NEW side \in Sides, NEW price \in Nat, NEW qty \in Nat, qty # 0,
         NEW u, u = addFill(p, side, price, qty)
  PROVE  /\ Seen(p, side) >= 0 => Opened(p, u, side, price, qty)
         /\ Seen(p, side) < 0 =>
              LET avg == p.open_vwap_[Opposite(side)] \div (-Seen(p, side))
              IN  /\ Seen(p, side) + qty = 0 => Closed(p, u, side, price, avg)
                  /\ Seen(p, side) + qty > 0 => Flipped(p, u, side, price, qty, avg)
                  /\ Seen(p, side) + qty < 0 => Reduced(p, u, side, price, qty, avg)
<1> DEFINE o == Opposite(side)
           d == sideToValue(side)
           old == p.position_
           new == old + qty * d
<1>1. old \in Int /\ d \in {1, -1} /\ new \in Int /\ p.open_vwap_ \in [Sides -> Int]
  BY SideFacts DEF PositionInfo
<1>2. PICK n \in Int : n = Seen(p, side) /\ n = old * d
  BY <1>1 DEF Seen
<1>3. /\ n >= 0 => new # 0
      /\ n < 0 => /\ n + qty = 0 <=> new = 0
                  /\ n + qty > 0 <=> new * old < 0
                  /\ n + qty > 0 => Abs(new) = n + qty
                  /\ n + qty < 0 => Abs(new) = -(n + qty)
                  /\ Abs(old) = -n
  <2>1. CASE d = 1
    BY <1>1, <1>2, <2>1 DEF Abs
  <2>2. CASE d = -1
    BY <1>1, <1>2, <2>2 DEF Abs
  <2> QED BY <1>1, <2>1, <2>2
<1>4. CASE n >= 0
  <2>1. Opened(p, u, side, price, qty)
    BY <1>1, <1>2, <1>3, <1>4 DEF addFill, Opened, PositionInfo
  <2> QED BY <1>2, <1>4, <2>1
<1>5. CASE n < 0
  <2>1. PICK avg : avg = p.open_vwap_[Opposite(side)] \div (-n) /\ avg = p.open_vwap_[Opposite(side)] \div Abs(old)
    BY <1>3, <1>5
  <2>2. avg \in Int
    <3>1. p.open_vwap_[Opposite(side)] \in Int /\ -n \in Nat /\ -n # 0
      BY <1>1, <1>5, SideFacts
    <3> QED BY <2>1, <3>1, DivInt
  <2>3. CASE n + qty = 0
    <3>1. Smaller(qty, Abs(old)) = -n
      BY <1>3, <1>5, <2>3 DEF Smaller
    <3>2. Closed(p, u, side, price, avg)
      BY <1>2, <1>3, <1>5, <2>1, <2>3, <3>1 DEF addFill, Closed, Realized
    <3> QED BY <1>2, <1>5, <2>1, <2>3, <3>2
  <2>4. CASE n + qty > 0
    <3>1. Smaller(qty, Abs(old)) = -n
      BY <1>3, <1>5, <2>4 DEF Smaller
    <3>2. Flipped(p, u, side, price, qty, avg)
      BY <1>2, <1>3, <1>5, <2>1, <2>4, <3>1 DEF addFill, Flipped, Realized
    <3> QED BY <1>2, <1>5, <2>1, <2>4, <3>2
  <2>5. CASE n + qty < 0
    <3>1. Smaller(qty, Abs(old)) = qty
      BY <1>3, <1>5, <2>5 DEF Smaller
    <3>2. Reduced(p, u, side, price, qty, avg)
      BY <1>2, <1>3, <1>5, <2>1, <2>5, <3>1 DEF addFill, Reduced, Realized
    <3> QED BY <1>2, <1>5, <2>1, <2>5, <3>2
  <2> QED BY <2>3, <2>4, <2>5
<1> QED BY <1>2, <1>4, <1>5

\* WithinPrices, seen from a side.
LEMMA WithinPricesSeen ==
  ASSUME NEW p \in PositionInfo, NEW a \in Account, NEW side \in Sides
  PROVE  WithinPrices(p, a) <=>
           (a.clean =>
              /\ Seen(p, side) > 0 => /\ a.low * Seen(p, side) <= p.open_vwap_[side]
                                      /\ p.open_vwap_[side] <= a.high * Seen(p, side)
              /\ Seen(p, side) < 0 => /\ a.low * (-Seen(p, side)) <= p.open_vwap_[Opposite(side)]
                                      /\ p.open_vwap_[Opposite(side)] <= a.high * (-Seen(p, side)))
<1>1. p.position_ \in Int
  BY DEF PositionInfo
<1>2. CASE side = "BUY"
  <2>1. Opposite(side) = "SELL" /\ Seen(p, side) = p.position_
    BY <1>1, <1>2 DEF sideToValue, Opposite, Seen
  <2> QED BY <1>1, <1>2, <2>1 DEF WithinPrices
<1>3. CASE side = "SELL"
  <2>1. Opposite(side) = "BUY" /\ Seen(p, side) = -p.position_ /\ -(-p.position_) = p.position_
    BY <1>1, <1>3 DEF sideToValue, Opposite, Seen
  <2>2. (Seen(p, side) > 0 <=> p.position_ < 0) /\ (Seen(p, side) < 0 <=> p.position_ > 0)
    BY <1>1, <2>1
  <2> QED BY <1>1, <1>3, <2>1, <2>2 DEF WithinPrices
<1> QED BY <1>2, <1>3 DEF Sides

\* The average price of a position that a fill reduces.
LEMMA Average ==
  ASSUME NEW p \in PositionInfo, NoRemainder(p), NEW side \in Sides, Seen(p, side) < 0
  PROVE  LET avg == p.open_vwap_[Opposite(side)] \div (-Seen(p, side))
         IN  avg \in Int /\ avg * (-Seen(p, side)) = p.open_vwap_[Opposite(side)]
<1>1. PICK n \in Nat : n # 0 /\ n = -Seen(p, side) /\ Abs(p.position_) = n
  BY SideFacts
<1>2. PICK v \in Int : v = p.open_vwap_[Opposite(side)]
  BY SideFacts DEF PositionInfo
<1>3. p.position_ * sideToValue(Opposite(side)) = n
  BY <1>1 DEF Seen, sideToValue, Opposite, Sides, PositionInfo
<1>4. v % n = 0
  BY <1>1, <1>2, <1>3, SideFacts DEF NoRemainder
<1> QED BY <1>1, <1>2, <1>4, DivExact

LEMMA FillTypes ==
  ASSUME NEW p \in PositionInfo, NEW a \in Account, NoRemainder(p), NEW side \in Sides, NEW price \in Nat,
         NEW qty \in Nat, qty # 0, NEW u, u = addFill(p, side, price, qty), NoRemainder(u)
  PROVE  /\ u \in PositionInfo /\ Settle(a, p, side, price, qty) \in Account
         /\ Seen(u, side) = Seen(p, side) + qty
<1>1. p.position_ \in Int /\ p.open_vwap_ \in [Sides -> Int] /\ p.real_pnl_ \in Int /\ p.volume_ \in Nat
  BY DEF PositionInfo
<1>2. PICK d \in Int : d \in {1, -1} /\ d = sideToValue(side)
  BY DEF sideToValue
<1>3. PICK n \in Int : n = Seen(p, side) /\ Seen(p, side) = p.position_ * d
  BY SideFacts, <1>2 DEF Seen
<1>4. u.position_ \in Int /\ u.volume_ \in Nat /\ Seen(u, side) = n + qty
  <2>1. u.position_ = p.position_ + qty * d /\ u.volume_ = p.volume_ + qty
    BY <1>2, AddFillFields
  <2>2. (p.position_ + qty * d) * d = p.position_ * d + qty
    BY <1>1, <1>2
  <2> QED BY <1>1, <1>2, <1>3, <2>1, <2>2 DEF Seen
<1>5. u.open_vwap_ \in [Sides -> Int] /\ u.real_pnl_ \in Int
  <2>1. CASE n >= 0
    <3>1. Opened(p, u, side, price, qty)
      BY <2>1, <1>3, AddFillCases
    <3>2. p.open_vwap_[side] + price * qty \in Int
      BY <1>1
    <3> QED BY <1>1, <3>1, <3>2 DEF Opened
  <2>2. CASE n < 0
    <3>1. PICK avg \in Int : avg = p.open_vwap_[Opposite(side)] \div (-Seen(p, side))
      BY <2>2, <1>3, Average
    <3>2. \/ Closed(p, u, side, price, avg) \/ Flipped(p, u, side, price, qty, avg)
          \/ Reduced(p, u, side, price, qty, avg)
      BY <2>2, <1>3, <3>1, AddFillCases
    <3>3. (-n) * (avg - price) * d \in Int /\ qty * (avg - price) * d \in Int
          /\ price * (n + qty) \in Int /\ avg * (-(n + qty)) \in Int
      OBVIOUS
    <3>4. CASE Closed(p, u, side, price, avg)
      BY <3>3, <3>4, <1>1, <1>2, <1>3 DEF Closed
    <3>5. CASE Flipped(p, u, side, price, qty, avg)
      <4>1. PICK w \in Int : w = price * (n + qty)
        BY <3>3
      <4>2. u.open_vwap_ = [s \in Sides |-> IF s = side THEN w ELSE 0]
        BY <3>5, <4>1, <1>3 DEF Flipped
      <4>3. u.real_pnl_ = p.real_pnl_ + (-n) * (avg - price) * d
        BY <3>5, <1>2, <1>3 DEF Flipped
      <4> QED BY <4>2, <4>3, <3>3, <1>1
    <3>6. CASE Reduced(p, u, side, price, qty, avg)
      <4>1. PICK w \in Int : w = avg * (-(n + qty))
        BY <3>3
      <4>2. u.open_vwap_ = [p.open_vwap_ EXCEPT ![Opposite(side)] = w]
        BY <3>6, <4>1, <1>3 DEF Reduced
      <4>3. u.real_pnl_ = p.real_pnl_ + qty * (avg - price) * d
        BY <3>6, <1>2, <1>3 DEF Reduced
      <4>4. u.open_vwap_ \in [Sides -> Int]
        BY <4>1, <4>2, <1>1
      <4> QED BY <4>3, <4>4, <3>3, <1>1
    <3> QED BY <3>2, <3>4, <3>5, <3>6
  <2> QED BY <2>1, <2>2
<1>6. u.unreal_pnl_ \in Int /\ u.total_pnl_ \in Int
  <2>1. PICK x \in Int, buy \in Int, sell \in Int :
          x = u.position_ /\ buy = u.open_vwap_["BUY"] /\ sell = u.open_vwap_["SELL"]
    BY <1>4, <1>5 DEF Sides
  <2>2. x # 0 => Abs(x) \in Nat /\ Abs(x) # 0
    BY DEF Abs
  <2>3. Unrealized(u.position_, u.open_vwap_, price) \in Int
    <3>1. CASE x = 0
      BY <2>1, <3>1 DEF Unrealized
    <3>2. CASE x # 0
      <4>1. PICK v \in Int, w \in Int, y \in Int : v = buy \div Abs(x) /\ w = sell \div Abs(x) /\ y = Abs(x)
        BY <2>2, <3>2, DivInt
      <4>2. Unrealized(u.position_, u.open_vwap_, price) \in {(price - v) * y, (w - price) * y}
        BY <2>1, <3>2, <4>1 DEF Unrealized
      <4> QED BY <4>2
    <3> QED BY <3>1, <3>2
  <2> QED BY <1>5, <2>3, AddFillFields
<1>7. u \in PositionInfo
  BY <1>4, <1>5, <1>6, AddFillFields DEF PositionInfo
<1>8. Settle(a, p, side, price, qty) \in Account
  <2> DEFINE b == Settle(a, p, side, price, qty)
  <2>1. a.cash \in Int /\ a.leftover \in Int /\ a.low \in Int /\ a.high \in Int /\ a.clean \in BOOLEAN
    BY DEF Account
  <2>2. b = [cash |-> b.cash, mark |-> b.mark, leftover |-> b.leftover, low |-> b.low, high |-> b.high,
             clean |-> b.clean]
    BY DEF Settle
  <2>3. p.open_vwap_[side] * d \in Int /\ a.cash - price * qty * d \in Int
    BY <1>1, <2>1
  <2>4. b.cash \in Int /\ b.mark \in Int /\ b.leftover \in Int /\ b.low \in Int /\ b.high \in Int
    BY <1>2, <2>1, <2>3 DEF Settle, Smaller, Bigger
  <2>5. b.clean \in BOOLEAN
    BY <2>1, Zenon DEF Settle
  <2> HIDE DEF b
  <2>6. b \in Account
    BY <2>2, <2>4, <2>5 DEF Account
  <2> QED BY <2>6 DEF b
<1> QED BY <1>3, <1>4, <1>7, <1>8

\* The realized profit stays the money that came in less what the open position cost,
\* whether the fill opens, widens, reduces, closes or flips the position.
LEMMA FillBalance ==
  ASSUME NEW p \in PositionInfo, NEW a \in Account, Balanced(p, a), Started(p, a), NoRemainder(p),
         NEW side \in Sides, NEW price \in Nat, NEW qty \in Nat, qty # 0,
         NEW u \in PositionInfo, u = addFill(p, side, price, qty), Seen(u, side) = Seen(p, side) + qty,
         NEW b \in Account, b = Settle(a, p, side, price, qty)
  PROVE  u.real_pnl_ = b.cash + Cost(u) - b.leftover
<1>1. PICK d \in Int : d \in {1, -1} /\ d = sideToValue(side)
  BY DEF sideToValue
<1>2. PICK n \in Int : n = Seen(p, side) /\ (n = 0 <=> p.position_ = 0)
  BY SideFacts
<1>3. PICK vs \in Int, vo \in Int : vs = p.open_vwap_[side] /\ vo = p.open_vwap_[Opposite(side)]
  BY SideFacts DEF PositionInfo
<1>4. PICK k \in Int : k = price * qty
  OBVIOUS
<1>5. PICK cash \in Int, leftover \in Int, real \in Int, cost \in Int :
        /\ cash = a.cash /\ leftover = a.leftover /\ real = p.real_pnl_ /\ cost = Cost(p)
        /\ real = cash + cost - leftover
  <2>1. Cost(p) \in Int
    BY DEF Cost, PositionInfo, Sides
  <2> QED BY <2>1 DEF Account, PositionInfo, Balanced
<1>6. /\ b.cash = cash - k * d
      /\ b.leftover = IF p.volume_ = 0 THEN vs * d ELSE leftover
  BY <1>1, <1>3, <1>4, <1>5 DEF Settle
<1>7. /\ u.open_vwap_ \in [Sides -> Int] /\ p.open_vwap_ \in [Sides -> Int]
      /\ Opposite(side) \in Sides
  BY SideFacts DEF PositionInfo
<1>8. /\ n > 0 => cost = d * vs
      /\ n < 0 => cost = -(d * vo)
      /\ n = 0 => cost = 0
      /\ n # 0 => b.leftover = leftover
  <2>1. /\ Seen(p, side) > 0 => Cost(p) = sideToValue(side) * p.open_vwap_[side]
        /\ Seen(p, side) < 0 => Cost(p) = -(sideToValue(side) * p.open_vwap_[Opposite(side)])
        /\ p.position_ = 0 => Cost(p) = 0
    BY SideFacts
  <2>2. n # 0 => p.volume_ # 0
    BY <1>2 DEF Started
  <2> QED BY <1>1, <1>2, <1>3, <1>5, <1>6, <2>1, <2>2
<1>9. /\ n + qty > 0 => Cost(u) = d * u.open_vwap_[side]
      /\ n + qty < 0 => Cost(u) = -(d * u.open_vwap_[Opposite(side)])
      /\ n + qty = 0 => Cost(u) = 0
  <2>1. /\ Seen(u, side) > 0 => Cost(u) = sideToValue(side) * u.open_vwap_[side]
        /\ Seen(u, side) < 0 => Cost(u) = -(sideToValue(side) * u.open_vwap_[Opposite(side)])
        /\ u.position_ = 0 => Cost(u) = 0
        /\ Seen(u, side) = 0 <=> u.position_ = 0
    BY SideFacts, ZenonT(60)
  <2> QED BY <1>1, <1>2, <2>1
<1>10. CASE n >= 0
  <2>1. Opened(p, u, side, price, qty)
    BY <1>2, <1>10, AddFillCases
  <2>2. u.real_pnl_ = real /\ u.open_vwap_[side] = vs + k
    BY <1>3, <1>4, <1>5, <1>7, <2>1 DEF Opened
  <2>3. PICK after \in Int : after = d * (vs + k) /\ Cost(u) = after
    BY <1>9, <1>10, <2>2
  <2>4. after = d * vs + k * d
    BY <2>3
  <2>5. CASE n > 0
    BY <1>5, <1>6, <1>8, <2>2, <2>3, <2>4, <2>5
  <2>6. CASE n = 0 /\ p.volume_ = 0
    <3>1. cost = 0 /\ cash = 0 /\ leftover = 0 /\ b.leftover = vs * d
      BY <1>5, <1>6, <1>8, <2>6 DEF Started
    <3> QED BY <1>5, <1>6, <2>2, <2>3, <2>4, <3>1
  <2>7. CASE n = 0 /\ p.volume_ # 0
    <3>1. vs = 0
      BY <1>2, <1>3, <2>7 DEF Started
    <3>2. cost = 0 /\ b.leftover = leftover
      BY <1>6, <1>8, <2>7
    <3> QED BY <1>5, <1>6, <2>2, <2>3, <2>4, <3>1, <3>2
  <2> QED BY <1>10, <2>5, <2>6, <2>7
<1>11. CASE n < 0
  <2>1. PICK avg \in Int : /\ avg = p.open_vwap_[Opposite(side)] \div (-Seen(p, side))
                           /\ avg * (-Seen(p, side)) = p.open_vwap_[Opposite(side)]
    BY <1>2, <1>11, Average
  <2>2. /\ n + qty = 0 => Closed(p, u, side, price, avg)
        /\ n + qty > 0 => Flipped(p, u, side, price, qty, avg)
        /\ n + qty < 0 => Reduced(p, u, side, price, qty, avg)
    BY <1>2, <1>11, <2>1, AddFillCases
  <2>3. PICK an \in Int, pn \in Int, aq \in Int :
          an = avg * n /\ pn = price * n /\ aq = avg * qty
    OBVIOUS
  <2>4. /\ (-n) * (avg - price) = pn - an
        /\ qty * (avg - price) = aq - k
        /\ price * (n + qty) = pn + k
        /\ avg * (-(n + qty)) = -(an + aq)
    BY <2>3, <1>4
  <2>5. vo = -an
    <3>1. avg * (-n) = vo
      BY <2>1, <1>2, <1>3
    <3> QED BY <2>3, <3>1
  <2>6. cost = d * an /\ b.leftover = leftover
    BY <1>8, <1>11, <2>5
  <2>7. CASE n + qty = 0
    <3>1. u.real_pnl_ = real + (pn - an) * d
      BY <1>1, <1>2, <1>5, <2>2, <2>4, <2>7 DEF Closed
    <3>2. Cost(u) = 0
      BY <1>9, <2>7
    <3>3. k = -pn
      BY <2>4, <2>7
    <3>4. (pn - an) * d = -(k * d) - d * an
      BY <3>3
    <3>5. PICK gain \in Int, dan \in Int, kd \in Int : gain = (pn - an) * d /\ dan = d * an /\ kd = k * d
      OBVIOUS
    <3>6. b.cash = cash - kd /\ cost = dan /\ u.real_pnl_ = real + gain /\ gain = -kd - dan
      BY <1>6, <2>6, <3>1, <3>4, <3>5
    <3>7. real = cash + cost - leftover /\ b.leftover = leftover
      BY <1>5, <2>6
    <3> QED BY <3>2, <3>6, <3>7
  <2>8. CASE n + qty > 0
    <3>1. u.real_pnl_ = real + (pn - an) * d /\ u.open_vwap_[side] = pn + k
      BY <1>1, <1>2, <1>5, <2>2, <2>4, <2>8 DEF Flipped
    <3>2. Cost(u) = d * (pn + k)
      BY <1>9, <2>8, <3>1
    <3>3. (pn - an) * d = d * (pn + k) - k * d - d * an
      OBVIOUS
    <3>4. PICK gain \in Int, dan \in Int, kd \in Int, after \in Int :
            gain = (pn - an) * d /\ dan = d * an /\ kd = k * d /\ after = d * (pn + k)
      OBVIOUS
    <3>5. /\ b.cash = cash - kd /\ cost = dan /\ u.real_pnl_ = real + gain
          /\ Cost(u) = after /\ gain = after - kd - dan
      BY <1>6, <2>6, <3>1, <3>2, <3>3, <3>4
    <3>6. real = cash + cost - leftover /\ b.leftover = leftover
      BY <1>5, <2>6
    <3> QED BY <3>5, <3>6
  <2>9. CASE n + qty < 0
    <3>1. u.real_pnl_ = real + (aq - k) * d
      BY <1>1, <1>2, <1>5, <2>2, <2>4, <2>9 DEF Reduced
    <3>2. u.open_vwap_[Opposite(side)] = -(an + aq)
      BY <1>2, <1>7, <2>2, <2>4, <2>9 DEF Reduced
    <3>3. Cost(u) = -(d * (-(an + aq)))
      BY <1>9, <2>9, <3>2
    <3>4. -(d * (-(an + aq))) = d * an + d * aq /\ (aq - k) * d = d * aq - k * d
      OBVIOUS
    <3>5. PICK gain \in Int, dan \in Int, daq \in Int, kd \in Int :
            gain = (aq - k) * d /\ dan = d * an /\ daq = d * aq /\ kd = k * d
      OBVIOUS
    <3>6. /\ b.cash = cash - kd /\ cost = dan /\ u.real_pnl_ = real + gain
          /\ Cost(u) = dan + daq /\ gain = daq - kd
      BY <1>6, <2>6, <3>1, <3>3, <3>4, <3>5
    <3>7. real = cash + cost - leftover /\ b.leftover = leftover
      BY <1>5, <2>6
    <3> QED BY <3>6, <3>7
  <2> QED BY <2>7, <2>8, <2>9
<1> QED BY <1>10, <1>11

LEMMA FillStarted ==
  ASSUME NEW p \in PositionInfo, NoRemainder(p), NEW side \in Sides, NEW price \in Nat,
         NEW qty \in Nat, qty # 0, NEW u \in PositionInfo, u = addFill(p, side, price, qty),
         Seen(u, side) = Seen(p, side) + qty, NEW b
  PROVE  Started(u, b)
<1>1. u.volume_ # 0
  BY AddFillFields DEF PositionInfo
<1>2. ASSUME u.position_ = 0 PROVE \A s \in Sides : u.open_vwap_[s] = 0
  <2>1. PICK n \in Int : n = Seen(p, side)
    BY SideFacts
  <2>2. n + qty = 0 /\ n < 0
    <3>1. Seen(u, side) = 0
      BY <1>2, SideFacts
    <3> QED BY <2>1, <3>1
  <2>3. Closed(p, u, side, price, p.open_vwap_[Opposite(side)] \div (-Seen(p, side)))
    BY <2>1, <2>2, AddFillCases
  <2> QED BY <2>3 DEF Closed
<1> QED BY <1>1, <1>2 DEF Started

LEMMA Scales ==
  ASSUME NEW x \in Int, NEW y \in Int, NEW n \in Nat, x <= y
  PROVE  x * n <= y * n
OBVIOUS

\* What a fill does to the prices paid for a position.
LEMMA SettlePrices ==
  ASSUME NEW p \in PositionInfo, NEW a \in Account, Started(p, a), NEW side \in Sides, NEW price \in Nat,
         NEW qty \in Nat, qty # 0, NEW b \in Account, b = Settle(a, p, side, price, qty)
  PROVE  /\ Seen(p, side) = 0 => /\ b.low = price /\ b.high = price
                                 /\ b.clean => p.open_vwap_[side] = 0
         /\ Seen(p, side) > 0 => /\ b.low = Smaller(a.low, price) /\ b.high = Bigger(a.high, price)
                                 /\ b.clean => a.clean
         /\ Seen(p, side) < 0 /\ Seen(p, side) + qty > 0 => b.low = price /\ b.high = price
         /\ Seen(p, side) < 0 /\ Seen(p, side) + qty < 0 => /\ b.low = a.low /\ b.high = a.high
                                                            /\ b.clean => a.clean
<1> DEFINE position == p.position_ + qty * sideToValue(side)
           fresh == p.position_ = 0 \/ position * p.position_ < 0
           widens == p.position_ * sideToValue(side) > 0
<1>1. PICK n \in Int : n = Seen(p, side) /\ n = p.position_ * sideToValue(side)
  BY SideFacts DEF Seen
<1>2. /\ n = 0 => fresh
      /\ n > 0 => ~fresh /\ widens
      /\ n < 0 /\ n + qty > 0 => fresh
      /\ n < 0 /\ n + qty < 0 => ~fresh /\ ~widens
  <2>1. PICK x \in Int : x = p.position_
    BY DEF PositionInfo
  <2>2. CASE sideToValue(side) = 1
    <3>1. n = x /\ position = x + qty
      BY <1>1, <2>1, <2>2
    <3>2. /\ x > 0 => (x + qty) * x >= 0
          /\ x < 0 /\ x + qty > 0 => (x + qty) * x < 0
          /\ x < 0 /\ x + qty < 0 => (x + qty) * x >= 0
      OBVIOUS
    <3> QED BY <1>1, <2>1, <2>2, <3>1, <3>2
  <2>3. CASE sideToValue(side) = -1
    <3>1. n = -x /\ position = x - qty
      BY <1>1, <2>1, <2>3
    <3>2. /\ -x > 0 => (x - qty) * x >= 0
          /\ -x < 0 /\ -x + qty > 0 => (x - qty) * x < 0
          /\ -x < 0 /\ -x + qty < 0 => (x - qty) * x >= 0
      OBVIOUS
    <3> QED BY <1>1, <2>1, <2>3, <3>1, <3>2
  <2> QED BY <2>2, <2>3, SideFacts
<1>3. /\ b.low = IF fresh THEN price ELSE IF widens THEN Smaller(a.low, price) ELSE a.low
      /\ b.high = IF fresh THEN price ELSE IF widens THEN Bigger(a.high, price) ELSE a.high
  BY DEF Settle
<1>4. b.clean = IF p.volume_ = 0 THEN p.open_vwap_[side] = 0 ELSE a.clean \/ fresh
  BY DEF Settle
<1> HIDE DEF fresh, widens
<1>5. p.volume_ = 0 => n = 0
  BY <1>1 DEF Started, PositionInfo, sideToValue
<1>6. n = 0 /\ p.volume_ # 0 => p.open_vwap_[side] = 0
  BY <1>1, SideFacts DEF Started
<1>7. n = 0 /\ b.clean => p.open_vwap_[side] = 0
  BY <1>4, <1>6
<1>8. n # 0 /\ ~fresh /\ b.clean => a.clean
  BY <1>4, <1>5
<1> QED BY <1>1, <1>2, <1>3, <1>7, <1>8

\* The cost of a position stays within the prices paid for it: a fill that reduces it
\* takes its share off at the average.
LEMMA FillWithinPrices ==
  ASSUME NEW p \in PositionInfo, NEW a \in Account, Started(p, a), WithinPrices(p, a), NoRemainder(p),
         NEW side \in Sides, NEW price \in Nat, NEW qty \in Nat, qty # 0,
         NEW u \in PositionInfo, u = addFill(p, side, price, qty), Seen(u, side) = Seen(p, side) + qty,
         NEW b \in Account, b = Settle(a, p, side, price, qty)
  PROVE  WithinPrices(u, b)
<1> DEFINE o == Opposite(side)
<1>1. PICK n \in Int : n = Seen(p, side)
  BY SideFacts
<1>2. PICK low \in Int, high \in Int : low = b.low /\ high = b.high
  BY DEF Account
<1>3. PICK l \in Int, h \in Int : l = a.low /\ h = a.high
  BY DEF Account
<1>4. PICK vs \in Int, vo \in Int : vs = p.open_vwap_[side] /\ vo = p.open_vwap_[o]
  BY SideFacts DEF PositionInfo
<1>5. u.open_vwap_ \in [Sides -> Int] /\ p.open_vwap_ \in [Sides -> Int] /\ o \in Sides
  BY SideFacts DEF PositionInfo
<1>6. /\ a.clean /\ n > 0 => l * n <= vs /\ vs <= h * n
      /\ a.clean /\ n < 0 => l * (-n) <= vo /\ vo <= h * (-n)
  BY <1>1, <1>3, <1>4, WithinPricesSeen
<1>7. SUFFICES ASSUME b.clean
               PROVE  /\ n + qty > 0 => /\ low * (n + qty) <= u.open_vwap_[side]
                                        /\ u.open_vwap_[side] <= high * (n + qty)
                      /\ n + qty < 0 => /\ low * (-(n + qty)) <= u.open_vwap_[o]
                                        /\ u.open_vwap_[o] <= high * (-(n + qty))
  <2>1. Seen(u, side) = n + qty
    BY <1>1
  <2> QED BY <1>2, <2>1, WithinPricesSeen
<1>8. /\ n = 0 => low = price /\ high = price /\ vs = 0
      /\ n > 0 => low = Smaller(l, price) /\ high = Bigger(h, price) /\ a.clean
      /\ n < 0 /\ n + qty > 0 => low = price /\ high = price
      /\ n < 0 /\ n + qty < 0 => low = l /\ high = h /\ a.clean
  BY <1>1, <1>2, <1>3, <1>4, <1>7, SettlePrices
<1>9. CASE n >= 0
  <2>1. PICK w \in Int : w = u.open_vwap_[side] /\ w = vs + price * qty
    <3>1. Opened(p, u, side, price, qty)
      BY <1>1, <1>9, AddFillCases
    <3> QED BY <1>4, <1>5, <3>1 DEF Opened
  <2>2. low * (n + qty) <= w /\ w <= high * (n + qty)
    <3>1. CASE n = 0
      BY <1>8, <2>1, <3>1
    <3>2. CASE n > 0
      <4>1. low <= l /\ low <= price /\ h <= high /\ price <= high
        BY <1>8, <3>2 DEF Smaller, Bigger
      <4>2. low * n <= l * n /\ low * qty <= price * qty /\ h * n <= high * n /\ price * qty <= high * qty
        BY <4>1, <3>2, Scales
      <4>3. l * n <= vs /\ vs <= h * n
        BY <1>6, <1>8, <3>2
      <4>4. low * (n + qty) = low * n + low * qty /\ high * (n + qty) = high * n + high * qty
        OBVIOUS
      <4> QED BY <2>1, <4>2, <4>3, <4>4
    <3> QED BY <1>9, <3>1, <3>2
  <2> QED BY <1>9, <2>1, <2>2
<1>10. CASE n < 0 /\ n + qty > 0
  <2>1. Flipped(p, u, side, price, qty, p.open_vwap_[o] \div (-Seen(p, side)))
    BY <1>1, <1>10, AddFillCases
  <2>2. u.open_vwap_[side] = price * (n + qty)
    BY <1>1, <2>1 DEF Flipped
  <2> QED BY <1>8, <1>10, <2>2
<1>11. CASE n < 0 /\ n + qty < 0
  <2>1. PICK avg \in Int : /\ avg = p.open_vwap_[o] \div (-Seen(p, side))
                           /\ avg * (-Seen(p, side)) = p.open_vwap_[o]
    BY <1>1, <1>11, Average
  <2>2. Reduced(p, u, side, price, qty, avg)
    BY <1>1, <1>11, <2>1, AddFillCases
  <2>3. u.open_vwap_[o] = avg * (-(n + qty))
    BY <1>1, <1>5, <2>2 DEF Reduced
  <2>4. PICK m \in Nat, r \in Nat : m # 0 /\ m = -n /\ r = -(n + qty)
    BY <1>11
  <2>5. l <= avg /\ avg <= h
    <3>1. l * m <= avg * m /\ avg * m <= h * m
      BY <1>1, <1>4, <1>6, <1>8, <1>11, <2>1, <2>4
    <3> QED BY <2>4, <3>1, Cancels
  <2>6. l * r <= avg * r /\ avg * r <= h * r
    BY <2>5, Scales
  <2> QED BY <1>8, <1>11, <2>3, <2>4, <2>6
<1>12. CASE n + qty = 0
  BY <1>12
<1> QED BY <1>9, <1>10, <1>11, <1>12

LEMMA FillBooks ==
  ASSUME NEW p, NEW a, BooksOK(p, a), NoRemainder(p),
         NEW side \in Sides, NEW price \in Nat, NEW qty \in Nat, qty # 0,
         NEW u, u = addFill(p, side, price, qty), NoRemainder(u),
         NEW b, b = Settle(a, p, side, price, qty)
  PROVE  BooksOK(u, b)
<1>1. p \in PositionInfo /\ a \in Account /\ Balanced(p, a) /\ Started(p, a) /\ WithinPrices(p, a)
  BY DEF BooksOK
<1>2. u \in PositionInfo /\ b \in Account /\ Seen(u, side) = Seen(p, side) + qty
  BY <1>1, FillTypes
<1>3. u.real_pnl_ = b.cash + Cost(u) - b.leftover
  BY <1>1, <1>2, FillBalance
<1>4. u.unreal_pnl_ = u.position_ * b.mark - Cost(u)
  <2>1. b.mark = price
    BY DEF Settle
  <2>2. u.unreal_pnl_ = Unrealized(u.position_, u.open_vwap_, price)
    BY <1>1, AddFillFields
  <2>3. Unrealized(u.position_, u.open_vwap_, price) = u.position_ * price - Cost(u)
    BY <1>2, UnrealizedIs
  <2> QED BY <2>1, <2>2, <2>3
<1>5. u.total_pnl_ = u.real_pnl_ + u.unreal_pnl_
  <2>1. u.total_pnl_ = u.unreal_pnl_ + u.real_pnl_
    BY <1>1, AddFillFields
  <2>2. u.unreal_pnl_ \in Int /\ u.real_pnl_ \in Int
    BY <1>2 DEF PositionInfo
  <2> QED BY <2>1, <2>2
<1>6. Started(u, b)
  BY <1>1, <1>2, FillStarted
<1>7. WithinPrices(u, b)
  BY <1>1, <1>2, FillWithinPrices
<1> QED BY <1>2, <1>3, <1>4, <1>5, <1>6, <1>7 DEF BooksOK, Balanced

\* What a book can show: a side that has a price has a quantity.
BookOK(b) ==
  /\ b.bid \in Nat /\ b.ask \in Nat /\ b.bid_qty \in Nat /\ b.ask_qty \in Nat
  /\ b.bid # 0 => b.bid_qty # 0
  /\ b.ask # 0 => b.ask_qty # 0

LEMMA MidType == ASSUME NEW b, BookOK(b) PROVE Mid(b) \in Int
<1>1. PICK x \in Int : x = (b.bid + b.ask) * Unit
  BY UnitAssumption DEF BookOK
<1> QED BY <1>1 DEF Mid

\* A new mark changes what the position is worth, and nothing else.
LEMMA MarkBooks ==
  ASSUME NEW p, NEW a, BooksOK(p, a), NoRemainder(p), NEW b, BookOK(b), NEW u, u = updateBBO(p, b),
         NEW c, c = [a EXCEPT !.mark = IF BothSides(b) THEN Mid(b) ELSE a.mark]
  PROVE  /\ BooksOK(u, c) /\ u.position_ = p.position_
         /\ BothSides(b) => c.mark = Mid(b)
<1>1. p \in PositionInfo /\ a \in Account /\ Balanced(p, a) /\ Started(p, a) /\ WithinPrices(p, a)
  BY DEF BooksOK
<1>2. Mid(b) \in Int
  BY MidType
<1>3. CASE ~BothSides(b)
  BY <1>1, <1>3 DEF updateBBO, BooksOK, Account
<1>4. CASE BothSides(b)
  <2>1. c \in Account /\ c = [a EXCEPT !.mark = Mid(b)]
    BY <1>1, <1>2, <1>4 DEF Account
  <2>2. c.mark = Mid(b) /\ c.cash = a.cash /\ c.leftover = a.leftover
    BY <1>1, <2>1 DEF Account
  <2>3. c.low = a.low /\ c.high = a.high /\ c.clean = a.clean
    BY <1>1, <2>1, Zenon DEF Account
  <2>4. Unrealized(p.position_, p.open_vwap_, Mid(b)) = p.position_ * Mid(b) - Cost(p)
    BY <1>1, <1>2, UnrealizedIs
  <2>5. PICK unreal \in Int : unreal = p.position_ * Mid(b) - Cost(p)
    <3>1. Cost(p) \in Int /\ p.position_ \in Int
      BY <1>1 DEF Cost, PositionInfo, Sides
    <3> QED BY <3>1, <1>2
  <2>6. CASE p.position_ # 0
    <3>1. PICK total \in Int : total = unreal + p.real_pnl_ /\ total = p.real_pnl_ + unreal
      BY <1>1 DEF PositionInfo
    <3>2. u = [p EXCEPT !.unreal_pnl_ = unreal, !.total_pnl_ = total]
      BY <1>4, <2>4, <2>5, <2>6, <3>1 DEF updateBBO
    <3>3. /\ u \in PositionInfo /\ u.position_ = p.position_ /\ u.real_pnl_ = p.real_pnl_
          /\ u.open_vwap_ = p.open_vwap_ /\ u.volume_ = p.volume_
          /\ u.unreal_pnl_ = unreal /\ u.total_pnl_ = total
      BY <1>1, <3>2 DEF PositionInfo
    <3>4. Cost(u) = Cost(p)
      BY <3>3 DEF Cost
    <3>5. Balanced(u, c)
      BY <1>1, <2>2, <2>5, <3>1, <3>3, <3>4 DEF Balanced
    <3>6. Started(u, c)
      BY <1>1, <2>2, <3>3 DEF Started
    <3>7. WithinPrices(u, c)
      BY <1>1, <2>3, <3>3 DEF WithinPrices
    <3> QED BY <2>1, <2>2, <3>3, <3>5, <3>6, <3>7 DEF BooksOK
  <2>7. CASE p.position_ = 0
    <3>1. u = p
      BY <2>7 DEF updateBBO
    <3>2. Cost(p) = 0 /\ 0 * Mid(b) = 0 /\ 0 * a.mark = 0
      BY <1>1, <1>2, <2>7 DEF Cost, Account
    <3>3. Balanced(u, c)
      BY <1>1, <2>2, <2>7, <3>1, <3>2 DEF Balanced
    <3>4. Started(u, c)
      BY <1>1, <2>2, <3>1 DEF Started
    <3>5. WithinPrices(u, c)
      <4>1. ~(u.position_ > 0) /\ ~(u.position_ < 0)
        BY <2>7, <3>1
      <4> QED BY <4>1 DEF WithinPrices
    <3> QED BY <1>1, <2>1, <2>2, <3>1, <3>3, <3>4, <3>5 DEF BooksOK
  <2> QED BY <2>6, <2>7
<1> QED BY <1>3, <1>4

-----------------------------------------------------------------------------
(* The inductive invariant. *)

BooksInv ==
  /\ ticker_position_ \in [Tickers -> PositionInfo] /\ account \in [Tickers -> Account]
  /\ \A t \in Tickers : BooksOK(ticker_position_[t], account[t])

BboInv == DOMAIN bbo = Tickers /\ \A t \in Tickers : BookOK(bbo[t])

FeaturesInv ==
  /\ mkt_price_ \in Int \/ mkt_price_ = Feature_INVALID
  /\ agg_trade_qty_ratio_ \in Int \/ agg_trade_qty_ratio_ = Feature_INVALID

LimitsInv ==
  /\ \A t \in Tickers : ticker_position_[t].position_ \in -MaxPosition .. MaxPosition
  /\ fills \in 0 .. MaxFills

Inv == BooksInv /\ BboInv /\ FeaturesInv /\ LimitsInv

LEMMA BboFacts == ASSUME NEW b \in Bbos PROVE BookOK(b)
BY BboAssumption DEF BookOK

LEMMA InitInv == ASSUME Init PROVE Inv
<1>1. PICK g \in Garbage : ticker_position_ = [t \in Tickers |->
        [position_ |-> 0, real_pnl_ |-> 0, unreal_pnl_ |-> 0, total_pnl_ |-> 0,
         open_vwap_ |-> g[t], volume_ |-> 0]]
  BY DEF Init
<1>2. account = [t \in Tickers |-> [cash |-> 0, mark |-> 0, leftover |-> 0,
                                    low |-> 0, high |-> 0, clean |-> FALSE]]
  BY DEF Init
<1>3. ASSUME NEW t \in Tickers
      PROVE  BooksOK(ticker_position_[t], account[t]) /\ ticker_position_[t].position_ = 0
  <2> DEFINE p == ticker_position_[t]
             a == account[t]
  <2>1. p = [position_ |-> 0, real_pnl_ |-> 0, unreal_pnl_ |-> 0, total_pnl_ |-> 0,
             open_vwap_ |-> g[t], volume_ |-> 0]
    BY <1>1
  <2>2. a = [cash |-> 0, mark |-> 0, leftover |-> 0, low |-> 0, high |-> 0, clean |-> FALSE]
    BY <1>2
  <2>3. g[t] \in [Sides -> Int]
    BY GarbageAssumption DEF Sides
  <2> HIDE DEF p, a
  <2>4. p \in PositionInfo
    BY <2>1, <2>3 DEF PositionInfo
  <2>5. a \in Account /\ ~a.clean
    BY <2>2 DEF Account
  <2>6. Balanced(p, a)
    BY <2>1, <2>2 DEF Balanced, Cost
  <2>7. Started(p, a)
    BY <2>1, <2>2 DEF Started
  <2>8. WithinPrices(p, a)
    BY <2>5 DEF WithinPrices
  <2>9. BooksOK(p, a) /\ p.position_ = 0
    BY <2>1, <2>4, <2>5, <2>6, <2>7, <2>8 DEF BooksOK
  <2> QED BY <2>9 DEF p, a
<1>4. BooksInv
  <2>1. \A t \in Tickers : ticker_position_[t] \in PositionInfo /\ account[t] \in Account
    BY <1>3 DEF BooksOK
  <2>2. ticker_position_ \in [Tickers -> PositionInfo]
    BY <1>1, <2>1
  <2>3. account \in [Tickers -> Account]
    BY <1>2, <2>1
  <2> QED BY <1>3, <2>2, <2>3 DEF BooksInv
<1>5. BboInv
  <2>1. bbo = [t \in Tickers |-> [bid |-> 0, ask |-> 0, bid_qty |-> 0, ask_qty |-> 0]]
    BY DEF Init, Price_INVALID
  <2> QED BY <2>1 DEF BboInv, BookOK
<1>6. FeaturesInv
  BY DEF Init, FeaturesInv
<1>7. LimitsInv
  BY <1>3, RiskAssumption, BoundAssumption DEF Init, LimitsInv
<1> QED BY <1>4, <1>5, <1>6, <1>7 DEF Inv

\* The books of one instrument change, the others' stay.
LEMMA BooksStep ==
  ASSUME BooksInv, NEW t \in Tickers, NEW u, NEW c, BooksOK(u, c), u.position_ \in -MaxPosition .. MaxPosition,
         ticker_position_' = [ticker_position_ EXCEPT ![t] = u], account' = [account EXCEPT ![t] = c],
         \A x \in Tickers : ticker_position_[x].position_ \in -MaxPosition .. MaxPosition
  PROVE  /\ BooksInv' /\ ticker_position_'[t] = u /\ account'[t] = c
         /\ \A x \in Tickers : ticker_position_'[x].position_ \in -MaxPosition .. MaxPosition
<1>1. u \in PositionInfo /\ c \in Account
  BY DEF BooksOK
<1>2. /\ ticker_position_' \in [Tickers -> PositionInfo] /\ account' \in [Tickers -> Account]
      /\ ticker_position_'[t] = u /\ account'[t] = c
      /\ \A x \in Tickers : x # t => ticker_position_'[x] = ticker_position_[x] /\ account'[x] = account[x]
  BY <1>1 DEF BooksInv
<1>3. ASSUME NEW x \in Tickers
      PROVE  /\ BooksOK(ticker_position_'[x], account'[x])
             /\ ticker_position_'[x].position_ \in -MaxPosition .. MaxPosition
  <2>1. CASE x = t
    BY <1>2, <2>1
  <2>2. CASE x # t
    BY <1>2, <2>2 DEF BooksInv
  <2> QED BY <2>1, <2>2
<1> QED BY <1>2, <1>3 DEF BooksInv

LEMMA FillInv ==
  ASSUME Inv, Exact, Exact', NEW t \in Traded, NEW side \in Sides, NEW price \in FillPrices, NEW qty \in Qtys,
         OnFill(t, side, price, qty)
  PROVE  Inv'
<1> DEFINE p == ticker_position_[t]
           a == account[t]
           u == addFill(p, side, price * Unit, qty)
           c == Settle(a, p, side, price * Unit, qty)
<1>1. t \in Tickers /\ price * Unit \in Nat /\ qty \in Nat /\ qty # 0
  BY FillAssumption, UnitAssumption
<1>2. BooksOK(p, a) /\ NoRemainder(p) /\ p \in PositionInfo
  BY <1>1 DEF Inv, BooksInv, Exact
<1>3. /\ ticker_position_' = [ticker_position_ EXCEPT ![t] = u] /\ account' = [account EXCEPT ![t] = c]
      /\ Abs(p.position_ + qty * sideToValue(side)) <= MaxPosition
      /\ fills < MaxFills /\ fills' = fills + 1
      /\ UNCHANGED <<bbo, mkt_price_, agg_trade_qty_ratio_>>
  BY DEF OnFill
<1>4. u.position_ = p.position_ + qty * sideToValue(side)
  BY <1>1, <1>2, AddFillFields
<1> HIDE DEF p, a, u, c
<1>5. NoRemainder(u)
  <2>1. ticker_position_'[t] = u
    BY <1>1, <1>3 DEF Inv, BooksInv
  <2> QED BY <1>1, <2>1 DEF Exact
<1>6. BooksOK(u, c)
  <2>1. u = addFill(p, side, price * Unit, qty) /\ c = Settle(a, p, side, price * Unit, qty)
    BY DEF u, c
  <2> QED BY <1>1, <1>2, <1>5, <2>1, FillBooks
<1>7. u.position_ \in -MaxPosition .. MaxPosition
  <2>1. PICK x \in Int : x = u.position_ /\ Abs(x) <= MaxPosition
    BY <1>3, <1>4, <1>6 DEF BooksOK, PositionInfo
  <2> QED BY <2>1, RiskAssumption DEF Abs
<1>8. /\ BooksInv'
      /\ \A x \in Tickers : ticker_position_'[x].position_ \in -MaxPosition .. MaxPosition
  <2>1. BooksInv /\ \A x \in Tickers : ticker_position_[x].position_ \in -MaxPosition .. MaxPosition
    BY DEF Inv, LimitsInv
  <2> QED BY <1>1, <1>3, <1>6, <1>7, <2>1, BooksStep
<1>9. LimitsInv'
  <2>1. fills' \in 0 .. MaxFills
    BY <1>3, BoundAssumption DEF Inv, LimitsInv
  <2> QED BY <1>8, <2>1 DEF LimitsInv
<1>10. BboInv' /\ FeaturesInv'
  BY <1>3 DEF Inv, BboInv, FeaturesInv
<1> QED BY <1>8, <1>9, <1>10 DEF Inv

LEMMA BookUpdateInv ==
  ASSUME Inv, Exact, NEW t \in Tickers, NEW b \in Bbos, OnOrderBookUpdate(t, b)
  PROVE  /\ Inv' /\ bbo'[t] = b
         /\ BothSides(b) => account'[t].mark = Mid(b)
<1> DEFINE p == ticker_position_[t]
           a == account[t]
           u == updateBBO(p, b)
           c == [a EXCEPT !.mark = IF BothSides(b) THEN Mid(b) ELSE a.mark]
<1>1. BooksOK(p, a) /\ NoRemainder(p)
  BY DEF Inv, BooksInv, Exact
<1>2. /\ ticker_position_' = [ticker_position_ EXCEPT ![t] = u] /\ account' = [account EXCEPT ![t] = c]
      /\ bbo' = [bbo EXCEPT ![t] = b] /\ mkt_price_' = MktPrice(b)
      /\ UNCHANGED <<agg_trade_qty_ratio_, fills>>
  BY DEF OnOrderBookUpdate
<1>3. BookOK(b)
  BY BboFacts
<1> HIDE DEF p, a
<1>4. BooksOK(u, c) /\ u.position_ = p.position_ /\ (BothSides(b) => c.mark = Mid(b))
  BY <1>1, <1>3, MarkBooks
<1> HIDE DEF u, c
<1>5. BooksInv /\ \A x \in Tickers : ticker_position_[x].position_ \in -MaxPosition .. MaxPosition
  BY DEF Inv, LimitsInv
<1>6. u.position_ \in -MaxPosition .. MaxPosition
  BY <1>4, <1>5 DEF p
<1>7. /\ BooksInv' /\ account'[t] = c
      /\ \A x \in Tickers : ticker_position_'[x].position_ \in -MaxPosition .. MaxPosition
  BY <1>2, <1>4, <1>5, <1>6, BooksStep
<1>8. LimitsInv'
  BY <1>2, <1>7 DEF Inv, LimitsInv
<1>9. bbo'[t] = b /\ BboInv'
  BY <1>2, <1>3 DEF Inv, BboInv
<1>10. FeaturesInv'
  <2>1. MktPrice(b) \in Int \/ MktPrice(b) = mkt_price_
    <3>1. CASE BothSides(b)
      <4>1. PICK f \in Int, s \in Nat :
              /\ f = (b.bid * b.ask_qty + b.ask * b.bid_qty) * Unit
              /\ s = b.bid_qty + b.ask_qty /\ s # 0
        BY <1>3, <3>1, UnitAssumption DEF BookOK, BothSides, Price_INVALID
      <4> QED BY <3>1, <4>1, DivInt DEF MktPrice
    <3>2. CASE ~BothSides(b)
      BY <3>2 DEF MktPrice
    <3> QED BY <3>1, <3>2
  <2> QED BY <1>2, <2>1 DEF Inv, FeaturesInv
<1> QED BY <1>4, <1>7, <1>8, <1>9, <1>10 DEF Inv

LEMMA TradeInv ==
  ASSUME Inv, NEW t \in Tickers, NEW side \in Sides, NEW qty \in TradeQtys, OnTradeUpdate(t, side, qty)
  PROVE  Inv'
<1>1. /\ agg_trade_qty_ratio_' = AggTradeQtyRatio(bbo[t], side, qty)
      /\ UNCHANGED <<ticker_position_, bbo, mkt_price_, account, fills>>
  BY DEF OnTradeUpdate
<1>2. BooksInv' /\ BboInv' /\ LimitsInv'
  BY <1>1 DEF Inv, BooksInv, BboInv, LimitsInv
<1>3. FeaturesInv'
  <2>1. BookOK(bbo[t]) /\ qty * Unit \in Int
    BY FillAssumption, UnitAssumption DEF Inv, BboInv
  <2>2. AggTradeQtyRatio(bbo[t], side, qty) \in Int \/ AggTradeQtyRatio(bbo[t], side, qty) = agg_trade_qty_ratio_
    <3>1. CASE BothSides(bbo[t])
      <4>1. PICK m \in Nat : m # 0 /\ m = IF side = "BUY" THEN bbo[t].ask_qty ELSE bbo[t].bid_qty
        BY <2>1, <3>1 DEF BookOK, BothSides, Price_INVALID
      <4> QED BY <2>1, <3>1, <4>1, DivInt DEF AggTradeQtyRatio
    <3>2. CASE ~BothSides(bbo[t])
      BY <3>2 DEF AggTradeQtyRatio
    <3> QED BY <3>1, <3>2
  <2> QED BY <1>1, <2>2 DEF Inv, FeaturesInv
<1> QED BY <1>2, <1>3 DEF Inv

LEMMA NextInv == ASSUME Inv, Exact, Exact', [Next]_vars PROVE Inv'
<1>1. CASE \E t \in Traded, side \in Sides, price \in FillPrices, qty \in Qtys : OnFill(t, side, price, qty)
  BY <1>1, FillInv
<1>2. CASE OnOtherResponse
  BY <1>2 DEF OnOtherResponse, Inv, BooksInv, BboInv, FeaturesInv, LimitsInv
<1>3. CASE \E t \in Tickers, b \in Bbos : OnOrderBookUpdate(t, b)
  BY <1>3, BookUpdateInv
<1>4. CASE \E t \in Tickers, side \in Sides, qty \in TradeQtys : OnTradeUpdate(t, side, qty)
  BY <1>4, TradeInv
<1>5. CASE UNCHANGED vars
  BY <1>5 DEF vars, Inv, BooksInv, BboInv, FeaturesInv, LimitsInv
<1> QED BY <1>1, <1>2, <1>3, <1>4, <1>5 DEF Next

LEMMA ProfitIs ==
  ASSUME NEW p, NEW a, BooksOK(p, a)
  PROVE  p.total_pnl_ = a.cash + p.position_ * a.mark - a.leftover
<1>1. p \in PositionInfo /\ a \in Account /\ Balanced(p, a)
  BY DEF BooksOK
<1>2. PICK real \in Int, unreal \in Int, cost \in Int, worth \in Int, cash \in Int, leftover \in Int :
        /\ real = p.real_pnl_ /\ unreal = p.unreal_pnl_ /\ cost = Cost(p)
        /\ worth = p.position_ * a.mark /\ cash = a.cash /\ leftover = a.leftover
  <2>1. Cost(p) \in Int
    BY <1>1 DEF Cost, PositionInfo, Sides
  <2>2. p.position_ * a.mark \in Int
    BY <1>1 DEF PositionInfo, Account
  <2> QED BY <1>1, <2>1, <2>2 DEF PositionInfo, Account
<1>3. p.total_pnl_ = real + unreal /\ real = cash + cost - leftover /\ unreal = worth - cost
  BY <1>1, <1>2 DEF Balanced
<1>4. p.total_pnl_ = cash + worth - leftover
  BY <1>3
<1> QED BY <1>2, <1>4

LEMMA BooksAreRight ==
  ASSUME NEW t \in Tickers, BooksOK(ticker_position_[t], account[t])
  PROVE  ProfitIsCashPlusMark(t) /\ CostWithinPricesPaid(t)
<1> DEFINE p == ticker_position_[t]
           a == account[t]
<1>1. p \in PositionInfo /\ a \in Account /\ Balanced(p, a) /\ WithinPrices(p, a)
  BY DEF BooksOK
<1>2. p.total_pnl_ = a.cash + p.position_ * a.mark - a.leftover
  BY ProfitIs
<1>3. CostWithinPricesPaid(t)
  <2>1. PICK n \in Int : n = p.position_
    BY <1>1 DEF PositionInfo
  <2>2. CASE n > 0
    BY <1>1, <2>1, <2>2 DEF CostWithinPricesPaid, WithinPrices, Abs
  <2>3. CASE n < 0
    <3>1. ~(n > 0) /\ Abs(n) = -n
      BY <2>3 DEF Abs
    <3> QED BY <1>1, <2>1, <2>3, <3>1 DEF CostWithinPricesPaid, WithinPrices
  <2>4. CASE n = 0
    BY <2>1, <2>4 DEF CostWithinPricesPaid
  <2> QED BY <2>2, <2>3, <2>4
<1> QED BY <1>2, <1>3 DEF ProfitIsCashPlusMark

\* The accounts of every instrument are right after any sequence of fills and book changes,
\* for any prices, quantities and garbage, as long as no average price has a remainder.
THEOREM AccountsAlwaysRight == Spec /\ []Exact => []AccountsAreRight
<1>1. Init => Inv
  BY InitInv
<1>2. Inv /\ Exact /\ Exact' /\ [Next]_vars => Inv'
  BY NextInv
<1>3. Inv => AccountsAreRight
  BY BooksAreRight DEF Inv, BooksInv, AccountsAreRight
<1> QED BY <1>1, <1>2, <1>3, PTL DEF Spec

\* The types, and the limits on positions, under the same condition (which TypeOK repeats).
THEOREM EngineTypeCorrect == Spec /\ []Exact => []TypeOK
<1>1. Init => Inv
  BY InitInv
<1>2. Inv /\ Exact /\ Exact' /\ [Next]_vars => Inv'
  BY NextInv
<1>3. Inv /\ Exact => TypeOK
  BY DEF Inv, BooksInv, FeaturesInv, LimitsInv, PositionInfo, Exact, TypeOK
<1> QED BY <1>1, <1>2, <1>3, PTL DEF Spec

-----------------------------------------------------------------------------
(* The quotes. *)

FarFromFair(bid, ask, bq, aq, s, unit, t, fair) ==
  /\ fair - bid * unit >= t <=> ((ask - bid) * unit) * bq >= t * s
  /\ ask * unit - fair >= t <=> ((ask - bid) * unit) * aq >= t * s

LEMMA FarFromFairIs ==
  ASSUME NEW bid \in Int, NEW ask \in Int, NEW bq \in Nat, NEW aq \in Nat, NEW s \in Nat, s # 0, s = bq + aq,
         NEW unit \in Int, NEW t \in Int, NEW fair \in Int,
         fair * s = (bid * aq + ask * bq) * unit
  PROVE  FarFromFair(bid, ask, bq, aq, s, unit, t, fair)
<1>1. \A x \in Int : x >= t <=> x * s >= t * s
  BY Cancels
<1>2. (fair - bid * unit) * s = ((ask - bid) * unit) * bq
  <2>1. (fair - bid * unit) * s = fair * s - (bid * unit) * s
    OBVIOUS
  <2>2. (bid * unit) * s = (bid * aq) * unit + (bid * bq) * unit
    OBVIOUS
  <2>3. (bid * aq + ask * bq) * unit = (bid * aq) * unit + (ask * bq) * unit
    OBVIOUS
  <2>4. ((ask - bid) * unit) * bq = (ask * bq) * unit - (bid * bq) * unit
    OBVIOUS
  <2> QED BY <2>1, <2>2, <2>3, <2>4
<1>3. (ask * unit - fair) * s = ((ask - bid) * unit) * aq
  <2>1. (ask * unit - fair) * s = (ask * unit) * s - fair * s
    OBVIOUS
  <2>2. (ask * unit) * s = (ask * aq) * unit + (ask * bq) * unit
    OBVIOUS
  <2>3. (bid * aq + ask * bq) * unit = (bid * aq) * unit + (ask * bq) * unit
    OBVIOUS
  <2>4. ((ask - bid) * unit) * aq = (ask * aq) * unit - (bid * aq) * unit
    OBVIOUS
  <2> QED BY <2>1, <2>2, <2>3, <2>4
<1>4. fair - bid * unit \in Int /\ ask * unit - fair \in Int
  OBVIOUS
<1> QED BY <1>1, <1>2, <1>3, <1>4 DEF FarFromFair

\* The conjuncts of QuotesFollowTheBook for a call that a strategy makes of instrument t.
MakerFollows(t) ==
  LET b == bbo[t]
      spread == (b.ask - b.bid) * Unit
      Joins(qty) == spread * qty >= Threshold * (b.bid_qty + b.ask_qty)
  IN  /\ call.bid = IF Joins(b.bid_qty) THEN b.bid ELSE b.bid - 1
      /\ call.ask = IF Joins(b.ask_qty) THEN b.ask ELSE b.ask + 1

TakerFollows(t) ==
  LET b == bbo[t]
  IN  /\ call.trade.side = "BUY" => /\ call.bid = b.ask /\ call.ask = Price_INVALID
                                    /\ call.trade.qty * Unit >= Threshold * b.ask_qty
      /\ call.trade.side = "SELL" => /\ call.bid = Price_INVALID /\ call.ask = b.bid
                                     /\ call.trade.qty * Unit >= Threshold * b.bid_qty

LossAt(t, mark) ==
  account[t].cash + ticker_position_[t].position_ * mark - account[t].leftover < MaxLoss

Follows(t) ==
  /\ BothSides(bbo[t])
  /\ algo_type = "MAKER" => MakerFollows(t) /\ (call.loss_too_large <=> LossAt(t, Mid(bbo[t])))
  /\ algo_type = "TAKER" => TakerFollows(t) /\ (call.loss_too_large <=> LossAt(t, account[t].mark))

\* The loss that is checked is the one at the mark of the account.
LEMMA LossIs ==
  ASSUME NEW p, NEW a, BooksOK(p, a)
  PROVE  LossTooLarge(p) <=> a.cash + p.position_ * a.mark - a.leftover < MaxLoss
BY ProfitIs DEF LossTooLarge

LEMMA MakerCall ==
  ASSUME FairPricesExact, Inv, Exact, NEW t \in Tickers, NEW b \in Bbos, OnOrderBookUpdate(t, b)
  PROVE  QuotesFollowTheBook'
<1>1. /\ call' = MakerQuotes(t, b, mkt_price_', ticker_position_'[t])
      /\ mkt_price_' = MktPrice(b) /\ algo_type' = algo_type
  BY DEF OnOrderBookUpdate
<1>2. Inv' /\ bbo'[t] = b /\ (BothSides(b) => account'[t].mark = Mid(b))
  BY BookUpdateInv
<1>3. CASE ~(algo_type = "MAKER" /\ BothSides(b))
  <2>1. call' = NoCall
    BY <1>1, <1>3 DEF MakerQuotes
  <2>2. call'.method # "moveOrders"
    BY <2>1 DEF NoCall
  <2> QED BY <2>2 DEF QuotesFollowTheBook
<1>4. CASE algo_type = "MAKER" /\ BothSides(b)
  <2>1. PICK bid \in Int, ask \in Int, bq \in Nat, aq \in Nat, s \in Nat, unit \in Int, th \in Int :
          /\ bid = b.bid /\ ask = b.ask /\ bq = b.bid_qty /\ aq = b.ask_qty
          /\ s # 0 /\ s = bq + aq /\ unit = Unit /\ th = Threshold
    BY <1>4, BboFacts, UnitAssumption, RiskAssumption DEF BookOK, BothSides, Price_INVALID
  <2>2. PICK f \in Int : f = (bid * aq + ask * bq) * unit
    OBVIOUS
  <2>3. f % s = 0
    BY <1>4, <2>1, <2>2 DEF FairPricesExact
  <2>4. PICK fair \in Int : fair = f \div s /\ fair * s = f
    BY <2>1, <2>3, DivExact
  <2>5. mkt_price_' = fair /\ fair # Feature_INVALID
    BY <1>1, <1>4, <2>1, <2>2, <2>4, FeatureAssumption DEF MktPrice
  <2>6. /\ fair - bid * unit >= th <=> ((ask - bid) * unit) * bq >= th * s
        /\ ask * unit - fair >= th <=> ((ask - bid) * unit) * aq >= th * s
    <3>1. fair * s = (bid * aq + ask * bq) * unit /\ s # 0 /\ s = bq + aq
      BY <2>1, <2>2, <2>4
    <3>2. FarFromFair(bid, ask, bq, aq, s, unit, th, fair)
      BY <3>1, FarFromFairIs
    <3> QED BY <3>2, Zenon DEF FarFromFair
  <2>7. PICK farBid \in BOOLEAN, farAsk \in BOOLEAN :
          /\ farBid <=> fair - bid * unit >= th
          /\ farAsk <=> ask * unit - fair >= th
          /\ farBid <=> ((ask - bid) * unit) * bq >= th * s
          /\ farAsk <=> ((ask - bid) * unit) * aq >= th * s
    BY <2>6, Zenon
  <2>8. call' = MoveOrders(t, b.bid - (IF farBid THEN 0 ELSE 1), b.ask + (IF farAsk THEN 0 ELSE 1),
                           ticker_position_'[t], NoTrade)
    <3>1. /\ farBid <=> (mkt_price_' # Feature_INVALID /\ mkt_price_' - b.bid * Unit >= Threshold)
          /\ farAsk <=> (mkt_price_' # Feature_INVALID /\ b.ask * Unit - mkt_price_' >= Threshold)
      BY <2>1, <2>5, <2>7
    <3> QED BY <1>1, <1>4, <3>1, Zenon DEF MakerQuotes
  <2>9. /\ call'.method = "moveOrders" /\ call'.ticker = t
        /\ call'.bid = b.bid - (IF farBid THEN 0 ELSE 1) /\ call'.ask = b.ask + (IF farAsk THEN 0 ELSE 1)
    BY <2>8 DEF MoveOrders
  <2>10. call'.loss_too_large = LossTooLarge(ticker_position_'[t])
    BY <2>8, Zenon DEF MoveOrders
  <2>11. MakerFollows(t)'
    <3>1. /\ call'.bid = IF farBid THEN b.bid ELSE b.bid - 1
          /\ call'.ask = IF farAsk THEN b.ask ELSE b.ask + 1
      BY <2>1, <2>9
    <3>2. /\ farBid <=> ((b.ask - b.bid) * Unit) * b.bid_qty >= Threshold * (b.bid_qty + b.ask_qty)
          /\ farAsk <=> ((b.ask - b.bid) * Unit) * b.ask_qty >= Threshold * (b.bid_qty + b.ask_qty)
      BY <2>1, <2>7, Zenon
    <3> QED BY <1>2, <3>1, <3>2, Zenon DEF MakerFollows
  <2>12. call'.loss_too_large <=> LossAt(t, Mid(b))'
    <3>1. LossTooLarge(ticker_position_'[t]) <=> LossAt(t, account[t].mark)'
      <4>1. BooksOK(ticker_position_'[t], account'[t])
        BY <1>2 DEF Inv, BooksInv
      <4> QED BY <4>1, LossIs DEF LossAt
    <3>2. LossAt(t, account[t].mark)' <=> LossAt(t, Mid(b))'
      BY <1>2, <1>4 DEF LossAt
    <3> QED BY <2>10, <3>1, <3>2, Zenon
  <2>13. algo_type' # "TAKER"
    BY <1>1, <1>4
  <2>14. Follows(t)'
    BY <1>2, <1>4, <2>11, <2>12, <2>13, Zenon DEF Follows
  <2>15. Follows(call.ticker)'
    BY <2>9, <2>14
  <2> QED BY <2>15, Zenon DEF QuotesFollowTheBook, Follows, MakerFollows, TakerFollows, LossAt
<1> QED BY <1>3, <1>4

LEMMA TakerCall ==
  ASSUME Inv, NEW t \in Tickers, NEW side \in Sides, NEW qty \in TradeQtys, OnTradeUpdate(t, side, qty)
  PROVE  QuotesFollowTheBook'
<1> DEFINE b == bbo[t]
<1>1. /\ call' = TakerQuotes(t, b, agg_trade_qty_ratio_', side, qty)
      /\ agg_trade_qty_ratio_' = AggTradeQtyRatio(b, side, qty)
      /\ UNCHANGED <<algo_type, ticker_position_, bbo, account>>
  BY DEF OnTradeUpdate
<1>2. CASE ~(algo_type = "TAKER" /\ BothSides(b) /\ agg_trade_qty_ratio_' # Feature_INVALID
             /\ agg_trade_qty_ratio_' >= Threshold)
  <2>1. call' = NoCall
    BY <1>1, <1>2 DEF TakerQuotes
  <2>2. call'.method # "moveOrders"
    BY <2>1 DEF NoCall
  <2> QED BY <2>2 DEF QuotesFollowTheBook
<1>3. CASE algo_type = "TAKER" /\ BothSides(b) /\ agg_trade_qty_ratio_' # Feature_INVALID
           /\ agg_trade_qty_ratio_' >= Threshold
  <2>1. call' = MoveOrders(t, IF side = "BUY" THEN b.ask ELSE Price_INVALID,
                              IF side = "BUY" THEN Price_INVALID ELSE b.bid,
                              ticker_position_[t], [side |-> side, qty |-> qty])
    BY <1>1, <1>3 DEF TakerQuotes
  <2>2. /\ call'.method = "moveOrders" /\ call'.ticker = t
        /\ call'.bid = IF side = "BUY" THEN b.ask ELSE Price_INVALID
        /\ call'.ask = IF side = "BUY" THEN Price_INVALID ELSE b.bid
        /\ call'.trade.side = side /\ call'.trade.qty = qty
    BY <2>1 DEF MoveOrders
  <2>3. call'.loss_too_large = LossTooLarge(ticker_position_[t])
    BY <2>1, Zenon DEF MoveOrders
  <2>4. call'.loss_too_large <=> LossAt(t, account[t].mark)'
    <3>1. LossTooLarge(ticker_position_[t]) <=> LossAt(t, account[t].mark)
      <4>1. BooksOK(ticker_position_[t], account[t])
        BY DEF Inv, BooksInv
      <4> QED BY <4>1, LossIs DEF LossAt
    <3>2. LossAt(t, account[t].mark) <=> LossAt(t, account[t].mark)'
      BY <1>1 DEF LossAt
    <3> QED BY <2>3, <3>1, <3>2, Zenon
  <2>5. PICK m \in Nat, k \in Int, th \in Int :
          /\ m = (IF side = "BUY" THEN b.ask_qty ELSE b.bid_qty) /\ m # 0
          /\ k = qty * Unit /\ th = Threshold
    <3>1. BookOK(b)
      BY DEF Inv, BboInv
    <3>2. qty * Unit \in Int
      BY FillAssumption, UnitAssumption
    <3> QED BY <1>3, <3>1, <3>2, RiskAssumption DEF BookOK, BothSides, Price_INVALID
  <2>6. k >= th * m
    <3>1. k \div m >= th
      BY <1>1, <1>3, <2>5 DEF AggTradeQtyRatio
    <3> QED BY <2>5, <3>1, DivAtLeast
  <2>7. TakerFollows(t)'
    <3>1. CASE side = "BUY"
      BY <1>1, <2>2, <2>5, <2>6, <3>1 DEF TakerFollows
    <3>2. CASE side = "SELL"
      BY <1>1, <2>2, <2>5, <2>6, <3>2 DEF TakerFollows
    <3> QED BY <3>1, <3>2 DEF Sides
  <2>8. algo_type' # "MAKER" /\ BothSides(bbo'[t])
    BY <1>1, <1>3
  <2>9. Follows(t)'
    BY <2>4, <2>7, <2>8, Zenon DEF Follows
  <2>10. Follows(call.ticker)'
    BY <2>2, <2>9
  <2> QED BY <2>10, Zenon DEF QuotesFollowTheBook, Follows, MakerFollows, TakerFollows, LossAt
<1> QED BY <1>2, <1>3

LEMMA NextQuotes ==
  ASSUME FairPricesExact, Inv, Exact, QuotesFollowTheBook, [Next]_vars
  PROVE  QuotesFollowTheBook'
<1>1. ASSUME call' = Forward PROVE QuotesFollowTheBook'
  <2>1. call'.method # "moveOrders"
    BY <1>1 DEF Forward, NoCall
  <2> QED BY <2>1 DEF QuotesFollowTheBook
<1>2. CASE \E t \in Traded, side \in Sides, price \in FillPrices, qty \in Qtys : OnFill(t, side, price, qty)
  <2>1. call' = Forward
    BY <1>2 DEF OnFill
  <2> QED BY <1>1, <2>1
<1>3. CASE OnOtherResponse
  BY <1>1, <1>3 DEF OnOtherResponse
<1>4. CASE \E t \in Tickers, b \in Bbos : OnOrderBookUpdate(t, b)
  BY <1>4, MakerCall
<1>5. CASE \E t \in Tickers, side \in Sides, qty \in TradeQtys : OnTradeUpdate(t, side, qty)
  BY <1>5, TakerCall
<1>6. CASE UNCHANGED vars
  BY <1>6 DEF vars, QuotesFollowTheBook
<1> QED BY <1>2, <1>3, <1>4, <1>5, <1>6 DEF Next

\* Whatever the order of fills, book changes and trades of all instruments: what a strategy
\* asks for follows from the present book and accounts of the instrument it trades in, as
\* long as no average price and no fair price has a remainder.
THEOREM QuotesAlwaysFollow ==
  ASSUME FairPricesExact
  PROVE  Spec /\ []Exact => []QuotesFollowTheBook
<1>1. Init => Inv /\ QuotesFollowTheBook
  <2>1. ASSUME Init PROVE call.method # "moveOrders"
    BY <2>1 DEF Init, NoCall
  <2>2. ASSUME Init PROVE QuotesFollowTheBook
    BY <2>1, <2>2 DEF QuotesFollowTheBook
  <2> QED BY <2>2, InitInv
<1>2. Inv /\ Exact /\ Exact' /\ [Next]_vars => Inv'
  BY NextInv
<1>3. Inv /\ QuotesFollowTheBook /\ Exact /\ [Next]_vars => QuotesFollowTheBook'
  BY NextQuotes
<1> QED BY <1>1, <1>2, <1>3, PTL DEF Spec
=============================================================================
