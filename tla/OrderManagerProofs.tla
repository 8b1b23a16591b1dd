------------------------- MODULE OrderManagerProofs -------------------------
(***************************************************************************)
(* For all limits and clips, and however requests, fills and responses     *)
(* cross: the order manager has at most one order per side in the market,  *)
(* the client's position stays within the limit of its risk manager, and   *)
(* once all messages have arrived the manager is right about the market.   *)
(***************************************************************************)
EXTENDS OrderManager, TLAPS

\* What the two queues carry.
Request == [type : {"NEW", "CANCEL"}, side : Sides, oid : OrderIds, qty : 0 .. Clip]
Response == [type : {"ACCEPTED", "CANCELED", "FILLED", "CANCEL_REJECTED"},
             side : Sides \cup {"INVALID"}, oid : OrderIds, exec : 0 .. Clip, leaves : 0 .. Clip]

\* Only a rejected cancel is about no side.
MessagesOK ==
  /\ requests \in Seq(Request)
  /\ responses \in Seq(Response)
  /\ \A k \in 1 .. Len(responses) :
       responses[k].side \notin Sides <=> responses[k].type = "CANCEL_REJECTED"

\* The states in which an OMOrder is, or may be, in the market.
Active == {"PENDING_NEW", "LIVE", "PENDING_CANCEL"}

\* Nothing of this side is open at the exchange; no response about it is under way.
NothingOpen(s) == \A i \in OrderIds : open[i].qty # 0 => open[i].side # s
NoResponse(s) == \A k \in 1 .. Len(responses) : responses[k].side # s

\* Order ids are used once, by one side.
IdsAgree ==
  /\ \A s \in Sides : order[s].oid < next_order_id_
  /\ \A s \in Sides : order[s].state \in Active => order[s].oid # 0
  /\ order["BUY"].oid = order["SELL"].oid => order["BUY"].oid = 0
  /\ \A k \in 1 .. Len(requests) : requests[k].oid < next_order_id_

\* A new order that is under way is the one the manager waits for, and the only
\* thing that is under way or in the market on its side.
NewsAgree ==
  \A s \in Sides : \A k \in 1 .. Len(requests) :
    requests[k].type = "NEW" /\ requests[k].side = s =>
      /\ order[s].oid = requests[k].oid
      /\ order[s].state = "PENDING_NEW"
      /\ order[s].qty = requests[k].qty
      /\ NothingOpen(s)
      /\ NoResponse(s)
      /\ \A j \in 1 .. Len(requests) :
           requests[j].type = "NEW" /\ requests[j].side = s => j = k

\* A cancel may be for an order that is long gone, but never names another side's.
CancelsAgree ==
  \A k \in 1 .. Len(requests) : \A s \in Sides :
    requests[k].type = "CANCEL" /\ requests[k].oid = order[s].oid => requests[k].side = s

\* An open order is the one its side's OMOrder is about.
OpenAgrees ==
  \A i \in OrderIds : open[i].qty # 0 =>
    order[open[i].side].oid = i /\ order[open[i].side].state \in Active

Final(r) == r.type = "CANCELED" \/ (r.type = "FILLED" /\ r.leaves = 0)

\* Every response under way is about the OMOrder of its side; after the one that
\* ends the order nothing more can come.
ResponsesAgree ==
  \A s \in Sides : \A k \in 1 .. Len(responses) : responses[k].side = s =>
    /\ order[s].oid = responses[k].oid
    /\ order[s].state \in Active
    /\ Final(responses[k]) =>
         /\ NothingOpen(s)
         /\ \A j \in (k + 1) .. Len(responses) : responses[j].side # s

\* Response k is a fill of side s.
FillAt(k, s) == responses[k].type = "FILLED" /\ responses[k].side = s

\* left[k] is what is left of the order of side s after the first k of the responses
\* under way: it starts as the OMOrder's quantity, and ends as the exchange's.
Leads(s, left) ==
  /\ left[0] = order[s].qty
  /\ \A k \in 1 .. Len(responses) :
       left[k - 1] = left[k] + (IF FillAt(k, s) THEN responses[k].exec ELSE 0)
  /\ \A k \in 1 .. Len(responses) : FillAt(k, s) => left[k] = responses[k].leaves
  /\ \A j, k \in 0 .. Len(responses) : j <= k => left[k] <= left[j]
  /\ \A j \in 0 .. Len(responses) :
       (\A k \in (j + 1) .. Len(responses) : responses[k].side # s) =>
         left[Len(responses)] = left[j]
  /\ \A i \in OrderIds : open[i].qty # 0 /\ open[i].side = s =>
       left[Len(responses)] = open[i].qty

Lefts == [0 .. Len(responses) -> 0 .. Clip]

\* The fills of side s that are under way.
UnderWay(s, left) == order[s].qty - left[Len(responses)]

\* The two positions differ by the fills under way.
PositionsAgree ==
  \E bid, ask \in Lefts :
    /\ Leads("BUY", bid) /\ Leads("SELL", ask)
    /\ traded = position_ + UnderWay("BUY", bid) - UnderWay("SELL", ask)

\* What is left of the OMOrder of a side fits within the limit.
Exposure(s) == IF order[s].state \in Active THEN order[s].qty ELSE 0
LimitHolds ==
  /\ position_ + Exposure("BUY") <= MaxPosition
  /\ position_ - Exposure("SELL") >= -MaxPosition

OrdersInv ==
  /\ TypeOK /\ MessagesOK /\ IdsAgree /\ NewsAgree /\ CancelsAgree
  /\ OpenAgrees /\ ResponsesAgree
Inv == OrdersInv /\ PositionsAgree /\ LimitHolds

-----------------------------------------------------------------------------
(* Queues. *)

\* What taking the first message leaves of a queue.
LEMMA TailFacts ==
  ASSUME NEW S, NEW q \in Seq(S), q # << >>
  PROVE  /\ Head(q) = q[1] /\ q[1] \in S /\ Len(q) >= 1 /\ Len(q) \in Nat
         /\ Tail(q) \in Seq(S) /\ Len(Tail(q)) = Len(q) - 1
         /\ \A k \in 1 .. (Len(q) - 1) : Tail(q)[k] = q[k + 1]
OBVIOUS

\* What sending a message makes of a queue.
LEMMA AppendFacts ==
  ASSUME NEW S, NEW q \in Seq(S), NEW e \in S
  PROVE  /\ Append(q, e) \in Seq(S) /\ Len(q) \in Nat /\ Len(Append(q, e)) = Len(q) + 1
         /\ \A k \in 1 .. Len(q) : Append(q, e)[k] = q[k]
         /\ Append(q, e)[Len(q) + 1] = e
OBVIOUS

\* Up to two messages more: whichever of them is at a place behind the old ones.
LEMMA OneOrTheOther ==
  ASSUME NEW x \in Nat, NEW u \in 0 .. 1, NEW v \in 0 .. 1, NEW k \in 1 .. (x + u + v), k > x
  PROVE  (u = 1 /\ k = x + 1) \/ (v = 1 /\ k = x + u + 1)
OBVIOUS

\* The queue of requests after moveOrders().
Sent(q, a, b) == q \o a \o b

-----------------------------------------------------------------------------
(* One order per side: each action preserves OrdersInv. *)

\* The exchange sends a response e, about the order that the manager has and that no
\* earlier response has ended.
LEMMA ResponseSent ==
  ASSUME OrdersInv, UNCHANGED order, NEW e \in Response, responses' = Append(responses, e),
         e.side \notin Sides <=> e.type = "CANCEL_REJECTED",
         e.side \in Sides => /\ order[e.side].oid = e.oid
                             /\ order[e.side].state \in Active
                             /\ Final(e) => NothingOpen(e.side)'
                             /\ \A k \in 1 .. Len(responses) :
                                  responses[k].side = e.side => ~Final(responses[k]),
         \A s \in Sides : s # e.side /\ NothingOpen(s) => NothingOpen(s)'
  PROVE  /\ responses' \in Seq(Response)
         /\ \A k \in 1 .. Len(responses') :
              responses'[k].side \notin Sides <=> responses'[k].type = "CANCEL_REJECTED"
         /\ ResponsesAgree'
         /\ \A s \in Sides : s # e.side /\ NoResponse(s) => NoResponse(s)'
<1>1. /\ Len(responses) \in Nat
      /\ responses' \in Seq(Response) /\ Len(responses') = Len(responses) + 1
      /\ \A k \in 1 .. Len(responses) : responses'[k] = responses[k]
      /\ responses'[Len(responses) + 1] = e
  BY AppendFacts DEF OrdersInv, MessagesOK
<1>2. ASSUME NEW k \in 1 .. Len(responses')
      PROVE  responses'[k].side \notin Sides <=> responses'[k].type = "CANCEL_REJECTED"
  <2>1. CASE k \in 1 .. Len(responses)
    BY <2>1, <1>1 DEF OrdersInv, MessagesOK
  <2>2. CASE k = Len(responses) + 1
    BY <2>2, <1>1
  <2> QED BY <1>1, <2>1, <2>2
<1>3. ResponsesAgree'
  <2> SUFFICES ASSUME NEW s \in Sides, NEW k \in 1 .. Len(responses'), responses'[k].side = s
               PROVE  /\ order'[s].oid = responses'[k].oid
                      /\ order'[s].state \in Active
                      /\ Final(responses'[k]) =>
                           /\ NothingOpen(s)'
                           /\ \A j \in (k + 1) .. Len(responses') : responses'[j].side # s
    BY Zenon DEF ResponsesAgree
  <2>1. CASE k \in 1 .. Len(responses)
    <3>1. responses[k].side = s /\ responses'[k] = responses[k]
      BY <2>1, <1>1
    <3>2. /\ order[s].oid = responses[k].oid /\ order[s].state \in Active
          /\ Final(responses[k]) =>
               /\ NothingOpen(s)
               /\ \A j \in (k + 1) .. Len(responses) : responses[j].side # s
      BY <2>1, <3>1 DEF OrdersInv, ResponsesAgree
    <3>3. Final(responses[k]) => s # e.side
      BY <2>1, <3>1
    <3>4. s # e.side /\ (\A j \in (k + 1) .. Len(responses) : responses[j].side # s) =>
            \A j \in (k + 1) .. Len(responses') : responses'[j].side # s
      BY <2>1, <1>1
    <3> QED BY <3>1, <3>2, <3>3, <3>4
  <2>2. CASE k = Len(responses) + 1
    BY <2>2, <1>1
  <2> QED BY <1>1, <2>1, <2>2
<1>4. ASSUME NEW s \in Sides, s # e.side, NoResponse(s) PROVE NoResponse(s)'
  BY <1>1, <1>4 DEF NoResponse
<1> QED BY <1>1, <1>2, <1>3, <1>4

\* The requests that stay in the queue when d of them are taken.
LEMMA RequestsTaken ==
  ASSUME OrdersInv, UNCHANGED <<order, next_order_id_>>, NEW d \in {0, 1},
         requests' \in Seq(Request), Len(requests) \in Nat, Len(requests') = Len(requests) - d,
         \A k \in 1 .. Len(requests') : requests'[k] = requests[k + d],
         \A s \in Sides : (\E k \in 1 .. Len(requests') :
                             requests'[k].type = "NEW" /\ requests'[k].side = s) =>
           (NothingOpen(s) => NothingOpen(s)') /\ (NoResponse(s) => NoResponse(s)')
  PROVE  IdsAgree' /\ NewsAgree' /\ CancelsAgree'
<1>1. IdsAgree'
  BY DEF OrdersInv, IdsAgree
<1>2. NewsAgree'
  <2> SUFFICES ASSUME NEW s \in Sides, NEW k \in 1 .. Len(requests'),
                      requests'[k].type = "NEW", requests'[k].side = s
               PROVE  /\ order'[s].oid = requests'[k].oid
                      /\ order'[s].state = "PENDING_NEW"
                      /\ order'[s].qty = requests'[k].qty
                      /\ NothingOpen(s)' /\ NoResponse(s)'
                      /\ \A j \in 1 .. Len(requests') :
                           requests'[j].type = "NEW" /\ requests'[j].side = s => j = k
    BY Zenon DEF NewsAgree
  <2>1. /\ k + d \in 1 .. Len(requests) /\ requests[k + d].type = "NEW"
        /\ requests[k + d].side = s /\ requests[k + d] = requests'[k]
    OBVIOUS
  <2>2. /\ order[s].oid = requests[k + d].oid
        /\ order[s].state = "PENDING_NEW"
        /\ order[s].qty = requests[k + d].qty
        /\ NothingOpen(s) /\ NoResponse(s)
        /\ \A j \in 1 .. Len(requests) :
             requests[j].type = "NEW" /\ requests[j].side = s => j = k + d
    BY <2>1 DEF OrdersInv, NewsAgree
  <2>3. \A j \in 1 .. Len(requests') :
          requests'[j].type = "NEW" /\ requests'[j].side = s => j = k
    <3> SUFFICES ASSUME NEW j \in 1 .. Len(requests'),
                        requests'[j].type = "NEW", requests'[j].side = s
                 PROVE  j = k
      OBVIOUS
    <3>1. j + d \in 1 .. Len(requests) /\ requests[j + d] = requests'[j]
      OBVIOUS
    <3>2. j + d = k + d
      BY <2>2, <3>1
    <3> QED BY <3>2
  <2> QED BY <2>1, <2>2, <2>3
<1>3. CancelsAgree'
  <2> SUFFICES ASSUME NEW k \in 1 .. Len(requests'), NEW s \in Sides,
                      requests'[k].type = "CANCEL" /\ requests'[k].oid = order'[s].oid
               PROVE  requests'[k].side = s
    BY Zenon DEF CancelsAgree
  <2>1. k + d \in 1 .. Len(requests) /\ requests[k + d] = requests'[k]
    OBVIOUS
  <2> QED BY <2>1 DEF OrdersInv, CancelsAgree
<1> QED BY <1>1, <1>2, <1>3

\* An accepted order becomes the one order of its side that is open.
LEMMA AcceptNewOrders == OrdersInv /\ AcceptNew => OrdersInv'
<1> SUFFICES ASSUME OrdersInv, AcceptNew PROVE OrdersInv'
  OBVIOUS
<1> DEFINE r == requests[1]
           e == [type |-> "ACCEPTED", side |-> r.side, oid |-> r.oid, exec |-> 0, leaves |-> r.qty]
<1>1. /\ requests \in Seq(Request) /\ requests # << >> /\ r = Head(requests)
  BY DEF OrdersInv, MessagesOK, AcceptNew
<1>2. /\ r \in Request /\ r.type = "NEW" /\ Len(requests) >= 1 /\ Len(requests) \in Nat
      /\ requests' \in Seq(Request) /\ Len(requests') = Len(requests) - 1
      /\ \A k \in 1 .. Len(requests') : requests'[k] = requests[k + 1]
  BY <1>1, TailFacts DEF AcceptNew
<1>3. /\ e \in Response /\ e.type = "ACCEPTED" /\ e.side = r.side /\ e.oid = r.oid
      /\ ~Final(e) /\ r.side \in Sides /\ r.oid \in OrderIds /\ r.qty \in 0 .. Clip
  BY <1>2, QuoteAssumption DEF Request, Response, Final
<1>4. /\ open' = [open EXCEPT ![r.oid] = [side |-> r.side, qty |-> r.qty]]
      /\ responses' = Append(responses, e)
      /\ UNCHANGED <<order, next_order_id_, position_, traded>>
  BY <1>1 DEF AcceptNew, manager
<1>5. /\ order[r.side].oid = r.oid /\ order[r.side].state = "PENDING_NEW"
      /\ NoResponse(r.side)
      /\ \A k \in 1 .. Len(requests') :
           requests'[k].type = "NEW" => requests'[k].side # r.side
  BY <1>2, <1>3, SMTT(60) DEF OrdersInv, NewsAgree
<1> HIDE DEF e, r
<1>6. /\ \A i \in OrderIds : i # r.oid => open'[i] = open[i]
      /\ open'[r.oid].side = r.side
  BY <1>3, <1>4 DEF OrdersInv, TypeOK
<1>7. \A s : s # r.side /\ NothingOpen(s) => NothingOpen(s)'
  BY <1>6 DEF NothingOpen
<1>8. \A k \in 1 .. Len(responses) : responses[k].side = r.side => ~Final(responses[k])
  BY <1>5 DEF NoResponse
<1>9. /\ responses' \in Seq(Response)
      /\ \A k \in 1 .. Len(responses') :
           responses'[k].side \notin Sides <=> responses'[k].type = "CANCEL_REJECTED"
      /\ ResponsesAgree'
      /\ \A s \in Sides : s # e.side /\ NoResponse(s) => NoResponse(s)'
  <2>1. order[e.side].state \in Active
    BY <1>3, <1>5 DEF Active
  <2>2. e.side \notin Sides <=> e.type = "CANCEL_REJECTED"
    BY <1>3
  <2> QED BY <1>3, <1>4, <1>5, <1>7, <1>8, <2>1, <2>2, ResponseSent
<1>10. \A s \in Sides : (\E k \in 1 .. Len(requests') :
                           requests'[k].type = "NEW" /\ requests'[k].side = s) =>
         (NothingOpen(s) => NothingOpen(s)') /\ (NoResponse(s) => NoResponse(s)')
  BY <1>3, <1>5, <1>7, <1>9
<1>11. IdsAgree' /\ NewsAgree' /\ CancelsAgree'
  BY <1>2, <1>4, <1>10, RequestsTaken
<1>12. TypeOK'
  BY <1>3, <1>4 DEF OrdersInv, TypeOK
<1>13. OpenAgrees'
  BY <1>3, <1>4, <1>5, <1>6 DEF OrdersInv, OpenAgrees, Active
<1> QED BY <1>2, <1>9, <1>11, <1>12, <1>13 DEF OrdersInv, MessagesOK

\* The exchange takes from an open order, and says so: a fill, or a cancel that finds
\* the order open.
LEMMA OpenReduced ==
  ASSUME OrdersInv, UNCHANGED <<order, next_order_id_, position_>>, traded' \in Int,
         NEW i \in OrderIds, open[i].qty # 0, NEW n \in 0 .. Clip,
         open' = [open EXCEPT ![i].qty = n],
         NEW e \in Response, responses' = Append(responses, e),
         e.side = open[i].side, e.oid = i, e.type # "CANCEL_REJECTED", Final(e) => n = 0,
         NEW d \in {0, 1}, requests' \in Seq(Request), Len(requests) \in Nat,
         Len(requests') = Len(requests) - d,
         \A k \in 1 .. Len(requests') : requests'[k] = requests[k + d]
  PROVE  OrdersInv'
<1>1. PICK s \in Sides : s = open[i].side
  BY DEF OrdersInv, TypeOK
<1>2. order[s].oid = i /\ order[s].state \in Active
  BY <1>1 DEF OrdersInv, OpenAgrees
<1>3. ~NothingOpen(s)
  BY <1>1 DEF NothingOpen
<1>4. \A k \in 1 .. Len(responses) : responses[k].side = s => ~Final(responses[k])
  BY <1>3 DEF OrdersInv, ResponsesAgree
<1>5. \A k \in 1 .. Len(requests') : requests'[k].type = "NEW" => requests'[k].side # s
  <2> SUFFICES ASSUME NEW k \in 1 .. Len(requests'), requests'[k].type = "NEW",
                      requests'[k].side = s
               PROVE  FALSE
    OBVIOUS
  <2>1. k + d \in 1 .. Len(requests) /\ requests[k + d] = requests'[k]
    OBVIOUS
  <2> QED BY <1>3, <2>1 DEF OrdersInv, NewsAgree
<1>6. /\ open' \in [OrderIds -> [side : Sides, qty : 0 .. Clip]]
      /\ open'[i].qty = n
      /\ \A j \in OrderIds : open'[j].side = open[j].side
      /\ \A j \in OrderIds : j # i => open'[j] = open[j]
  BY DEF OrdersInv, TypeOK
<1>7. \A t \in Sides : NothingOpen(t) => NothingOpen(t)'
  BY <1>6 DEF NothingOpen
<1>8. n = 0 => NothingOpen(s)'
  BY <1>1, <1>2, <1>6 DEF NothingOpen, OrdersInv, OpenAgrees
<1>9. /\ responses' \in Seq(Response)
      /\ \A k \in 1 .. Len(responses') :
           responses'[k].side \notin Sides <=> responses'[k].type = "CANCEL_REJECTED"
      /\ ResponsesAgree'
      /\ \A t \in Sides : t # e.side /\ NoResponse(t) => NoResponse(t)'
  <2>1. e.side = s
    BY <1>1
  <2>2. \A t \in Sides : t # e.side /\ NothingOpen(t) => NothingOpen(t)'
    BY <1>7
  <2>3. Final(e) => \A t \in Sides : t = e.side => NothingOpen(t)'
    BY <1>8, <2>1
  <2> QED BY <1>2, <1>4, <2>1, <2>2, <2>3, ResponseSent
<1>10. \A t \in Sides : (\E k \in 1 .. Len(requests') :
                           requests'[k].type = "NEW" /\ requests'[k].side = t) =>
         (NothingOpen(t) => NothingOpen(t)') /\ (NoResponse(t) => NoResponse(t)')
  BY <1>1, <1>5, <1>7, <1>9
<1>11. IdsAgree' /\ NewsAgree' /\ CancelsAgree'
  BY <1>10, RequestsTaken
<1>12. TypeOK'
  BY <1>6 DEF OrdersInv, TypeOK
<1>13. OpenAgrees'
  BY <1>6 DEF OrdersInv, OpenAgrees
<1> QED BY <1>9, <1>11, <1>12, <1>13 DEF OrdersInv, MessagesOK

\* A fill is about the open order of its side; a last fill ends it.
LEMMA FillOrders ==
  ASSUME NEW i \in OrderIds, NEW qty \in 1 .. Clip, OrdersInv, Fill(i, qty)
  PROVE  OrdersInv'
<1>1. /\ open[i] \in [side : Sides, qty : 0 .. Clip] /\ open[i].side \in Sides
      /\ open[i].qty \in 0 .. Clip /\ Clip \in Nat
  BY QuoteAssumption DEF OrdersInv, TypeOK
<1>2. PICK n \in 0 .. Clip : n = open[i].qty - qty /\ open[i].qty # 0
  <2>1. qty \in 1 .. open[i].qty
    BY DEF Fill
  <2>2. open[i].qty - qty \in 0 .. Clip /\ open[i].qty # 0
    BY <1>1, <2>1
  <2> QED BY <2>2
<1>3. PICK e \in Response : /\ e.type = "FILLED" /\ e.side = open[i].side /\ e.oid = i
                            /\ e.leaves = n
                            /\ responses' = Append(responses, e)
  <2> DEFINE f == [type |-> "FILLED", side |-> open[i].side, oid |-> i,
                   exec |-> qty, leaves |-> n]
  <2>1. f \in Response
    BY <1>1 DEF Response
  <2> QED BY <1>2, <2>1 DEF Fill
<1>4. Final(e) => n = 0
  BY <1>3 DEF Final
<1>5. open' = [open EXCEPT ![i].qty = n]
  BY <1>2 DEF Fill
<1>6. traded' \in Int
  BY <1>1 DEF Fill, OrdersInv, TypeOK, sideToValue
<1>7. /\ requests' \in Seq(Request) /\ Len(requests) \in Nat
      /\ Len(requests') = Len(requests) - 0
      /\ \A k \in 1 .. Len(requests') : requests'[k] = requests[k + 0]
  BY DEF OrdersInv, MessagesOK, Fill
<1>8. UNCHANGED <<order, next_order_id_, position_>>
  BY Zenon DEF Fill, manager
<1> QED BY <1>2, <1>3, <1>4, <1>5, <1>6, <1>7, <1>8, OpenReduced

\* A cancel ends the open order it names, or finds none and changes nothing.
LEMMA HandleCancelOrders == OrdersInv /\ HandleCancel => OrdersInv'
<1> SUFFICES ASSUME OrdersInv, HandleCancel PROVE OrdersInv'
  OBVIOUS
<1>1. requests \in Seq(Request) /\ requests # << >>
  BY DEF OrdersInv, MessagesOK, HandleCancel
<1>2. PICK r \in Request : /\ r = requests[1] /\ r = Head(requests)
                           /\ r.type = "CANCEL" /\ r.side \in Sides /\ r.oid \in OrderIds
  <2>1. Head(requests) = requests[1] /\ requests[1] \in Request
    BY <1>1, TailFacts
  <2>2. requests[1].side \in Sides /\ requests[1].oid \in OrderIds
    BY <2>1 DEF Request
  <2> QED BY <2>1, <2>2 DEF HandleCancel
<1>3. /\ Len(requests) >= 1 /\ Len(requests) \in Nat
      /\ requests' \in Seq(Request) /\ Len(requests') = Len(requests) - 1
      /\ \A k \in 1 .. Len(requests') : requests'[k] = requests[k + 1]
  BY <1>1, TailFacts DEF HandleCancel
<1>4. UNCHANGED <<order, next_order_id_, position_, traded>> /\ traded' \in Int
  BY <1>1, Zenon DEF HandleCancel, manager, OrdersInv, TypeOK
<1>5. /\ open[r.oid] \in [side : Sides, qty : 0 .. Clip] /\ open[r.oid].side \in Sides
      /\ open[r.oid].qty \in 0 .. Clip /\ 0 \in 0 .. Clip
  BY <1>2, QuoteAssumption DEF OrdersInv, TypeOK
<1>6. CASE open[r.oid].qty # 0
  <2>1. r.side = open[r.oid].side
    BY <1>2, <1>3, <1>5, <1>6 DEF OrdersInv, OpenAgrees, CancelsAgree
  <2>2. open' = [open EXCEPT ![r.oid].qty = 0]
    BY <1>2, <1>6 DEF HandleCancel
  <2>3. PICK e \in Response : /\ e.type = "CANCELED" /\ e.side = open[r.oid].side
                              /\ e.oid = r.oid
                              /\ responses' = Append(responses, e)
    <3> DEFINE f == [type |-> "CANCELED", side |-> r.side, oid |-> r.oid,
                     exec |-> 0, leaves |-> open[r.oid].qty]
    <3>1. f \in Response
      BY <1>2, <1>5 DEF Response
    <3> QED BY <1>2, <1>6, <2>1, <3>1 DEF HandleCancel
  <2> QED BY <1>2, <1>3, <1>4, <1>5, <1>6, <2>2, <2>3, OpenReduced
<1>7. CASE open[r.oid].qty = 0
  <2>1. UNCHANGED open
    BY <1>2, <1>7 DEF HandleCancel
  <2>2. PICK e \in Response : /\ e.type = "CANCEL_REJECTED" /\ e.side \notin Sides
                              /\ responses' = Append(responses, e)
    <3> DEFINE f == [type |-> "CANCEL_REJECTED", side |-> "INVALID", oid |-> r.oid,
                     exec |-> 0, leaves |-> 0]
    <3>1. f \in Response /\ "INVALID" \notin Sides
      BY <1>2, <1>5 DEF Response, Sides
    <3> QED BY <1>2, <1>7, <3>1 DEF HandleCancel
  <2>3. \A s \in Sides : NothingOpen(s) => NothingOpen(s)'
    BY <2>1 DEF NothingOpen
  <2>4. /\ responses' \in Seq(Response)
        /\ \A k \in 1 .. Len(responses') :
             responses'[k].side \notin Sides <=> responses'[k].type = "CANCEL_REJECTED"
        /\ ResponsesAgree'
        /\ \A s \in Sides : s # e.side /\ NoResponse(s) => NoResponse(s)'
    BY <1>4, <2>2, <2>3, ResponseSent
  <2>5. IdsAgree' /\ NewsAgree' /\ CancelsAgree'
    BY <1>3, <1>4, <2>2, <2>3, <2>4, RequestsTaken
  <2>6. TypeOK' /\ OpenAgrees'
    BY <1>4, <2>1 DEF OrdersInv, TypeOK, OpenAgrees
  <2> QED BY <1>3, <2>4, <2>5, <2>6 DEF OrdersInv, MessagesOK
<1> QED BY <1>5, <1>6, <1>7

\* What a response does to the OMOrder of its side.
LEMMA UpdateFacts ==
  ASSUME NEW o \in OMOrder, NEW r \in Response
  PROVE  /\ onOrderUpdate(o, r) \in OMOrder
         /\ onOrderUpdate(o, r).oid = o.oid
         /\ onOrderUpdate(o, r).qty = IF r.type = "FILLED" THEN r.leaves ELSE o.qty
         /\ o.state \in Active /\ ~Final(r) => onOrderUpdate(o, r).state \in Active
         /\ Final(r) => onOrderUpdate(o, r).state = "DEAD"
<1> DEFINE u == onOrderUpdate(o, r)
<1>1. /\ o.state \in States /\ o.oid \in 0 .. MaxOrders /\ o.qty \in 0 .. Clip
      /\ o.price \in Prices \cup {Price_INVALID} /\ r.leaves \in 0 .. Clip
      /\ o = [state |-> o.state, oid |-> o.oid, price |-> o.price, qty |-> o.qty]
      /\ r.type \in {"ACCEPTED", "CANCELED", "FILLED", "CANCEL_REJECTED"}
  BY DEF OMOrder, Response
<1>2. CASE r.type = "ACCEPTED"
  <2>1. u = [o EXCEPT !.state = "LIVE"]
    BY <1>2 DEF onOrderUpdate
  <2>2. "LIVE" \in States /\ "LIVE" \in Active /\ ~Final(r)
    BY <1>2 DEF States, Active, Final
  <2>3. u \in OMOrder /\ u.state = "LIVE" /\ u.oid = o.oid /\ u.qty = o.qty
    BY <1>1, <2>1, <2>2 DEF OMOrder
  <2> QED BY <1>2, <2>2, <2>3
<1>3. CASE r.type = "CANCELED"
  <2>1. u = [o EXCEPT !.state = "DEAD"]
    BY <1>3 DEF onOrderUpdate
  <2>2. "DEAD" \in States /\ Final(r)
    BY <1>3 DEF States, Final
  <2>3. u \in OMOrder /\ u.state = "DEAD" /\ u.oid = o.oid /\ u.qty = o.qty
    BY <1>1, <2>1, <2>2 DEF OMOrder
  <2> QED BY <1>3, <2>2, <2>3
<1>4. CASE r.type = "FILLED"
  <2>1. u = [o EXCEPT !.qty = r.leaves, !.state = IF r.leaves = 0 THEN "DEAD" ELSE @]
    BY <1>4 DEF onOrderUpdate
  <2>2. "DEAD" \in States /\ (Final(r) <=> r.leaves = 0)
    BY <1>4 DEF States, Final
  <2>3. /\ u \in OMOrder /\ u.state = IF r.leaves = 0 THEN "DEAD" ELSE o.state
        /\ u.oid = o.oid /\ u.qty = r.leaves
    BY <1>1, <2>1, <2>2 DEF OMOrder
  <2> QED BY <1>4, <2>2, <2>3
<1>5. CASE r.type = "CANCEL_REJECTED"
  BY <1>5 DEF onOrderUpdate, Final
<1> QED BY <1>1, <1>2, <1>3, <1>4, <1>5

\* A final response makes the OMOrder DEAD when nothing of its side is left anywhere.
LEMMA HandleResponseOrders == OrdersInv /\ HandleResponse => OrdersInv'
<1> SUFFICES ASSUME OrdersInv, HandleResponse PROVE OrdersInv'
  OBVIOUS
<1>1. responses \in Seq(Response) /\ responses # << >>
  BY DEF OrdersInv, MessagesOK, HandleResponse
<1>2. /\ Head(responses) = responses[1] /\ responses[1] \in Response
      /\ Len(responses) >= 1 /\ Len(responses) \in Nat
      /\ responses' \in Seq(Response) /\ Len(responses') = Len(responses) - 1
      /\ \A k \in 1 .. Len(responses') : responses'[k] = responses[k + 1]
  BY <1>1, TailFacts DEF HandleResponse
<1>3. PICK r \in Response : r = responses[1]
  BY <1>2
<1>4. /\ r.type \in {"ACCEPTED", "CANCELED", "FILLED", "CANCEL_REJECTED"}
      /\ r.side \in Sides \cup {"INVALID"} /\ r.leaves \in 0 .. Clip /\ r.exec \in 0 .. Clip
      /\ r.side \notin Sides <=> r.type = "CANCEL_REJECTED"
  BY <1>2, <1>3 DEF Response, OrdersInv, MessagesOK
<1>5. /\ order' = [order EXCEPT ![r.side] = onOrderUpdate(order[r.side], r)]
      /\ position_' = addFill(r)
      /\ UNCHANGED <<next_order_id_, requests, open, traded>>
  BY <1>2, <1>3 DEF HandleResponse, exchange
<1>6. r.side \in Sides =>
        /\ order[r.side].oid = r.oid /\ order[r.side].state \in Active
        /\ Final(r) => NothingOpen(r.side)
        /\ Final(r) => \A k \in 1 .. Len(responses') : responses'[k].side # r.side
  BY <1>2, <1>3 DEF OrdersInv, ResponsesAgree
<1>7. order[r.side] \in OMOrder
  BY <1>4 DEF OrdersInv, TypeOK
<1>8. PICK o \in OMOrder : /\ o = onOrderUpdate(order[r.side], r)
                           /\ o.oid = order[r.side].oid
                           /\ r.side \in Sides /\ ~Final(r) => o.state \in Active
  BY <1>3, <1>6, <1>7, UpdateFacts
<1>9. /\ order' \in [Sides \cup {"INVALID"} -> OMOrder]
      /\ order'[r.side] = o
      /\ \A s \in Sides : s # r.side => order'[s] = order[s]
      /\ \A s \in Sides : order'[s].oid = order[s].oid
  BY <1>4, <1>5, <1>8 DEF OrdersInv, TypeOK
<1>10. TypeOK'
  <2>1. position_' \in Int
    BY <1>4, <1>5 DEF addFill, sideToValue, OrdersInv, TypeOK
  <2> QED BY <1>5, <1>9, <2>1 DEF OrdersInv, TypeOK
<1>11. MessagesOK'
  BY <1>2, <1>5 DEF OrdersInv, MessagesOK
<1>12. IdsAgree'
  <2>1. \A s \in Sides : order'[s].state \in Active => order'[s].oid # 0
    BY <1>6, <1>9 DEF OrdersInv, IdsAgree
  <2>2. "BUY" \in Sides /\ "SELL" \in Sides
    BY DEF Sides
  <2> QED BY <1>5, <1>9, <2>1, <2>2 DEF OrdersInv, IdsAgree
<1>13. NewsAgree'
  <2> SUFFICES ASSUME NEW s \in Sides, NEW k \in 1 .. Len(requests),
                      requests[k].type = "NEW", requests[k].side = s
               PROVE  order'[s] = order[s] /\ NothingOpen(s)' /\ NoResponse(s)'
    BY <1>5 DEF OrdersInv, NewsAgree
  <2>1. NothingOpen(s) /\ NoResponse(s)
    BY DEF OrdersInv, NewsAgree
  <2>2. s # r.side
    BY <2>1, <1>2, <1>3 DEF NoResponse
  <2>3. NothingOpen(s)'
    BY <2>1, <1>5 DEF NothingOpen
  <2>4. NoResponse(s)'
    BY <2>1, <1>2 DEF NoResponse
  <2> QED BY <1>9, <2>2, <2>3, <2>4
<1>14. CancelsAgree'
  BY <1>5, <1>9 DEF OrdersInv, CancelsAgree
<1>15. OpenAgrees'
  <2> SUFFICES ASSUME NEW i \in OrderIds, open[i].qty # 0
               PROVE  order'[open[i].side].oid = i /\ order'[open[i].side].state \in Active
    BY <1>5 DEF OpenAgrees
  <2>1. open[i].side \in Sides /\ order[open[i].side].oid = i
        /\ order[open[i].side].state \in Active
    BY DEF OrdersInv, OpenAgrees, TypeOK
  <2>2. open[i].side = r.side => ~Final(r)
    BY <1>6, <2>1 DEF NothingOpen
  <2> QED BY <1>8, <1>9, <2>1, <2>2
<1>16. ResponsesAgree'
  <2> SUFFICES ASSUME NEW s \in Sides, NEW k \in 1 .. Len(responses'), responses'[k].side = s
               PROVE  /\ order'[s].oid = responses'[k].oid
                      /\ order'[s].state \in Active
                      /\ Final(responses'[k]) =>
                           /\ NothingOpen(s)'
                           /\ \A j \in (k + 1) .. Len(responses') : responses'[j].side # s
    BY Zenon DEF ResponsesAgree
  <2>1. k + 1 \in 1 .. Len(responses) /\ responses[k + 1] = responses'[k]
    BY <1>2
  <2>2. /\ order[s].oid = responses'[k].oid /\ order[s].state \in Active
        /\ Final(responses'[k]) =>
             /\ NothingOpen(s)
             /\ \A j \in (k + 1 + 1) .. Len(responses) : responses[j].side # s
    BY <2>1 DEF OrdersInv, ResponsesAgree
  <2>3. s = r.side => ~Final(r)
    BY <1>6
  <2>4. NothingOpen(s) => NothingOpen(s)'
    BY <1>5 DEF NothingOpen
  <2>5. (\A j \in (k + 1 + 1) .. Len(responses) : responses[j].side # s) =>
          \A j \in (k + 1) .. Len(responses') : responses'[j].side # s
    BY <1>2
  <2> QED BY <1>8, <1>9, <2>2, <2>3, <2>4, <2>5
<1> QED BY <1>10, <1>11, <1>12, <1>13, <1>14, <1>15, <1>16 DEF OrdersInv

\* What moveOrder makes of a side: nothing, a cancel of a live order, or a new order
\* where there is none.
Moved(s, m, id) ==
  /\ m.order \in OMOrder /\ m.send \in Seq(Request)
  /\ \/ /\ m.order = order[s] /\ Len(m.send) = 0
     \/ /\ order[s].state = "LIVE"
        /\ m.order.state = "PENDING_CANCEL"
        /\ m.order.oid = order[s].oid /\ m.order.qty = order[s].qty
        /\ Len(m.send) = 1
        /\ m.send[1].type = "CANCEL" /\ m.send[1].side = s /\ m.send[1].oid = order[s].oid
     \/ /\ order[s].state \notin Active
        /\ m.order.state = "PENDING_NEW" /\ m.order.oid = id /\ m.order.qty = Clip
        /\ Len(m.send) = 1
        /\ m.send[1].type = "NEW" /\ m.send[1].side = s /\ m.send[1].oid = id
        /\ m.send[1].qty = Clip
        /\ Abs(position_ + sideToValue(s) * Clip) <= MaxPosition

\* moveOrder(), for one side.
LEMMA MoveOne ==
  ASSUME OrdersInv, NEW s \in Sides, NEW price \in Prices \cup {Price_INVALID},
         NEW id \in OrderIds, NEW loss \in BOOLEAN
  PROVE  Moved(s, moveOrder(s, price, id, loss), id)
<1> DEFINE o == order[s]
           m == moveOrder(s, price, id, loss)
<1>1. /\ o \in OMOrder
      /\ o.state \in States /\ o.oid \in 0 .. MaxOrders /\ o.qty \in 0 .. Clip
      /\ o.price \in Prices \cup {Price_INVALID}
      /\ o.state \in Active => o.oid \in OrderIds
      /\ Clip \in Nat /\ MaxOrders \in Nat /\ id \in 0 .. MaxOrders
  BY QuoteAssumption, BoundAssumption DEF OrdersInv, TypeOK, OMOrder, OrderIds, IdsAgree
<1>2. CASE o.state = "LIVE" /\ o.price # price
  <2>1. m = CancelOrder(s, o)
    BY <1>2 DEF moveOrder
  <2> DEFINE q == [type |-> "CANCEL", side |-> s, oid |-> o.oid, qty |-> o.qty]
             p == [o EXCEPT !.state = "PENDING_CANCEL"]
  <2>2. m.order = p /\ m.send = <<q>>
    BY <2>1 DEF CancelOrder
  <2>3. q \in Request
    BY <1>1, <1>2 DEF Request, Active
  <2>4. /\ p \in OMOrder /\ p.state = "PENDING_CANCEL" /\ p.oid = o.oid /\ p.qty = o.qty
    BY <1>1 DEF OMOrder, States
  <2>5. /\ <<q>> \in Seq(Request) /\ Len(<<q>>) = 1 /\ <<q>>[1].type = "CANCEL"
        /\ <<q>>[1].side = s /\ <<q>>[1].oid = o.oid
    BY <2>3
  <2> QED BY <1>2, <2>2, <2>4, <2>5 DEF Moved
<1>3. CASE /\ ~(o.state = "LIVE" /\ o.price # price)
           /\ o.state \in {"INVALID", "DEAD"} /\ price # Price_INVALID
           /\ checkPreTradeRisk(s, Clip, loss)
  <2>1. m = NewOrder(s, price, Clip, id)
    BY <1>3 DEF moveOrder
  <2> DEFINE q == [type |-> "NEW", side |-> s, oid |-> id, qty |-> Clip]
             p == [state |-> "PENDING_NEW", oid |-> id, price |-> price, qty |-> Clip]
  <2>2. m.order = p /\ m.send = <<q>>
    BY <2>1 DEF NewOrder
  <2>3. q \in Request
    BY <1>1 DEF Request
  <2>4. p \in OMOrder
    BY <1>1 DEF OMOrder, States
  <2>5. /\ <<q>> \in Seq(Request) /\ Len(<<q>>) = 1 /\ <<q>>[1] = q
    BY <2>3
  <2>6. Abs(position_ + sideToValue(s) * Clip) <= MaxPosition
    BY <1>3 DEF checkPreTradeRisk
  <2>7. o.state \notin Active
    BY <1>3 DEF Active
  <2> QED BY <2>2, <2>4, <2>5, <2>6, <2>7 DEF Moved
<1>4. CASE /\ ~(o.state = "LIVE" /\ o.price # price)
           /\ ~(/\ o.state \in {"INVALID", "DEAD"} /\ price # Price_INVALID
                /\ checkPreTradeRisk(s, Clip, loss))
  <2>1. m.order = o /\ m.send = << >>
    BY <1>4 DEF moveOrder
  <2> QED BY <1>1, <2>1 DEF Moved
<1> QED BY <1>2, <1>3, <1>4

\* New orders get fresh ids and go out only on sides that have nothing in the market.
LEMMA MoveOrdersOrders ==
  ASSUME OrdersInv, NEW bid_price \in Prices \cup {Price_INVALID},
         NEW ask_price \in Prices \cup {Price_INVALID}, NEW loss \in BOOLEAN,
         MoveOrders(bid_price, ask_price, loss)
  PROVE  OrdersInv'
<1> DEFINE bid == moveOrder("BUY", bid_price, next_order_id_, loss)
           n == next_order_id_ + News(bid.send)
           ask == moveOrder("SELL", ask_price, n, loss)
           m == [s \in Sides |-> IF s = "BUY" THEN bid ELSE ask]
           id == [s \in Sides |-> IF s = "BUY" THEN next_order_id_ ELSE n]
           pos == [s \in Sides |-> IF s = "BUY" THEN Len(requests) + 1
                                   ELSE Len(requests) + Len(bid.send) + 1]
<1>1. /\ next_order_id_ \in 1 .. (MaxOrders - 1) /\ MaxOrders \in Nat
      /\ "BUY" \in Sides /\ "SELL" \in Sides /\ "BUY" # "SELL"
      /\ \A s \in Sides : s = "BUY" \/ s = "SELL"
      /\ requests \in Seq(Request)
  BY BoundAssumption DEF OrdersInv, TypeOK, MoveOrders, Sides, MessagesOK
<1>2. /\ order' = [order EXCEPT !["BUY"] = bid.order, !["SELL"] = ask.order]
      /\ next_order_id_' = n + News(ask.send)
      /\ requests' = requests \o bid.send \o ask.send
      /\ UNCHANGED <<position_, responses, open, traded>>
  BY DEF MoveOrders, exchange
<1> HIDE DEF bid
<1>3. Moved("BUY", bid, next_order_id_)
  <2>1. next_order_id_ \in OrderIds
    BY <1>1 DEF OrderIds
  <2> QED BY <1>1, <2>1, MoveOne DEF bid
<1>4. n \in OrderIds /\ (n = next_order_id_ \/ n = next_order_id_ + 1)
  BY <1>1 DEF News, OrderIds
<1> HIDE DEF ask
<1>5. Moved("SELL", ask, n)
  BY <1>1, <1>4, MoveOne DEF ask
<1>6. \A s \in Sides : Moved(s, m[s], id[s])
  BY <1>1, <1>3, <1>5
<1>7. \A s \in Sides : id[s] \in OrderIds /\ id[s] >= next_order_id_
  BY <1>1, <1>4 DEF OrderIds
<1>8. /\ next_order_id_' \in 1 .. (MaxOrders + 1) /\ next_order_id_' >= next_order_id_
      /\ \A s \in Sides : Len(m[s].send) = 1 /\ m[s].send[1].type = "NEW" =>
           id[s] < next_order_id_'
      /\ Len(bid.send) = 1 /\ bid.send[1].type = "NEW" => id["BUY"] # id["SELL"]
  <2>1. Len(bid.send) = 1 /\ bid.send[1].type = "NEW" => n = next_order_id_ + 1
    BY <1>3 DEF Moved, News
  <2>2. /\ next_order_id_' = n \/ next_order_id_' = n + 1
        /\ Len(ask.send) = 1 /\ ask.send[1].type = "NEW" => next_order_id_' = n + 1
    BY <1>2, <1>4, <1>5 DEF Moved, News, OrderIds
  <2>3. n \in Int
    BY <1>4 DEF OrderIds
  <2> HIDE DEF n
  <2> QED BY <1>1, <1>4, <2>1, <2>2, <2>3
<1>9. /\ order' \in [Sides \cup {"INVALID"} -> OMOrder]
      /\ \A s \in Sides : order'[s] = m[s].order
  <2>1. order \in [Sides \cup {"INVALID"} -> OMOrder]
    BY DEF OrdersInv, TypeOK
  <2>2. bid.order \in OMOrder /\ ask.order \in OMOrder
    BY <1>3, <1>5 DEF Moved
  <2> QED BY <1>1, <1>2, <2>1, <2>2
<1>10. /\ requests' \in Seq(Request) /\ Len(requests) \in Nat
       /\ Len(requests') >= Len(requests)
       /\ \A k \in 1 .. Len(requests) : requests'[k] = requests[k]
       /\ \A k \in 1 .. Len(requests') : k > Len(requests) =>
            \E s \in Sides : /\ Len(m[s].send) = 1 /\ requests'[k] = m[s].send[1]
                             /\ k = pos[s]
  <2>1. /\ bid.send \in Seq(Request) /\ Len(bid.send) \in 0 .. 1
        /\ ask.send \in Seq(Request) /\ Len(ask.send) \in 0 .. 1
    BY <1>3, <1>5 DEF Moved
  <2>2. /\ requests' \in Seq(Request) /\ Len(requests) \in Nat /\ Len(requests') >= Len(requests)
        /\ \A k \in 1 .. Len(requests) : requests'[k] = requests[k]
        /\ \A k \in 1 .. Len(requests') : k > Len(requests) =>
             \/ Len(bid.send) = 1 /\ requests'[k] = bid.send[1] /\ k = Len(requests) + 1
             \/ /\ Len(ask.send) = 1 /\ requests'[k] = ask.send[1]
                /\ k = Len(requests) + Len(bid.send) + 1
    <3>1. requests' = Sent(requests, bid.send, ask.send)
      BY <1>2 DEF Sent
    <3>2. PICK a \in Seq(Request), b \in Seq(Request) :
            /\ a = bid.send /\ b = ask.send /\ requests' = Sent(requests, a, b)
            /\ Len(a) \in 0 .. 1 /\ Len(b) \in 0 .. 1
      BY <2>1, <3>1, Zenon
    <3>3. Len(a) \in 0 .. 1 /\ Len(b) \in 0 .. 1
      BY <3>2, Zenon
    <3>4. /\ requests' \in Seq(Request) /\ Len(requests) \in Nat
          /\ Len(requests') = Len(requests) + Len(a) + Len(b)
          /\ \A k \in 1 .. Len(requests) : requests'[k] = requests[k]
          /\ Len(a) = 1 => requests'[Len(requests) + 1] = a[1]
          /\ Len(b) = 1 => requests'[Len(requests) + Len(a) + 1] = b[1]
      <4>1. requests' = Sent(requests, a, b) /\ Len(a) \in 0 .. 1 /\ Len(b) \in 0 .. 1
        BY <3>2, Zenon
      <4>2. requests \in Seq(Request)
        BY <1>1
      <4>3. /\ Sent(requests, a, b) \in Seq(Request) /\ Len(requests) \in Nat
            /\ Len(Sent(requests, a, b)) = Len(requests) + Len(a) + Len(b)
            /\ \A k \in 1 .. Len(requests) : Sent(requests, a, b)[k] = requests[k]
            /\ Len(a) = 1 => Sent(requests, a, b)[Len(requests) + 1] = a[1]
            /\ Len(b) = 1 => Sent(requests, a, b)[Len(requests) + Len(a) + 1] = b[1]
        BY <4>2, <3>3 DEF Sent
      <4> QED BY <4>1, <4>3
    <3>5. Len(requests') >= Len(requests)
      BY <3>4, <3>3
    <3>6. ASSUME NEW k \in 1 .. Len(requests'), k > Len(requests)
          PROVE  \/ Len(a) = 1 /\ k = Len(requests) + 1
                 \/ Len(b) = 1 /\ k = Len(requests) + Len(a) + 1
      <4>1. k \in 1 .. (Len(requests) + Len(a) + Len(b)) /\ Len(requests) \in Nat
        BY <3>4, Zenon
      <4> QED BY <3>3, <3>6, <4>1, OneOrTheOther, Zenon
    <3> QED BY <3>2, <3>4, <3>5, <3>6, Zenon
  <2> QED BY <1>1, <2>2
<1> HIDE DEF m, n, id, pos
\* A side that is active keeps its order; a side that is not has nothing on its way.
<1>11. \A s \in Sides : order[s].state \in Active =>
         /\ order'[s].oid = order[s].oid /\ order'[s].state \in Active
         /\ order[s].state = "PENDING_NEW" => order'[s] = order[s] /\ Len(m[s].send) = 0
  BY <1>6, <1>9 DEF Moved, Active
<1>12. \A s \in Sides : order'[s].oid = order[s].oid \/ order'[s].oid = id[s]
  BY <1>6, <1>9 DEF Moved
<1>13. \A s \in Sides : order[s].state \notin Active =>
         /\ NothingOpen(s) /\ NoResponse(s)
         /\ \A k \in 1 .. Len(requests) : ~(requests[k].type = "NEW" /\ requests[k].side = s)
  BY DEF OrdersInv, OpenAgrees, ResponsesAgree, NewsAgree, NothingOpen, NoResponse, Active
<1>14. \A s \in Sides : /\ NothingOpen(s) => NothingOpen(s)'
                        /\ NoResponse(s) => NoResponse(s)'
  BY <1>2 DEF NothingOpen, NoResponse
<1>15. TypeOK'
  BY <1>2, <1>8, <1>9 DEF OrdersInv, TypeOK
<1>16. MessagesOK'
  BY <1>2, <1>10 DEF OrdersInv, MessagesOK
<1>17. IdsAgree'
  <2>1. ASSUME NEW s \in Sides
        PROVE  /\ order'[s].oid < next_order_id_'
               /\ order'[s].state \in Active => order'[s].oid # 0
               /\ order'[s].oid = order[s].oid
                  \/ /\ order'[s].oid = id[s] /\ Len(m[s].send) = 1 /\ m[s].send[1].type = "NEW"
    <3>1. order[s].oid \in Nat /\ order[s].oid < next_order_id_ /\ next_order_id_ \in Nat
      BY <1>1 DEF OrdersInv, IdsAgree, TypeOK, OMOrder
    <3>2. id[s] \in Nat /\ id[s] # 0 /\ next_order_id_' \in Nat
      BY <1>7, <1>8 DEF OrderIds
    <3>3. CASE order'[s] = order[s]
      BY <1>8, <3>1, <3>2, <3>3 DEF OrdersInv, IdsAgree
    <3>4. CASE order[s].state = "LIVE" /\ order'[s].oid = order[s].oid
      BY <1>8, <3>1, <3>2, <3>4 DEF OrdersInv, IdsAgree, Active
    <3>5. CASE order'[s].oid = id[s] /\ Len(m[s].send) = 1 /\ m[s].send[1].type = "NEW"
      BY <1>8, <3>1, <3>2, <3>5
    <3> QED BY <1>6, <1>9, <3>3, <3>4, <3>5 DEF Moved
  <2>2. order'["BUY"].oid = order'["SELL"].oid => order'["BUY"].oid = 0
    <3>1. /\ order["BUY"].oid < next_order_id_ /\ order["SELL"].oid < next_order_id_
          /\ order["BUY"].oid = order["SELL"].oid => order["BUY"].oid = 0
          /\ order["BUY"].oid \in Nat /\ order["SELL"].oid \in Nat
      BY <1>1 DEF OrdersInv, IdsAgree, TypeOK, OMOrder
    <3>3. /\ id["BUY"] >= next_order_id_ /\ id["SELL"] >= next_order_id_
          /\ id["BUY"] \in Nat /\ id["SELL"] \in Nat /\ next_order_id_ \in Nat
      BY <1>1, <1>7 DEF OrderIds
    <3>2. m["BUY"] = bid
      BY <1>1 DEF m
    <3> QED BY <1>1, <1>8, <2>1, <3>1, <3>2, <3>3
  <2>3. ASSUME NEW k \in 1 .. Len(requests') PROVE requests'[k].oid < next_order_id_'
    <3>1. /\ next_order_id_ \in Nat /\ next_order_id_' \in Nat
          /\ requests'[k] \in Request /\ requests'[k].oid \in Nat
      <4>1. requests'[k] \in Request
        BY <1>10
      <4>2. requests'[k].oid \in OrderIds
        BY <4>1 DEF Request
      <4> QED BY <1>1, <1>8, <4>1, <4>2 DEF OrderIds
    <3>2. CASE k \in 1 .. Len(requests)
      BY <1>8, <1>10, <3>1, <3>2 DEF OrdersInv, IdsAgree
    <3>3. CASE k > Len(requests)
      <4>1. PICK s \in Sides : Len(m[s].send) = 1 /\ requests'[k] = m[s].send[1]
        BY <1>10, <3>3
      <4>2. requests'[k].oid = order'[s].oid
        BY <1>6, <1>9, <4>1 DEF Moved
      <4> QED BY <2>1, <4>2
    <3> QED BY <1>10, <3>2, <3>3
  <2> QED BY <2>1, <2>2, <2>3 DEF IdsAgree
<1>18. NewsAgree'
  <2> SUFFICES ASSUME NEW s \in Sides, NEW k \in 1 .. Len(requests'),
                      requests'[k].type = "NEW", requests'[k].side = s
               PROVE  /\ order'[s].oid = requests'[k].oid
                      /\ order'[s].state = "PENDING_NEW"
                      /\ order'[s].qty = requests'[k].qty
                      /\ NothingOpen(s)' /\ NoResponse(s)'
                      /\ \A j \in 1 .. Len(requests') :
                           requests'[j].type = "NEW" /\ requests'[j].side = s => j = k
    BY ZenonT(60) DEF NewsAgree
  <2>1. CASE k \in 1 .. Len(requests)
    <3>1. /\ requests'[k] = requests[k]
          /\ order[s].oid = requests[k].oid
          /\ order[s].state = "PENDING_NEW"
          /\ order[s].qty = requests[k].qty
          /\ NothingOpen(s) /\ NoResponse(s)
          /\ \A j \in 1 .. Len(requests) :
               requests[j].type = "NEW" /\ requests[j].side = s => j = k
      BY <1>10, <2>1 DEF OrdersInv, NewsAgree
    <3>2. order'[s] = order[s] /\ Len(m[s].send) = 0
      BY <1>11, <3>1 DEF Active
    <3>3. \A j \in 1 .. Len(requests') :
            requests'[j].type = "NEW" /\ requests'[j].side = s => j = k
      <4> SUFFICES ASSUME NEW j \in 1 .. Len(requests'),
                          requests'[j].type = "NEW", requests'[j].side = s
                   PROVE  j = k
        OBVIOUS
      <4>1. ~(j > Len(requests))
        <5> SUFFICES ASSUME j > Len(requests) PROVE FALSE
          OBVIOUS
        <5>1. PICK t \in Sides : Len(m[t].send) = 1 /\ requests'[j] = m[t].send[1]
          BY <1>10
        <5>2. t = s
          BY <1>6, <5>1 DEF Moved
        <5> QED BY <3>2, <5>1, <5>2
      <4> QED BY <1>10, <3>1, <4>1
    <3> QED BY <1>14, <3>1, <3>2, <3>3
  <2>2. CASE k > Len(requests)
    <3>1. PICK t \in Sides : /\ Len(m[t].send) = 1 /\ requests'[k] = m[t].send[1]
                             /\ k = pos[t]
      BY <1>10, <2>2
    <3>2. t = s
      BY <1>6, <3>1 DEF Moved
    <3>3. /\ order[s].state \notin Active /\ order'[s].state = "PENDING_NEW"
          /\ order'[s].oid = requests'[k].oid /\ order'[s].qty = requests'[k].qty
      BY <1>6, <1>9, <3>1, <3>2 DEF Moved
    <3>4. \A j \in 1 .. Len(requests') :
            requests'[j].type = "NEW" /\ requests'[j].side = s => j = k
      <4> SUFFICES ASSUME NEW j \in 1 .. Len(requests'),
                          requests'[j].type = "NEW", requests'[j].side = s
                   PROVE  j = k
        OBVIOUS
      <4>1. j > Len(requests)
        BY <1>10, <1>13, <3>3
      <4>2. PICK u \in Sides : /\ Len(m[u].send) = 1 /\ requests'[j] = m[u].send[1]
                               /\ j = pos[u]
        BY <1>10, <4>1
      <4>3. u = s
        BY <1>6, <4>2 DEF Moved
      <4> QED BY <3>1, <3>2, <4>2, <4>3
    <3> QED BY <1>13, <1>14, <3>3, <3>4
  <2> QED BY <1>10, <2>1, <2>2
<1>19. CancelsAgree'
  <2> SUFFICES ASSUME NEW k \in 1 .. Len(requests'), NEW s \in Sides,
                      requests'[k].type = "CANCEL" /\ requests'[k].oid = order'[s].oid
               PROVE  requests'[k].side = s
    BY Zenon DEF CancelsAgree
  <2>0. /\ next_order_id_ \in Nat /\ id[s] \in Nat /\ id[s] >= next_order_id_
        /\ requests'[k].oid \in Nat
    <3>1. requests'[k] \in Request
      BY <1>10
    <3>2. requests'[k].oid \in OrderIds
      BY <3>1 DEF Request
    <3> QED BY <1>1, <1>7, <3>2 DEF OrderIds
  <2>1. CASE k \in 1 .. Len(requests)
    <3>1. requests'[k] = requests[k] /\ requests[k].oid < next_order_id_
      BY <1>10, <2>1 DEF OrdersInv, IdsAgree
    <3>2. order'[s].oid = order[s].oid
      BY <1>12, <2>0, <3>1
    <3> QED BY <2>1, <3>1, <3>2 DEF OrdersInv, CancelsAgree
  <2>2. CASE k > Len(requests)
    <3>1. PICK t \in Sides : Len(m[t].send) = 1 /\ requests'[k] = m[t].send[1]
      BY <1>10, <2>2
    <3>2. order[t].state = "LIVE" /\ requests'[k].oid = order[t].oid /\ requests'[k].side = t
      BY <1>6, <3>1 DEF Moved
    <3>3. order[t].oid # 0 /\ order[t].oid < next_order_id_
      BY <3>2 DEF OrdersInv, IdsAgree, Active
    <3>4. order'[s].oid = order[s].oid
      <4>1. order'[s].oid # id[s]
        BY <2>0, <3>2, <3>3
      <4> QED BY <1>12, <4>1
    <3> QED BY <1>1, <3>2, <3>3, <3>4 DEF OrdersInv, IdsAgree
  <2> QED BY <1>10, <2>1, <2>2
<1>20. OpenAgrees'
  <2> SUFFICES ASSUME NEW i \in OrderIds, open[i].qty # 0
               PROVE  order'[open[i].side].oid = i /\ order'[open[i].side].state \in Active
    BY <1>2 DEF OpenAgrees
  <2>1. /\ open[i].side \in Sides /\ order[open[i].side].oid = i
        /\ order[open[i].side].state \in Active
    BY DEF OrdersInv, OpenAgrees, TypeOK
  <2> QED BY <1>11, <2>1
<1>21. ResponsesAgree'
  <2> SUFFICES ASSUME NEW s \in Sides, NEW k \in 1 .. Len(responses), responses[k].side = s
               PROVE  /\ order'[s].oid = responses[k].oid
                      /\ order'[s].state \in Active
                      /\ Final(responses[k]) =>
                           /\ NothingOpen(s)'
                           /\ \A j \in (k + 1) .. Len(responses) : responses[j].side # s
    <3>1. responses' = responses
      BY <1>2
    <3> QED BY <3>1 DEF ResponsesAgree
  <2>1. /\ order[s].oid = responses[k].oid /\ order[s].state \in Active
        /\ Final(responses[k]) =>
             /\ NothingOpen(s)
             /\ \A j \in (k + 1) .. Len(responses) : responses[j].side # s
    BY DEF OrdersInv, ResponsesAgree
  <2> QED BY <1>11, <1>14, <2>1
<1> QED BY <1>15, <1>16, <1>17, <1>18, <1>19, <1>20, <1>21 DEF OrdersInv

-----------------------------------------------------------------------------
\* Nothing is under way or open at first.
LEMMA InitOrders == Init => OrdersInv
<1> SUFFICES ASSUME Init PROVE OrdersInv
  OBVIOUS
<1> USE QuoteAssumption, BoundAssumption
<1>1. [state |-> "INVALID", oid |-> 0, price |-> Price_INVALID, qty |-> 0] \in OMOrder
  BY DEF OMOrder, States
<1>2. [side |-> "BUY", qty |-> 0] \in [side : Sides, qty : 0 .. Clip]
  BY DEF Sides
<1>3. TypeOK
  BY <1>1, <1>2 DEF Init, TypeOK
<1>4. /\ \A s \in Sides : order[s].state \notin Active /\ order[s].oid = 0
      /\ \A i \in OrderIds : open[i].qty = 0
      /\ "BUY" \in Sides /\ "SELL" \in Sides
  BY DEF Init, Active, Sides
<1>5. requests = << >> /\ responses = << >> /\ next_order_id_ = 1
  BY DEF Init
<1>6. MessagesOK /\ IdsAgree /\ NewsAgree /\ CancelsAgree /\ OpenAgrees /\ ResponsesAgree
  BY <1>4, <1>5 DEF MessagesOK, IdsAgree, NewsAgree, CancelsAgree, OpenAgrees, ResponsesAgree
<1> QED BY <1>3, <1>6 DEF OrdersInv

\* OrdersInv is inductive.
LEMMA NextOrders == OrdersInv /\ [Next]_vars => OrdersInv'
<1> SUFFICES ASSUME OrdersInv, [Next]_vars PROVE OrdersInv'
  OBVIOUS
<1>1. ASSUME NEW q \in Quotes, NEW loss \in BOOLEAN, MoveOrders(q[1], q[2], loss)
      PROVE  OrdersInv'
  <2>1. q[1] \in Prices \cup {Price_INVALID} /\ q[2] \in Prices \cup {Price_INVALID}
    BY DEF Quotes, MakerQuotes, TakerQuotes
  <2> QED BY <1>1, <2>1, MoveOrdersOrders
<1>2. CASE AcceptNew
  BY <1>2, AcceptNewOrders
<1>3. CASE HandleCancel
  BY <1>3, HandleCancelOrders
<1>4. ASSUME NEW i \in OrderIds, NEW qty \in 1 .. Clip, Fill(i, qty) PROVE OrdersInv'
  BY <1>4, FillOrders
<1>5. CASE HandleResponse
  BY <1>5, HandleResponseOrders
<1>6. CASE UNCHANGED vars
  <2>1. UNCHANGED <<order, next_order_id_, position_, requests, responses, open, traded>>
    BY <1>6 DEF vars, manager, exchange
  <2> QED BY <2>1 DEF OrdersInv, TypeOK, MessagesOK, IdsAgree, NewsAgree, CancelsAgree,
                      OpenAgrees, ResponsesAgree, NothingOpen, NoResponse
<1> QED BY <1>1, <1>2, <1>3, <1>4, <1>5, <1>6 DEF Next

\* However cancels, fills and new orders cross between OrderManager and the exchange,
\* each side has at most one order that can trade, and it is the OMOrder's.
THEOREM OneOrder == Spec => []OneOrderPerSide
<1>1. OrdersInv => OneOrderPerSide
  <2> SUFFICES ASSUME OrdersInv, NEW side \in Sides, NEW i \in Exposed(side)
               PROVE  order[side].oid = i /\ order[side].state \in Active
    BY DEF OneOrderPerSide, Active
  <2>1. CASE i \in OrderIds /\ open[i].qty # 0 /\ open[i].side = side
    BY <2>1 DEF OrdersInv, OpenAgrees
  <2>2. ASSUME NEW k \in 1 .. Len(requests), i = requests[k].oid,
               requests[k].type = "NEW", requests[k].side = side
        PROVE  order[side].oid = i /\ order[side].state \in Active
    BY <2>2 DEF OrdersInv, NewsAgree, Active
  <2> QED BY <2>1, <2>2 DEF Exposed
<1> QED BY <1>1, InitOrders, NextOrders, PTL DEF Spec

-----------------------------------------------------------------------------
(* The limit. *)

\* A response e is sent, after which n is left of the order of side s.
LEMMA LeadsOn ==
  ASSUME OrdersInv, NEW s \in Sides, NEW left \in Lefts, Leads(s, left),
         order'[s].qty = order[s].qty,
         NEW e \in Response, responses' = Append(responses, e), NEW n \in 0 .. Clip,
         left[Len(responses)] = n + (IF e.type = "FILLED" /\ e.side = s THEN e.exec ELSE 0),
         e.type = "FILLED" /\ e.side = s => e.leaves = n,
         \A i \in OrderIds : open'[i].qty # 0 /\ open'[i].side = s => n = open'[i].qty
  PROVE  \E new \in Lefts' : Leads(s, new)' /\ new[Len(responses')] = n
<1> DEFINE L == Len(responses)
<1>1. /\ L \in Nat /\ Clip \in Nat
      /\ responses' \in Seq(Response) /\ Len(responses') = L + 1
      /\ \A k \in 1 .. L : responses'[k] = responses[k]
      /\ responses'[L + 1] = e
  BY AppendFacts, QuoteAssumption DEF OrdersInv, MessagesOK
<1>2. PICK new \in [0 .. (L + 1) -> 0 .. Clip] :
        /\ \A k \in 0 .. L : left[k] \in 0 .. Clip /\ new[k] = left[k]
        /\ new[L + 1] = n
  <2> DEFINE f == [k \in 0 .. (L + 1) |-> IF k = L + 1 THEN n ELSE left[k]]
  <2>1. \A k \in 0 .. L : left[k] \in 0 .. Clip
    BY DEF Lefts
  <2>2. \A k \in 0 .. L : k # L + 1 /\ k \in 0 .. (L + 1)
    BY <1>1
  <2>3. \A k \in 0 .. (L + 1) : k = L + 1 \/ k \in 0 .. L
    BY <1>1
  <2>4. f \in [0 .. (L + 1) -> 0 .. Clip]
    BY <2>1, <2>3
  <2>5. L + 1 \in 0 .. (L + 1)
    BY <1>1
  <2>6. (\A k \in 0 .. L : f[k] = left[k]) /\ f[L + 1] = n
    BY <2>2, <2>5
  <2> QED BY <2>1, <2>4, <2>6
<1>3. new \in Lefts'
  BY <1>1, <1>2 DEF Lefts
<1>4. e.exec \in Nat /\ n <= left[L]
  <2>1. e.exec \in 0 .. Clip
    BY DEF Response
  <2> QED BY <1>1, <2>1
<1>5. new[0] = order'[s].qty
  BY <1>1, <1>2 DEF Leads
<1>6. ASSUME NEW k \in 1 .. (L + 1)
      PROVE  /\ new[k - 1] = new[k] + (IF FillAt(k, s)' THEN responses'[k].exec ELSE 0)
             /\ FillAt(k, s)' => new[k] = responses'[k].leaves
  <2>1. CASE k \in 1 .. L
    <3>1. /\ left[k - 1] = left[k] + (IF FillAt(k, s) THEN responses[k].exec ELSE 0)
          /\ FillAt(k, s) => left[k] = responses[k].leaves
      BY <2>1 DEF Leads
    <3>2. responses'[k] = responses[k] /\ new[k] = left[k] /\ new[k - 1] = left[k - 1]
      BY <1>1, <1>2, <2>1
    <3> QED BY <3>1, <3>2 DEF FillAt
  <2>2. CASE k = L + 1
    <3>1. responses'[k] = e /\ new[k] = n /\ new[k - 1] = left[L]
      BY <1>1, <1>2, <2>2
    <3> QED BY <3>1 DEF FillAt
  <2> QED BY <1>1, <2>1, <2>2
<1>7. ASSUME NEW j \in 0 .. (L + 1), NEW k \in 0 .. (L + 1), j <= k
      PROVE  new[k] <= new[j]
  <2>1. \A i \in 0 .. L : left[L] <= left[i]
    BY <1>1 DEF Leads
  <2>2. CASE k \in 0 .. L
    BY <1>1, <1>2, <1>7, <2>2, SMTT(30) DEF Leads
  <2>3. CASE k = L + 1 /\ j \in 0 .. L
    <3>1. left[j] \in Int /\ left[L] \in Int /\ left[L] <= left[j] /\ n \in Int
      BY <1>1, <1>2, <2>1, <2>3
    <3> QED BY <1>2, <1>4, <2>3, <3>1
  <2>4. CASE k = L + 1 /\ j = L + 1
    BY <1>1, <1>2, <2>4
  <2> QED BY <1>1, <2>2, <2>3, <2>4
<1>8. ASSUME NEW j \in 0 .. (L + 1),
             \A k \in (j + 1) .. (L + 1) : responses'[k].side # s
      PROVE  new[L + 1] = new[j]
  <2>1. CASE j \in 0 .. L
    <3>1. e.side # s
      BY <1>1, <1>8, <2>1, SMTT(30)
    <3>2. \A k \in (j + 1) .. L : responses[k].side # s
      BY <1>1, <1>8, <2>1
    <3>3. left[L] = left[j]
      BY <2>1, <3>2 DEF Leads
    <3>4. left[L] = n
      BY <3>1, <1>1
    <3> QED BY <1>1, <1>2, <2>1, <3>3, <3>4
  <2> QED BY <1>1, <2>1
<1>9. \A i \in OrderIds : open'[i].qty # 0 /\ open'[i].side = s => new[L + 1] = open'[i].qty
  BY <1>2
<1> HIDE DEF L
<1>10. Leads(s, new)'
  BY <1>1, <1>5, <1>6, <1>7, <1>8, <1>9, ZenonT(60) DEF Leads
<1> QED BY <1>1, <1>2, <1>3, <1>10

\* A response that is not a fill leaves the fills under way as they are.
LEMMA LeadsOnWithoutFill ==
  ASSUME OrdersInv, NEW s \in Sides, NEW left \in Lefts, Leads(s, left), UNCHANGED order,
         NEW e \in Response, responses' = Append(responses, e), e.type # "FILLED",
         \A i \in OrderIds : open'[i].qty # 0 /\ open'[i].side = s =>
           left[Len(responses)] = open'[i].qty
  PROVE  \E new \in Lefts' : Leads(s, new)' /\ UnderWay(s, new)' = UnderWay(s, left)
<1>1. Len(responses) \in Nat /\ Clip \in Nat
  BY QuoteAssumption DEF OrdersInv, MessagesOK
<1>2. left[Len(responses)] \in 0 .. Clip
  BY <1>1 DEF Lefts
<1>3. PICK n \in 0 .. Clip : n = left[Len(responses)]
  BY <1>2
<1>4. n = n + 0
  BY <1>1
<1>5. PICK new \in Lefts' : Leads(s, new)' /\ new[Len(responses')] = n
  BY <1>3, <1>4, LeadsOn
<1> QED BY <1>3, <1>5 DEF UnderWay

\* What is accepted is the whole of the OMOrder: no fill of it can be under way.
LEMMA AcceptNewLeads ==
  ASSUME OrdersInv, AcceptNew, NEW s \in Sides, NEW left \in Lefts, Leads(s, left)
  PROVE  \E new \in Lefts' : Leads(s, new)' /\ UnderWay(s, new)' = UnderWay(s, left)
<1>1. requests \in Seq(Request) /\ requests # << >>
  BY DEF OrdersInv, MessagesOK, AcceptNew
<1>2. /\ Head(requests) = requests[1] /\ requests[1] \in Request
      /\ Len(requests) >= 1 /\ Len(requests) \in Nat
  BY <1>1, TailFacts
<1>3. PICK r \in Request : r = requests[1]
  BY <1>2
<1>4. /\ r.type = "NEW" /\ r.side \in Sides /\ r.oid \in OrderIds /\ r.qty \in 0 .. Clip
      /\ 0 \in 0 .. Clip
  BY <1>2, <1>3, QuoteAssumption DEF AcceptNew, Request
<1>5. /\ open' = [open EXCEPT ![r.oid] = [side |-> r.side, qty |-> r.qty]]
      /\ UNCHANGED order
  BY <1>2, <1>3 DEF AcceptNew, manager
<1>6. PICK e \in Response : e.type # "FILLED" /\ responses' = Append(responses, e)
  <2> DEFINE f == [type |-> "ACCEPTED", side |-> r.side, oid |-> r.oid,
                   exec |-> 0, leaves |-> r.qty]
  <2>1. f \in Response /\ f.type # "FILLED"
    BY <1>4 DEF Response
  <2>2. responses' = Append(responses, f)
    BY <1>2, <1>3 DEF AcceptNew
  <2> QED BY <2>1, <2>2
<1>7. r.side = s => left[Len(responses)] = r.qty
  <2> SUFFICES ASSUME r.side = s PROVE left[Len(responses)] = r.qty
    OBVIOUS
  <2>1. order[s].qty = r.qty /\ NoResponse(s)
    BY <1>2, <1>3, <1>4 DEF OrdersInv, NewsAgree
  <2>2. Len(responses) \in Nat
    BY DEF OrdersInv, MessagesOK
  <2>3. left[Len(responses)] = left[0]
    BY <2>1, <2>2 DEF Leads, NoResponse
  <2> QED BY <2>1, <2>3 DEF Leads
<1>8. ASSUME NEW i \in OrderIds, open'[i].qty # 0, open'[i].side = s
      PROVE  left[Len(responses)] = open'[i].qty
  <2>1. CASE i = r.oid
    <3>1. open'[i].side = r.side /\ open'[i].qty = r.qty
      BY <1>4, <1>5, <2>1 DEF OrdersInv, TypeOK
    <3> QED BY <1>7, <1>8, <3>1
  <2>2. CASE i # r.oid
    <3>1. open'[i] = open[i]
      BY <1>5, <2>2 DEF OrdersInv, TypeOK
    <3> QED BY <1>8, <3>1 DEF Leads
  <2> QED BY <2>1, <2>2
<1> QED BY <1>5, <1>6, <1>8, LeadsOnWithoutFill

\* A cancel takes no fill back.
LEMMA HandleCancelLeads ==
  ASSUME OrdersInv, HandleCancel, NEW s \in Sides, NEW left \in Lefts, Leads(s, left)
  PROVE  \E new \in Lefts' : Leads(s, new)' /\ UnderWay(s, new)' = UnderWay(s, left)
<1>1. requests \in Seq(Request) /\ requests # << >>
  BY DEF OrdersInv, MessagesOK, HandleCancel
<1>2. Head(requests) = requests[1] /\ requests[1] \in Request
  BY <1>1, TailFacts
<1>3. PICK r \in Request : r = requests[1]
  BY <1>2
<1>4. /\ r.side \in Sides /\ r.oid \in OrderIds /\ 0 \in 0 .. Clip
      /\ open[r.oid].qty \in 0 .. Clip
  BY QuoteAssumption DEF Request, OrdersInv, TypeOK
<1>5. UNCHANGED order
  BY DEF HandleCancel, manager
<1>6. PICK e \in Response : e.type # "FILLED" /\ responses' = Append(responses, e)
  <2> DEFINE f == [type |-> "CANCELED", side |-> r.side, oid |-> r.oid,
                   exec |-> 0, leaves |-> open[r.oid].qty]
             g == [type |-> "CANCEL_REJECTED", side |-> "INVALID", oid |-> r.oid,
                   exec |-> 0, leaves |-> 0]
  <2>1. f \in Response /\ f.type # "FILLED" /\ g \in Response /\ g.type # "FILLED"
    BY <1>4 DEF Response
  <2>2. responses' = Append(responses, f) \/ responses' = Append(responses, g)
    BY <1>2, <1>3 DEF HandleCancel
  <2> HIDE DEF f, g
  <2> QED BY <2>1, <2>2
<1>7. \A i \in OrderIds : open'[i].qty # 0 => open'[i] = open[i]
  <2>1. open' = [open EXCEPT ![r.oid].qty = 0] \/ open' = open
    BY <1>2, <1>3 DEF HandleCancel
  <2> QED BY <1>4, <2>1 DEF OrdersInv, TypeOK
<1>8. \A i \in OrderIds : open'[i].qty # 0 /\ open'[i].side = s =>
        left[Len(responses)] = open'[i].qty
  BY <1>7 DEF Leads
<1> QED BY <1>5, <1>6, <1>8, LeadsOnWithoutFill

\* A fill is under way from the moment it happens.
LEMMA FillLeads ==
  ASSUME NEW i \in OrderIds, NEW qty \in 1 .. Clip, OrdersInv, Fill(i, qty),
         NEW s \in Sides, NEW left \in Lefts, Leads(s, left)
  PROVE  \E new \in Lefts' :
           /\ Leads(s, new)'
           /\ UnderWay(s, new)' = UnderWay(s, left) + IF s = open[i].side THEN qty ELSE 0
<1>1. /\ open[i].side \in Sides /\ open[i].qty \in 0 .. Clip /\ Clip \in Nat
      /\ Len(responses) \in Nat /\ left[Len(responses)] \in 0 .. Clip
      /\ order[s] \in OMOrder /\ order[s].qty \in 0 .. Clip
  BY QuoteAssumption DEF OrdersInv, TypeOK, MessagesOK, Lefts, OMOrder
<1>2. /\ qty \in 1 .. open[i].qty /\ open' = [open EXCEPT ![i].qty = open[i].qty - qty]
      /\ UNCHANGED order
  BY DEF Fill, manager
<1>3. open[i].qty - qty \in 0 .. Clip /\ open[i].qty # 0
  BY <1>1, <1>2
<1>4. PICK e \in Response : /\ e.type = "FILLED" /\ e.side = open[i].side /\ e.exec = qty
                            /\ e.leaves = open[i].qty - qty
                            /\ responses' = Append(responses, e)
  <2> DEFINE f == [type |-> "FILLED", side |-> open[i].side, oid |-> i,
                   exec |-> qty, leaves |-> open[i].qty - qty]
  <2>1. /\ f \in Response /\ f.type = "FILLED" /\ f.side = open[i].side /\ f.exec = qty
        /\ f.leaves = open[i].qty - qty
    BY <1>1, <1>3 DEF Response
  <2>2. responses' = Append(responses, f)
    BY DEF Fill
  <2> HIDE DEF f
  <2> QED BY <2>1, <2>2
<1>5. /\ open'[i].side = open[i].side /\ open'[i].qty = open[i].qty - qty
      /\ \A j \in OrderIds : j # i => open'[j] = open[j]
  BY <1>1, <1>2 DEF OrdersInv, TypeOK
<1>6. CASE s = open[i].side
  <2>1. left[Len(responses)] = open[i].qty
    BY <1>3, <1>6 DEF Leads
  <2>2. PICK n \in 0 .. Clip : n = open[i].qty - qty
    BY <1>3
  <2>3. ASSUME NEW j \in OrderIds, open'[j].qty # 0, open'[j].side = s
        PROVE  n = open'[j].qty
    <3>1. j = i
      BY <1>3, <1>5, <1>6, <2>3 DEF OrdersInv, OpenAgrees
    <3> QED BY <1>5, <2>2, <3>1
  <2>4. left[Len(responses)] = n + e.exec /\ e.leaves = n
    BY <1>1, <1>4, <2>1, <2>2
  <2>5. PICK new \in Lefts' : Leads(s, new)' /\ new[Len(responses')] = n
    BY <1>2, <1>4, <1>6, <2>3, <2>4, LeadsOn, SMTT(60)
  <2>6. UnderWay(s, new)' = UnderWay(s, left) + qty
    BY <1>1, <1>2, <2>1, <2>2, <2>5 DEF UnderWay
  <2> QED BY <1>6, <2>5, <2>6
<1>7. CASE s # open[i].side
  <2>1. PICK n \in 0 .. Clip : n = left[Len(responses)]
    BY <1>1
  <2>2. n = n + 0
    BY <1>1
  <2>3. ASSUME NEW j \in OrderIds, open'[j].qty # 0, open'[j].side = s
        PROVE  n = open'[j].qty
    BY <1>5, <1>7, <2>1, <2>3 DEF Leads
  <2>4. PICK new \in Lefts' : Leads(s, new)' /\ new[Len(responses')] = n
    BY <1>2, <1>4, <1>7, <2>1, <2>2, <2>3, LeadsOn
  <2>5. UnderWay(s, new)' = UnderWay(s, left) + 0
    BY <1>1, <1>2, <2>1, <2>4 DEF UnderWay
  <2> QED BY <1>7, <2>4, <2>5
<1> QED BY <1>6, <1>7

\* What TradeEngine makes of the first response.
LEMMA ResponseFacts ==
  ASSUME OrdersInv, HandleResponse
  PROVE  /\ responses[1] \in Response /\ Len(responses) \in Nat /\ Len(responses) >= 1
         /\ Len(responses') = Len(responses) - 1
         /\ \A k \in 1 .. Len(responses') : responses'[k] = responses[k + 1]
         /\ position_' = addFill(responses[1])
         /\ UNCHANGED <<open, traded>>
         /\ \A s \in Sides :
              /\ order'[s].qty = IF FillAt(1, s) THEN responses[1].leaves ELSE order[s].qty
              /\ order'[s].state \in Active => order[s].state \in Active
              /\ FillAt(1, s) => order[s].state \in Active
              /\ FillAt(1, s) /\ responses[1].leaves # 0 => order'[s].state \in Active
<1>1. responses \in Seq(Response) /\ responses # << >>
  BY DEF OrdersInv, MessagesOK, HandleResponse
<1>2. /\ Head(responses) = responses[1] /\ responses[1] \in Response
      /\ Len(responses) >= 1 /\ Len(responses) \in Nat
      /\ Len(responses') = Len(responses) - 1
      /\ \A k \in 1 .. Len(responses') : responses'[k] = responses[k + 1]
  BY <1>1, TailFacts DEF HandleResponse
<1>3. PICK r \in Response : r = responses[1]
  BY <1>2
<1>4. /\ r.side \in Sides \cup {"INVALID"} /\ "INVALID" \notin Sides
      /\ order \in [Sides \cup {"INVALID"} -> OMOrder] /\ order[r.side] \in OMOrder
  BY DEF Response, OrdersInv, TypeOK, Sides
<1>5. /\ order' = [order EXCEPT ![r.side] = onOrderUpdate(order[r.side], r)]
      /\ position_' = addFill(r) /\ UNCHANGED <<open, traded>>
  BY <1>2, <1>3 DEF HandleResponse, exchange
<1>6. ASSUME NEW s \in Sides
      PROVE  /\ order'[s].qty = IF FillAt(1, s) THEN r.leaves ELSE order[s].qty
             /\ order'[s].state \in Active => order[s].state \in Active
             /\ FillAt(1, s) => order[s].state \in Active
             /\ FillAt(1, s) /\ r.leaves # 0 => order'[s].state \in Active
  <2>1. CASE s = r.side
    <3>1. order[s].state \in Active
      BY <1>2, <1>3, <2>1 DEF OrdersInv, ResponsesAgree
    <3>2. order'[s] = onOrderUpdate(order[s], r)
      BY <1>4, <1>5, <2>1
    <3>3. FillAt(1, s) <=> r.type = "FILLED"
      BY <1>3, <2>1 DEF FillAt
    <3>4. order'[s].qty = IF r.type = "FILLED" THEN r.leaves ELSE order[s].qty
      BY <1>4, <2>1, <3>2, UpdateFacts
    <3>5. ~Final(r) => order'[s].state \in Active
      BY <1>4, <2>1, <3>1, <3>2, UpdateFacts
    <3> QED BY <3>1, <3>3, <3>4, <3>5 DEF Final
  <2>2. CASE s # r.side
    <3>1. order'[s] = order[s]
      BY <1>4, <1>5, <2>2
    <3>2. ~FillAt(1, s)
      BY <1>3, <2>2 DEF FillAt
    <3> QED BY <3>1, <3>2
  <2> QED BY <2>1, <2>2
<1> QED BY <1>2, <1>3, <1>5, <1>6

\* A fill that is handled is no longer under way.
LEMMA HandleResponseLeads ==
  ASSUME OrdersInv, HandleResponse, NEW s \in Sides, NEW left \in Lefts, Leads(s, left)
  PROVE  \E new \in Lefts' :
           /\ Leads(s, new)'
           /\ UnderWay(s, new)' =
                UnderWay(s, left) - IF FillAt(1, s) THEN responses[1].exec ELSE 0
<1> DEFINE L == Len(responses)
           L1 == Len(responses')
<1>1. /\ L \in Nat /\ L >= 1 /\ L1 = L - 1 /\ L1 \in Nat /\ Clip \in Nat
      /\ \A k \in 1 .. L1 : responses'[k] = responses[k + 1]
      /\ order'[s].qty = IF FillAt(1, s) THEN responses[1].leaves ELSE order[s].qty
      /\ open' = open
  BY ResponseFacts, QuoteAssumption
<1>2. PICK new \in [0 .. L1 -> 0 .. Clip] :
        \A k \in 0 .. L1 : k + 1 \in 0 .. L /\ new[k] = left[k + 1]
  <2> DEFINE f == [k \in 0 .. L1 |-> left[k + 1]]
  <2>1. \A k \in 0 .. L1 : k + 1 \in 0 .. L
    BY <1>1
  <2>2. \A k \in 0 .. L1 : left[k + 1] \in 0 .. Clip
    BY <2>1 DEF Lefts
  <2>3. f \in [0 .. L1 -> 0 .. Clip] /\ \A k \in 0 .. L1 : f[k] = left[k + 1]
    BY <2>2
  <2> QED BY <2>1, <2>3
<1>3. new \in Lefts'
  BY DEF Lefts
<1>4. /\ \A k \in 0 .. L : left[k] \in 0 .. Clip
      /\ left[0] = order[s].qty
      /\ left[0] = left[1] + (IF FillAt(1, s) THEN responses[1].exec ELSE 0)
      /\ FillAt(1, s) => left[1] = responses[1].leaves
  <2>1. 1 \in 1 .. L
    BY <1>1
  <2>2. left[1 - 1] = left[1] + (IF FillAt(1, s) THEN responses[1].exec ELSE 0)
    BY <2>1 DEF Leads
  <2>3. left[0] = left[1] + (IF FillAt(1, s) THEN responses[1].exec ELSE 0)
    BY <2>2
  <2>4. left[0] = order[s].qty /\ (FillAt(1, s) => left[1] = responses[1].leaves)
    BY <2>1 DEF Leads
  <2>5. \A k \in 0 .. L : left[k] \in 0 .. Clip
    BY DEF Lefts
  <2> QED BY <2>3, <2>4, <2>5
<1>5. /\ new[0] = left[1] /\ new[L1] = left[L]
      /\ left[0] \in 0 .. Clip /\ left[1] \in 0 .. Clip /\ left[L] \in 0 .. Clip
  BY <1>1, <1>2, <1>4
<1>6. new[0] = order'[s].qty
  <2>1. CASE FillAt(1, s)
    BY <1>1, <1>4, <1>5, <2>1
  <2>2. CASE ~FillAt(1, s)
    BY <1>1, <1>4, <1>5, <2>2
  <2> QED BY <2>1, <2>2
<1>7. ASSUME NEW k \in 1 .. L1
      PROVE  /\ new[k - 1] = new[k] + (IF FillAt(k, s)' THEN responses'[k].exec ELSE 0)
             /\ FillAt(k, s)' => new[k] = responses'[k].leaves
  <2>1. /\ k + 1 \in 1 .. L /\ k - 1 \in 0 .. L1 /\ k \in 0 .. L1 /\ (k - 1) + 1 = k
        /\ (k + 1) - 1 = k
    BY <1>1
  <2>2. new[k - 1] = left[k] /\ new[k] = left[k + 1] /\ responses'[k] = responses[k + 1]
    BY <1>1, <1>2, <2>1
  <2>3. /\ left[k] = left[k + 1] + (IF FillAt(k + 1, s) THEN responses[k + 1].exec ELSE 0)
        /\ FillAt(k + 1, s) => left[k + 1] = responses[k + 1].leaves
    BY <2>1 DEF Leads
  <2>4. FillAt(k, s)' <=> FillAt(k + 1, s)
    BY <2>2 DEF FillAt
  <2> QED BY <2>2, <2>3, <2>4
<1>8. ASSUME NEW j \in 0 .. L1, NEW k \in 0 .. L1, j <= k PROVE new[k] <= new[j]
  <2>1. j + 1 \in 0 .. L /\ k + 1 \in 0 .. L /\ j + 1 <= k + 1
    BY <1>1, <1>8
  <2> QED BY <1>2, <2>1 DEF Leads
<1>9. ASSUME NEW j \in 0 .. L1, \A k \in (j + 1) .. L1 : responses'[k].side # s
      PROVE  new[L1] = new[j]
  <2>1. ASSUME NEW k \in ((j + 1) + 1) .. L PROVE responses[k].side # s
    <3>1. k - 1 \in (j + 1) .. L1 /\ k - 1 \in 1 .. L1 /\ (k - 1) + 1 = k
      BY <1>1
    <3> QED BY <1>1, <1>9, <3>1
  <2>2. j + 1 \in 0 .. L
    BY <1>1
  <2>3. left[L] = left[j + 1]
    BY <2>1, <2>2 DEF Leads
  <2> QED BY <1>2, <1>5, <2>3
<1>10. \A i \in OrderIds : open'[i].qty # 0 /\ open'[i].side = s => new[L1] = open'[i].qty
  BY <1>1, <1>5 DEF Leads
<1>11. Leads(s, new)'
  BY <1>6, <1>7, <1>8, <1>9, <1>10 DEF Leads
<1>12. UnderWay(s, new)' =
         UnderWay(s, left) - IF FillAt(1, s) THEN responses[1].exec ELSE 0
  <2>1. responses[1].exec \in 0 .. Clip
    BY ResponseFacts DEF Response
  <2>2. left[L] \in Int /\ left[0] \in Int /\ left[1] \in Int /\ responses[1].exec \in Int
    BY <1>1, <1>5, <2>1
  <2>3. UnderWay(s, new)' = left[1] - left[L] /\ UnderWay(s, left) = left[0] - left[L]
    BY <1>4, <1>5, <1>6 DEF UnderWay
  <2> QED BY <1>4, <2>2, <2>3, SMTT(30)
<1> QED BY <1>3, <1>11, <1>12

\* What moveOrders makes of the quantities at risk.
LEMMA MoveFacts ==
  ASSUME OrdersInv, NEW bid_price \in Prices \cup {Price_INVALID},
         NEW ask_price \in Prices \cup {Price_INVALID}, NEW loss \in BOOLEAN,
         MoveOrders(bid_price, ask_price, loss), NEW s \in Sides
  PROVE  /\ UNCHANGED <<position_, responses, open, traded>>
         /\ \/ /\ order'[s].qty = order[s].qty
               /\ order'[s].state \in Active <=> order[s].state \in Active
            \/ /\ order[s].state \notin Active /\ order'[s].state \in Active
               /\ order'[s].qty = Clip
               /\ Abs(position_ + sideToValue(s) * Clip) <= MaxPosition
<1> DEFINE bid == moveOrder("BUY", bid_price, next_order_id_, loss)
           n == next_order_id_ + News(bid.send)
           ask == moveOrder("SELL", ask_price, n, loss)
<1>1. /\ next_order_id_ \in 1 .. (MaxOrders - 1) /\ MaxOrders \in Nat
      /\ "BUY" \in Sides /\ "SELL" \in Sides /\ (s = "BUY" \/ s = "SELL")
      /\ order \in [Sides \cup {"INVALID"} -> OMOrder]
  BY BoundAssumption DEF OrdersInv, TypeOK, MoveOrders, Sides
<1>2. /\ order' = [order EXCEPT !["BUY"] = bid.order, !["SELL"] = ask.order]
      /\ UNCHANGED <<position_, responses, open, traded>>
  BY DEF MoveOrders, exchange
<1> HIDE DEF bid
<1>3. next_order_id_ \in OrderIds /\ n \in OrderIds
  BY <1>1 DEF OrderIds, News
<1>4. Moved("BUY", bid, next_order_id_)
  BY <1>1, <1>3, MoveOne DEF bid
<1> HIDE DEF ask, n
<1>5. Moved("SELL", ask, n)
  BY <1>1, <1>3, MoveOne DEF ask
<1>6. PICK m, id : Moved(s, m, id) /\ order'[s] = m.order
  BY <1>1, <1>2, <1>4, <1>5
<1> QED BY <1>2, <1>6 DEF Moved, Active

\* A side that gets a new order has no fills under way.
LEMMA MoveOrdersLeads ==
  ASSUME OrdersInv, NEW bid_price \in Prices \cup {Price_INVALID},
         NEW ask_price \in Prices \cup {Price_INVALID}, NEW loss \in BOOLEAN,
         MoveOrders(bid_price, ask_price, loss),
         NEW s \in Sides, NEW left \in Lefts, Leads(s, left)
  PROVE  \E new \in Lefts' : Leads(s, new)' /\ UnderWay(s, new)' = UnderWay(s, left)
<1>1. UNCHANGED <<position_, responses, open, traded>>
  BY MoveFacts
<1>2. CASE order'[s].qty = order[s].qty
  BY <1>1, <1>2 DEF Leads, Lefts, UnderWay, FillAt
<1>3. CASE order[s].state \notin Active /\ order'[s].qty = Clip
  <2>1. NothingOpen(s) /\ NoResponse(s)
    BY <1>3 DEF OrdersInv, OpenAgrees, ResponsesAgree, NothingOpen, NoResponse
  <2>2. /\ Len(responses) \in Nat /\ Clip \in Nat
        /\ order[s] \in OMOrder /\ order[s].qty \in 0 .. Clip
    BY QuoteAssumption DEF OrdersInv, MessagesOK, TypeOK, OMOrder
  <2>3. UnderWay(s, left) = 0
    <3>1. left[Len(responses)] = left[0]
      BY <2>1, <2>2 DEF Leads, NoResponse
    <3> QED BY <2>2, <3>1 DEF Leads, UnderWay
  <2>4. PICK new \in Lefts : \A k \in 0 .. Len(responses) : new[k] = Clip
    <3>1. [k \in 0 .. Len(responses) |-> Clip] \in Lefts
      BY <2>2 DEF Lefts
    <3> QED BY <3>1
  <2>5. /\ \A k \in 1 .. Len(responses) : ~FillAt(k, s)
        /\ \A k \in 1 .. Len(responses) : k \in 0 .. Len(responses) /\ k - 1 \in 0 .. Len(responses)
        /\ 0 \in 0 .. Len(responses) /\ Len(responses) \in 0 .. Len(responses)
    BY <2>1, <2>2 DEF FillAt, NoResponse
  <2>6. Leads(s, new)'
    <3>1. new[0] = order'[s].qty
      BY <1>3, <2>4, <2>5
    <3>2. \A k \in 1 .. Len(responses) : new[k - 1] = new[k] + 0
      BY <2>2, <2>4, <2>5
    <3>3. \A j, k \in 0 .. Len(responses) : j <= k => new[k] <= new[j]
      BY <2>2, <2>4
    <3>4. \A k \in 1 .. Len(responses) : FillAt(k, s)' <=> FillAt(k, s)
      BY <1>1 DEF FillAt
    <3>5. responses' = responses /\ open' = open
      BY <1>1
    <3>6. \A i \in OrderIds : ~(open[i].qty # 0 /\ open[i].side = s)
      BY <2>1 DEF NothingOpen
    <3> QED BY <2>4, <2>5, <3>1, <3>2, <3>3, <3>4, <3>5, <3>6 DEF Leads
  <2>7. UnderWay(s, new)' = 0 /\ new \in Lefts'
    BY <1>1, <1>3, <2>2, <2>4, <2>5 DEF UnderWay, Lefts
  <2> QED BY <2>3, <2>6, <2>7
<1> QED BY <1>2, <1>3, MoveFacts

\* An order that is not active has no fills under way; one that is has at most its
\* quantity.
LEMMA UnderWayBounds ==
  ASSUME OrdersInv, NEW s \in Sides, NEW left \in Lefts, Leads(s, left)
  PROVE  /\ UnderWay(s, left) \in Int /\ Exposure(s) \in Int
         /\ 0 <= UnderWay(s, left) /\ UnderWay(s, left) <= Exposure(s)
<1>1. /\ Len(responses) \in Nat /\ Clip \in Nat
      /\ order[s] \in OMOrder /\ order[s].qty \in 0 .. Clip
  BY QuoteAssumption DEF OrdersInv, MessagesOK, TypeOK, OMOrder
<1>2. left[Len(responses)] \in 0 .. Clip /\ 0 \in 0 .. Len(responses)
      /\ Len(responses) \in 0 .. Len(responses) /\ 0 <= Len(responses)
  BY <1>1 DEF Lefts
<1>3. left[Len(responses)] <= order[s].qty
  BY <1>2 DEF Leads
<1>4. CASE order[s].state \in Active
  BY <1>1, <1>2, <1>3, <1>4 DEF UnderWay, Exposure
<1>5. CASE order[s].state \notin Active
  <2>1. NoResponse(s)
    BY <1>5 DEF OrdersInv, ResponsesAgree, NoResponse
  <2>2. left[Len(responses)] = order[s].qty
    BY <1>1, <1>2, <2>1 DEF Leads, NoResponse
  <2> QED BY <1>1, <1>5, <2>2 DEF UnderWay, Exposure
<1> QED BY <1>4, <1>5

\* A fill moves the exchange's position at once and the client's when it is handled.
LEMMA NextPositions == Inv /\ [Next]_vars => PositionsAgree'
<1> SUFFICES ASSUME Inv, [Next]_vars PROVE PositionsAgree'
  OBVIOUS
<1>1. "BUY" \in Sides /\ "SELL" \in Sides /\ OrdersInv /\ position_ \in Int /\ traded \in Int
  BY DEF Sides, Inv, OrdersInv, TypeOK
<1>2. PICK bid \in Lefts, ask \in Lefts :
        /\ Leads("BUY", bid) /\ Leads("SELL", ask)
        /\ traded = position_ + UnderWay("BUY", bid) - UnderWay("SELL", ask)
  BY DEF Inv, PositionsAgree
<1>3. UnderWay("BUY", bid) \in Int /\ UnderWay("SELL", ask) \in Int
  BY <1>1, <1>2, UnderWayBounds
\* A step that trades nothing and handles no fill.
<1>4. ASSUME UNCHANGED <<position_, traded>>,
             \A s \in Sides : \A left \in Lefts : Leads(s, left) =>
               \E new \in Lefts' : Leads(s, new)' /\ UnderWay(s, new)' = UnderWay(s, left)
      PROVE  PositionsAgree'
  <2>1. PICK b \in Lefts' : Leads("BUY", b)' /\ UnderWay("BUY", b)' = UnderWay("BUY", bid)
    BY <1>1, <1>2, <1>4
  <2>2. PICK a \in Lefts' : Leads("SELL", a)' /\ UnderWay("SELL", a)' = UnderWay("SELL", ask)
    BY <1>1, <1>2, <1>4
  <2>3. (traded = position_ + UnderWay("BUY", b) - UnderWay("SELL", a))'
    BY <1>2, <1>4, <2>1, <2>2
  <2> QED BY <2>1, <2>2, <2>3 DEF PositionsAgree
<1>5. ASSUME NEW q \in Quotes, NEW loss \in BOOLEAN, MoveOrders(q[1], q[2], loss)
      PROVE  PositionsAgree'
  <2>1. q[1] \in Prices \cup {Price_INVALID} /\ q[2] \in Prices \cup {Price_INVALID}
    BY DEF Quotes, MakerQuotes, TakerQuotes
  <2>2. UNCHANGED <<position_, traded>>
    BY <1>5 DEF MoveOrders, exchange
  <2> QED BY <1>1, <1>4, <1>5, <2>1, <2>2, MoveOrdersLeads
<1>6. CASE AcceptNew
  <2>1. UNCHANGED <<position_, traded>>
    BY <1>6 DEF AcceptNew
  <2> QED BY <1>1, <1>4, <1>6, <2>1, AcceptNewLeads
<1>7. CASE HandleCancel
  <2>1. UNCHANGED <<position_, traded>>
    BY <1>7 DEF HandleCancel
  <2> QED BY <1>1, <1>4, <1>7, <2>1, HandleCancelLeads
<1>8. ASSUME NEW i \in OrderIds, NEW qty \in 1 .. Clip, Fill(i, qty) PROVE PositionsAgree'
  <2>1. PICK b \in Lefts' :
          /\ Leads("BUY", b)'
          /\ UnderWay("BUY", b)' = UnderWay("BUY", bid) + IF "BUY" = open[i].side THEN qty ELSE 0
    BY <1>1, <1>2, <1>8, FillLeads
  <2>2. PICK a \in Lefts' :
          /\ Leads("SELL", a)'
          /\ UnderWay("SELL", a)' = UnderWay("SELL", ask) + IF "SELL" = open[i].side THEN qty ELSE 0
    BY <1>1, <1>2, <1>8, FillLeads
  <2>3. /\ open[i].side = "BUY" \/ open[i].side = "SELL"
        /\ position_' = position_ /\ traded' = traded + sideToValue(open[i].side) * qty
        /\ qty \in Int
    BY <1>1, <1>8 DEF Fill, OrdersInv, TypeOK, Sides
  <2>4. traded' = position_' + UnderWay("BUY", b)' - UnderWay("SELL", a)'
    <3>1. CASE open[i].side = "BUY"
      BY <1>1, <1>2, <1>3, <2>1, <2>2, <2>3, <3>1 DEF sideToValue
    <3>2. CASE open[i].side = "SELL"
      BY <1>1, <1>2, <1>3, <2>1, <2>2, <2>3, <3>2 DEF sideToValue
    <3> QED BY <2>3, <3>1, <3>2
  <2> QED BY <2>1, <2>2, <2>4 DEF PositionsAgree
<1>9. CASE HandleResponse
  <2> DEFINE r == responses[1]
  <2>1. PICK b \in Lefts' :
          /\ Leads("BUY", b)'
          /\ UnderWay("BUY", b)' = UnderWay("BUY", bid) - IF FillAt(1, "BUY") THEN r.exec ELSE 0
    BY <1>1, <1>2, <1>9, HandleResponseLeads
  <2>2. PICK a \in Lefts' :
          /\ Leads("SELL", a)'
          /\ UnderWay("SELL", a)' = UnderWay("SELL", ask) - IF FillAt(1, "SELL") THEN r.exec ELSE 0
    BY <1>1, <1>2, <1>9, HandleResponseLeads
  <2>3. r \in Response /\ Len(responses) \in Nat /\ Len(responses) >= 1
        /\ position_' = addFill(r) /\ traded' = traded
    BY <1>1, <1>9, ResponseFacts
  <2>4. r.exec \in Int /\ (r.type = "FILLED" => r.side = "BUY" \/ r.side = "SELL")
    BY <1>1, <2>3 DEF Response, OrdersInv, MessagesOK, Sides
  <2>5. traded' = position_' + UnderWay("BUY", b)' - UnderWay("SELL", a)'
    <3>1. CASE r.type = "FILLED" /\ r.side = "BUY"
      BY <1>1, <1>2, <1>3, <2>1, <2>2, <2>3, <2>4, <3>1 DEF FillAt, addFill, sideToValue
    <3>2. CASE r.type = "FILLED" /\ r.side = "SELL"
      BY <1>1, <1>2, <1>3, <2>1, <2>2, <2>3, <2>4, <3>2, SMTT(30) DEF FillAt, addFill, sideToValue
    <3>3. CASE r.type # "FILLED"
      BY <1>1, <1>2, <1>3, <2>1, <2>2, <2>3, <2>4, <3>3 DEF FillAt, addFill
    <3> QED BY <2>4, <3>1, <3>2, <3>3
  <2> QED BY <2>1, <2>2, <2>5 DEF PositionsAgree
<1>10. CASE UNCHANGED vars
  <2>1. UNCHANGED <<order, position_, responses, open, traded>>
    BY <1>10 DEF vars, manager, exchange
  <2> QED BY <2>1, ZenonT(60) DEF Inv, PositionsAgree, Lefts, Leads, UnderWay, FillAt
<1> QED BY <1>5, <1>6, <1>7, <1>8, <1>9, <1>10 DEF Next

\* The check admits an order only if all of it fits; a fill moves its quantity from
\* the order to the position.
LEMMA NextLimit == Inv /\ [Next]_vars => LimitHolds'
<1> SUFFICES ASSUME Inv, [Next]_vars PROVE LimitHolds'
  OBVIOUS
<1>1. /\ OrdersInv /\ position_ \in Int /\ MaxPosition \in Nat /\ Clip \in Nat
      /\ "BUY" \in Sides /\ "SELL" \in Sides
  BY QuoteAssumption, RiskAssumption DEF Inv, OrdersInv, TypeOK, Sides
<1>2. /\ \A s \in Sides : order[s].qty \in 0 .. Clip
      /\ Exposure("BUY") \in Nat /\ Exposure("SELL") \in Nat
      /\ position_ + Exposure("BUY") <= MaxPosition
      /\ position_ - Exposure("SELL") >= -MaxPosition
  <2>1. \A s \in Sides : order[s] \in OMOrder /\ order[s].qty \in 0 .. Clip
    BY <1>1 DEF OrdersInv, TypeOK, OMOrder
  <2> QED BY <1>1, <2>1 DEF Inv, LimitHolds, Exposure
<1>3. ASSUME NEW q \in Quotes, NEW loss \in BOOLEAN, MoveOrders(q[1], q[2], loss)
      PROVE  LimitHolds'
  <2>1. q[1] \in Prices \cup {Price_INVALID} /\ q[2] \in Prices \cup {Price_INVALID}
    BY DEF Quotes, MakerQuotes, TakerQuotes
  <2>2. \A s \in Sides :
          /\ position_' = position_
          /\ \/ Exposure(s)' = Exposure(s)
             \/ Exposure(s)' = Clip /\ Abs(position_ + sideToValue(s) * Clip) <= MaxPosition
    BY <1>1, <1>3, <2>1, MoveFacts DEF Exposure
  <2>3. position_' + Exposure("BUY")' <= MaxPosition
    BY <1>1, <1>2, <2>2 DEF Abs, sideToValue
  <2>4. position_' - Exposure("SELL")' >= -MaxPosition
    BY <1>1, <1>2, <2>2 DEF Abs, sideToValue
  <2> QED BY <2>3, <2>4 DEF LimitHolds
<1>4. CASE HandleResponse
  <2> DEFINE r == responses[1]
  <2>1. /\ r \in Response /\ position_' = addFill(r) /\ Len(responses) \in Nat /\ Len(responses) >= 1
        /\ \A s \in Sides :
             /\ order'[s].qty = IF FillAt(1, s) THEN r.leaves ELSE order[s].qty
             /\ order'[s].state \in Active => order[s].state \in Active
             /\ FillAt(1, s) => order[s].state \in Active
             /\ FillAt(1, s) /\ r.leaves # 0 => order'[s].state \in Active
    BY <1>1, <1>4, ResponseFacts
  <2>2. /\ r.exec \in Nat /\ r.leaves \in Nat
        /\ r.type = "FILLED" => r.side = "BUY" \/ r.side = "SELL"
    BY <1>1, <2>1 DEF Response, OrdersInv, MessagesOK, Sides
  <2>3. \A s \in Sides : FillAt(1, s) => order[s].qty = r.leaves + r.exec
    <3> SUFFICES ASSUME NEW s \in Sides, NEW left \in Lefts, Leads(s, left), FillAt(1, s)
                 PROVE  order[s].qty = r.leaves + r.exec
      BY <1>1 DEF Inv, PositionsAgree, Sides
    <3>1. 1 \in 1 .. Len(responses)
      BY <2>1
    <3>2. left[1 - 1] = left[1] + r.exec /\ left[1] = r.leaves /\ left[0] = order[s].qty
      BY <3>1 DEF Leads
    <3> QED BY <3>2
  <2>4. \A s \in Sides : /\ Exposure(s)' \in Nat
                         /\ FillAt(1, s) => Exposure(s)' = Exposure(s) - r.exec
                         /\ ~FillAt(1, s) => Exposure(s)' <= Exposure(s)
    <3> SUFFICES ASSUME NEW s \in Sides
                 PROVE  /\ Exposure(s)' \in Nat
                        /\ FillAt(1, s) => Exposure(s)' = Exposure(s) - r.exec
                        /\ ~FillAt(1, s) => Exposure(s)' <= Exposure(s)
      OBVIOUS
    <3>1. CASE FillAt(1, s)
      <4>1. Exposure(s) = r.leaves + r.exec
        BY <2>1, <2>3, <3>1 DEF Exposure
      <4>2. Exposure(s)' = r.leaves
        BY <2>1, <3>1 DEF Exposure
      <4> QED BY <2>2, <3>1, <4>1, <4>2
    <3>2. CASE ~FillAt(1, s)
      BY <1>1, <1>2, <2>1, <3>2 DEF Exposure
    <3> QED BY <3>1, <3>2
  <2>5. CASE r.type = "FILLED" /\ r.side = "BUY"
    <3>1. FillAt(1, "BUY") /\ ~FillAt(1, "SELL") /\ position_' = position_ + r.exec
      BY <1>1, <2>1, <2>2, <2>5 DEF FillAt, addFill, sideToValue
    <3> QED BY <1>1, <1>2, <2>2, <2>4, <3>1 DEF LimitHolds
  <2>6. CASE r.type = "FILLED" /\ r.side = "SELL"
    <3>1. FillAt(1, "SELL") /\ ~FillAt(1, "BUY") /\ position_' = position_ - r.exec
      BY <1>1, <2>1, <2>2, <2>6 DEF FillAt, addFill, sideToValue
    <3> QED BY <1>1, <1>2, <2>2, <2>4, <3>1 DEF LimitHolds
  <2>7. CASE r.type # "FILLED"
    <3>1. ~FillAt(1, "SELL") /\ ~FillAt(1, "BUY") /\ position_' = position_
      BY <2>1, <2>7 DEF FillAt, addFill
    <3> QED BY <1>1, <1>2, <2>4, <3>1 DEF LimitHolds
  <2> QED BY <2>2, <2>5, <2>6, <2>7
<1>5. CASE UNCHANGED <<order, position_>>
  BY <1>5 DEF Inv, LimitHolds, Exposure
<1>6. ASSUME NEW i \in OrderIds, NEW qty \in 1 .. Clip, Fill(i, qty)
      PROVE  UNCHANGED <<order, position_>>
  BY <1>6 DEF Fill, manager
<1>7. AcceptNew \/ HandleCancel \/ UNCHANGED vars => UNCHANGED <<order, position_>>
  BY DEF AcceptNew, HandleCancel, vars, manager
<1> QED BY <1>3, <1>4, <1>5, <1>6, <1>7 DEF Next

\* Both positions start at zero, with no order.
LEMMA InitInv == Init => Inv
<1> SUFFICES ASSUME Init PROVE Inv
  OBVIOUS
<1>1. /\ OrdersInv /\ MaxPosition \in Nat /\ Clip \in Nat
      /\ "BUY" \in Sides /\ "SELL" \in Sides
  BY InitOrders, QuoteAssumption, RiskAssumption DEF Sides
<1>2. /\ \A s \in Sides : order[s].qty = 0 /\ order[s].state \notin Active
      /\ responses = << >> /\ position_ = 0 /\ traded = 0
      /\ \A i \in OrderIds : open[i].qty = 0
  BY DEF Init, Active, Sides
<1>3. LimitHolds
  BY <1>1, <1>2 DEF LimitHolds, Exposure
<1>4. PICK left \in Lefts : left[0] = 0 /\ Len(responses) = 0
  <2>1. Len(responses) = 0
    BY <1>2
  <2>2. [k \in 0 .. Len(responses) |-> 0] \in Lefts
    BY <1>1, <2>1 DEF Lefts
  <2> QED BY <2>1, <2>2
<1>5. \A s \in Sides : Leads(s, left) /\ UnderWay(s, left) = 0
  <2> SUFFICES ASSUME NEW s \in Sides PROVE Leads(s, left) /\ UnderWay(s, left) = 0
    OBVIOUS
  <2>1. \A j \in 0 .. 0 : j = 0
    OBVIOUS
  <2>2. UnderWay(s, left) = 0
    BY <1>2, <1>4 DEF UnderWay
  <2> QED BY <1>2, <1>4, <2>1, <2>2 DEF Leads
<1>6. PositionsAgree
  <2>1. traded = position_ + UnderWay("BUY", left) - UnderWay("SELL", left)
    BY <1>1, <1>2, <1>5
  <2> QED BY <1>1, <1>5, <2>1 DEF PositionsAgree
<1> QED BY <1>1, <1>3, <1>6 DEF Inv

\* RiskInfo::checkPreTradeRisk looks at one order and at a position that is behind the
\* exchange's; even so neither position ever leaves the limit.
THEOREM WithinLimit == Spec => []PositionWithinLimit
<1>1. Inv => PositionWithinLimit
  <2> SUFFICES ASSUME Inv PROVE PositionWithinLimit
    OBVIOUS
  <2>1. /\ OrdersInv /\ position_ \in Int /\ traded \in Int /\ MaxPosition \in Nat
        /\ "BUY" \in Sides /\ "SELL" \in Sides
    BY RiskAssumption DEF Inv, OrdersInv, TypeOK, Sides
  <2>2. PICK bid \in Lefts, ask \in Lefts :
          /\ Leads("BUY", bid) /\ Leads("SELL", ask)
          /\ traded = position_ + UnderWay("BUY", bid) - UnderWay("SELL", ask)
    BY DEF Inv, PositionsAgree
  <2>3. /\ UnderWay("BUY", bid) \in Int /\ Exposure("BUY") \in Int
        /\ 0 <= UnderWay("BUY", bid) /\ UnderWay("BUY", bid) <= Exposure("BUY")
        /\ UnderWay("SELL", ask) \in Int /\ Exposure("SELL") \in Int
        /\ 0 <= UnderWay("SELL", ask) /\ UnderWay("SELL", ask) <= Exposure("SELL")
    BY <2>1, <2>2, UnderWayBounds
  <2>4. /\ position_ + Exposure("BUY") <= MaxPosition
        /\ position_ - Exposure("SELL") >= -MaxPosition
    BY DEF Inv, LimitHolds
  <2> QED BY <2>1, <2>2, <2>3, <2>4 DEF PositionWithinLimit, Abs
<1>2. Inv /\ [Next]_vars => Inv'
  BY NextOrders, NextPositions, NextLimit DEF Inv
<1> QED BY <1>1, <1>2, InitInv, PTL DEF Spec

-----------------------------------------------------------------------------
(* The manager is right once all messages have arrived. *)

\* What the manager may be waiting for on a side.
NewUnderWay(s) == \E k \in 1 .. Len(requests) : requests[k].type = "NEW" /\ requests[k].side = s
CancelUnderWay(s) ==
  \E k \in 1 .. Len(requests) : requests[k].type = "CANCEL" /\ requests[k].oid = order[s].oid
AcceptUnderWay(s) ==
  \E k \in 1 .. Len(responses) : responses[k].type = "ACCEPTED" /\ responses[k].side = s
EndUnderWay(s) == \E k \in 1 .. Len(responses) : responses[k].side = s /\ Final(responses[k])
OpenAtExchange(s) == open[order[s].oid].qty # 0 /\ open[order[s].oid].side = s

\* No pending OMOrder waits in vain, and an active one is in the market or about to be
\* told that it is not.
WaitsForSomething(s) ==
  /\ order[s].state = "PENDING_NEW" => NewUnderWay(s) \/ AcceptUnderWay(s)
  /\ order[s].state = "PENDING_CANCEL" => CancelUnderWay(s) \/ NothingOpen(s)
  /\ order[s].state \in Active => NewUnderWay(s) \/ EndUnderWay(s) \/ OpenAtExchange(s)

NewsHaveQuantity ==
  \A k \in 1 .. Len(requests) : requests[k].type = "NEW" => requests[k].qty # 0

WaitInv == NewsHaveQuantity /\ \A s \in Sides : WaitsForSomething(s)

\* What is under way stays so when a response is sent.
LEMMA WaitSent ==
  ASSUME OrdersInv, NEW e \in Response, responses' = Append(responses, e), NEW s \in Sides
  PROVE  /\ AcceptUnderWay(s) \/ (e.side = s /\ e.type = "ACCEPTED") => AcceptUnderWay(s)'
         /\ EndUnderWay(s) \/ (e.side = s /\ Final(e)) => EndUnderWay(s)'
<1>1. /\ Len(responses) \in Nat /\ Len(responses') = Len(responses) + 1
      /\ \A k \in 1 .. Len(responses) : responses'[k] = responses[k]
      /\ responses'[Len(responses) + 1] = e
  BY AppendFacts DEF OrdersInv, MessagesOK
<1>2. /\ \A k \in 1 .. Len(responses) : k \in 1 .. Len(responses')
      /\ Len(responses) + 1 \in 1 .. Len(responses')
  BY <1>1
<1>3. AcceptUnderWay(s) \/ (e.side = s /\ e.type = "ACCEPTED") => AcceptUnderWay(s)'
  BY <1>1, <1>2 DEF AcceptUnderWay
<1>4. EndUnderWay(s) \/ (e.side = s /\ Final(e)) => EndUnderWay(s)'
  BY <1>1, <1>2, Zenon DEF EndUnderWay, Final
<1> QED BY <1>3, <1>4

\* What is under way stays so when another request is taken.
LEMMA WaitTaken ==
  ASSUME OrdersInv, UNCHANGED order, requests # << >>, requests' = Tail(requests),
         NEW r, r = requests[1], NEW s \in Sides
  PROVE  /\ NewsHaveQuantity => NewsHaveQuantity'
         /\ NewUnderWay(s) /\ ~(r.type = "NEW" /\ r.side = s) => NewUnderWay(s)'
         /\ CancelUnderWay(s) /\ ~(r.type = "CANCEL" /\ r.oid = order[s].oid) => CancelUnderWay(s)'
<1>1. /\ Len(requests) \in Nat /\ Len(requests') = Len(requests) - 1
      /\ \A k \in 1 .. (Len(requests) - 1) : requests'[k] = requests[k + 1]
  BY TailFacts DEF OrdersInv, MessagesOK
<1>2. NewsHaveQuantity => NewsHaveQuantity'
  BY <1>1 DEF NewsHaveQuantity
<1>3. ASSUME NEW k \in 1 .. Len(requests), k # 1
      PROVE  k - 1 \in 1 .. Len(requests') /\ requests'[k - 1] = requests[k]
  <2>1. k - 1 \in 1 .. (Len(requests) - 1) /\ (k - 1) + 1 = k
    BY <1>1, <1>3
  <2> QED BY <2>1, <1>1
<1>4. NewUnderWay(s) /\ ~(r.type = "NEW" /\ r.side = s) => NewUnderWay(s)'
  BY <1>3 DEF NewUnderWay
<1>5. CancelUnderWay(s) /\ ~(r.type = "CANCEL" /\ r.oid = order[s].oid) => CancelUnderWay(s)'
  BY <1>3 DEF CancelUnderWay
<1> QED BY <1>2, <1>4, <1>5

LEMMA AcceptNewWait == ASSUME OrdersInv, WaitInv, AcceptNew PROVE WaitInv'
<1>1. /\ requests # << >> /\ requests \in Seq(Request) /\ requests' = Tail(requests) /\ UNCHANGED order
  BY DEF AcceptNew, manager, OrdersInv, MessagesOK
<1>2. PICK r \in Request : /\ r = requests[1] /\ r = Head(requests) /\ r.type = "NEW"
                           /\ r.side \in Sides /\ r.oid \in OrderIds /\ r.qty \in 0 .. Clip
                           /\ 1 \in 1 .. Len(requests)
  <2>1. Head(requests) = requests[1] /\ requests[1] \in Request /\ 1 \in 1 .. Len(requests)
    BY <1>1, TailFacts
  <2> QED BY <2>1 DEF AcceptNew, Request
<1>3. PICK e \in Response : /\ e.type = "ACCEPTED" /\ e.side = r.side
                            /\ responses' = Append(responses, e)
  <2> DEFINE f == [type |-> "ACCEPTED", side |-> r.side, oid |-> r.oid, exec |-> 0, leaves |-> r.qty]
  <2>1. f \in Response /\ responses' = Append(responses, f)
    BY <1>2, QuoteAssumption DEF AcceptNew, Response
  <2> QED BY <2>1
<1>4. r.qty # 0 /\ order[r.side].oid = r.oid /\ order[r.side].state = "PENDING_NEW"
  BY <1>2 DEF WaitInv, NewsHaveQuantity, OrdersInv, NewsAgree
<1>5. open' = [open EXCEPT ![r.oid] = [side |-> r.side, qty |-> r.qty]]
  BY <1>2 DEF AcceptNew
<1>6. /\ open'[r.oid].side = r.side /\ open'[r.oid].qty = r.qty
      /\ \A i \in OrderIds : i # r.oid => open'[i] = open[i]
  BY <1>2, <1>5 DEF OrdersInv, TypeOK
<1>7. ASSUME NEW s \in Sides PROVE WaitsForSomething(s)'
  <2>1. CASE s = r.side
    <3>1. AcceptUnderWay(s)' /\ OpenAtExchange(s)'
      BY <2>1, <1>1, <1>3, <1>4, <1>6, WaitSent DEF OpenAtExchange
    <3> QED BY <3>1, <2>1, <1>1, <1>4 DEF WaitsForSomething
  <2>2. CASE s # r.side
    <3>1. order[s].oid # r.oid
      BY <2>2, <1>2, <1>4 DEF OrdersInv, IdsAgree, Sides, OrderIds
    <3>2. /\ NewUnderWay(s) => NewUnderWay(s)'
          /\ CancelUnderWay(s) => CancelUnderWay(s)'
      BY <2>2, <1>1, <1>2, WaitTaken
    <3>3. /\ AcceptUnderWay(s) => AcceptUnderWay(s)'
          /\ EndUnderWay(s) => EndUnderWay(s)'
      BY <1>3, WaitSent
    <3>4. NothingOpen(s) => NothingOpen(s)'
      BY <2>2, <1>6 DEF NothingOpen
    <3>5. order[s].state \in Active /\ OpenAtExchange(s) => OpenAtExchange(s)'
      <4>1. order[s].state \in Active => order[s].oid \in OrderIds
        BY DEF OrdersInv, IdsAgree, TypeOK, OMOrder, OrderIds
      <4> QED BY <4>1, <3>1, <1>1, <1>6 DEF OpenAtExchange
    <3> QED BY <3>2, <3>3, <3>4, <3>5, <1>1 DEF WaitInv, WaitsForSomething
  <2> QED BY <2>1, <2>2
<1>8. NewsHaveQuantity'
  BY <1>1, <1>2, WaitTaken DEF WaitInv
<1> QED BY <1>7, <1>8 DEF WaitInv, Sides

LEMMA HandleCancelWait == ASSUME OrdersInv, WaitInv, HandleCancel PROVE WaitInv'
<1>1. /\ requests # << >> /\ requests \in Seq(Request) /\ requests' = Tail(requests) /\ UNCHANGED order
  BY DEF HandleCancel, manager, OrdersInv, MessagesOK
<1>2. PICK r \in Request : /\ r = requests[1] /\ r = Head(requests) /\ r.type = "CANCEL"
                           /\ r.side \in Sides /\ r.oid \in OrderIds
                           /\ 1 \in 1 .. Len(requests)
  <2>1. Head(requests) = requests[1] /\ requests[1] \in Request /\ 1 \in 1 .. Len(requests)
    BY <1>1, TailFacts
  <2> QED BY <2>1 DEF HandleCancel, Request
<1>3. open[r.oid] \in [side : Sides, qty : 0 .. Clip]
  BY <1>2 DEF OrdersInv, TypeOK
<1>4. PICK e \in Response : /\ responses' = Append(responses, e)
                            /\ open[r.oid].qty # 0 => e.type = "CANCELED" /\ e.side = r.side
  <2> DEFINE f == [type |-> "CANCELED", side |-> r.side, oid |-> r.oid,
                   exec |-> 0, leaves |-> open[r.oid].qty]
             g == [type |-> "CANCEL_REJECTED", side |-> "INVALID", oid |-> r.oid,
                   exec |-> 0, leaves |-> 0]
  <2>1. f \in Response /\ g \in Response
    BY <1>2, <1>3, QuoteAssumption DEF Response
  <2>2. \/ open[r.oid].qty # 0 /\ responses' = Append(responses, f)
        \/ open[r.oid].qty = 0 /\ responses' = Append(responses, g)
    BY <1>2 DEF HandleCancel
  <2> QED BY <2>1, <2>2
<1>5. /\ open'[r.oid].qty = 0
      /\ \A i \in OrderIds : open'[i].side = open[i].side /\ (i # r.oid => open'[i] = open[i])
  BY <1>2, SMTT(30) DEF HandleCancel, OrdersInv, TypeOK
<1>6. ASSUME NEW s \in Sides PROVE WaitsForSomething(s)'
  <2>1. NewUnderWay(s) => NewUnderWay(s)'
    BY <1>1, <1>2, WaitTaken
  <2>2. /\ AcceptUnderWay(s) => AcceptUnderWay(s)'
        /\ EndUnderWay(s) => EndUnderWay(s)'
        /\ e.side = s /\ Final(e) => EndUnderWay(s)'
    BY <1>4, WaitSent
  <2>3. NothingOpen(s) => NothingOpen(s)'
    BY <1>5 DEF NothingOpen
  <2>4. CASE order[s].oid = r.oid
    <3>1. r.side = s
      BY <2>4, <1>2 DEF OrdersInv, CancelsAgree
    <3>2. NothingOpen(s)'
      <4> SUFFICES ASSUME NEW i \in OrderIds, open'[i].qty # 0, open'[i].side = s PROVE FALSE
        BY DEF NothingOpen, OrderIds
      <4>1. i # r.oid /\ open[i].qty # 0 /\ open[i].side = s
        BY <1>5
      <4> QED BY <4>1, <2>4 DEF OrdersInv, OpenAgrees
    <3>3. OpenAtExchange(s) => EndUnderWay(s)'
      BY <2>2, <2>4, <3>1, <1>4 DEF OpenAtExchange, Final
    <3> QED BY <3>2, <3>3, <2>1, <2>2, <1>1 DEF WaitInv, WaitsForSomething
  <2>5. CASE order[s].oid # r.oid
    <3>1. CancelUnderWay(s) => CancelUnderWay(s)'
      BY <2>5, <1>1, <1>2, WaitTaken
    <3>2. order[s].state \in Active /\ OpenAtExchange(s) => OpenAtExchange(s)'
      <4>1. order[s].state \in Active => order[s].oid \in OrderIds
        BY DEF OrdersInv, IdsAgree, TypeOK, OMOrder, OrderIds
      <4> QED BY <4>1, <2>5, <1>1, <1>5 DEF OpenAtExchange
    <3> QED BY <3>1, <3>2, <2>1, <2>2, <2>3, <1>1 DEF WaitInv, WaitsForSomething
  <2> QED BY <2>4, <2>5
<1>7. NewsHaveQuantity'
  BY <1>1, <1>2, WaitTaken DEF WaitInv
<1> QED BY <1>6, <1>7 DEF WaitInv, Sides

LEMMA FillWait ==
  ASSUME OrdersInv, WaitInv, NEW i \in OrderIds, NEW qty \in 1 .. Clip, Fill(i, qty) PROVE WaitInv'
<1>1. UNCHANGED <<order, requests>> /\ open[i] \in [side : Sides, qty : 0 .. Clip]
  BY DEF Fill, manager, OrdersInv, TypeOK
<1>2. qty \in 1 .. open[i].qty /\ open' = [open EXCEPT ![i].qty = open[i].qty - qty]
  BY DEF Fill
<1>3. PICK e \in Response : /\ responses' = Append(responses, e) /\ e.side = open[i].side
                            /\ e.type = "FILLED" /\ e.leaves = open[i].qty - qty
  <2> DEFINE f == [type |-> "FILLED", side |-> open[i].side, oid |-> i,
                   exec |-> qty, leaves |-> open[i].qty - qty]
  <2>1. f \in Response
    BY <1>1, <1>2, QuoteAssumption DEF Response
  <2> QED BY <2>1 DEF Fill
<1>4. /\ open'[i].qty = open[i].qty - qty
      /\ \A j \in OrderIds : open'[j].side = open[j].side /\ (j # i => open'[j] = open[j])
  BY <1>2 DEF OrdersInv, TypeOK
<1>5. open[i].qty # 0
  BY <1>1, <1>2
<1>6. ASSUME NEW s \in Sides PROVE WaitsForSomething(s)'
  <2>1. (NewUnderWay(s) => NewUnderWay(s)') /\ (CancelUnderWay(s) => CancelUnderWay(s)')
    BY <1>1 DEF NewUnderWay, CancelUnderWay
  <2>2. /\ AcceptUnderWay(s) => AcceptUnderWay(s)'
        /\ EndUnderWay(s) => EndUnderWay(s)'
        /\ e.side = s /\ Final(e) => EndUnderWay(s)'
    BY <1>3, WaitSent
  <2>3. NothingOpen(s) => NothingOpen(s)'
    BY <1>4, <1>5 DEF NothingOpen
  <2>4. order[s].state \in Active /\ OpenAtExchange(s) => OpenAtExchange(s)' \/ EndUnderWay(s)'
    <3>1. order[s].state \in Active => order[s].oid \in OrderIds
      BY DEF OrdersInv, IdsAgree, TypeOK, OMOrder, OrderIds
    <3>2. CASE order[s].oid # i
      BY <3>1, <3>2, <1>1, <1>4 DEF OpenAtExchange
    <3>3. CASE order[s].oid = i
      <4>1. open'[i].qty = 0 => Final(e)
        BY <1>3, <1>4 DEF Final
      <4> QED BY <4>1, <3>3, <2>2, <1>1, <1>3, <1>4 DEF OpenAtExchange
    <3> QED BY <3>2, <3>3
  <2> QED BY <2>1, <2>2, <2>3, <2>4, <1>1 DEF WaitInv, WaitsForSomething
<1>7. NewsHaveQuantity'
  BY <1>1 DEF WaitInv, NewsHaveQuantity
<1> QED BY <1>6, <1>7 DEF WaitInv, Sides

\* An order that a response leaves pending was so before, and the response was not an
\* acceptance.
LEMMA StateAfter ==
  ASSUME NEW o \in OMOrder, NEW r \in Response,
         onOrderUpdate(o, r).state \in {"PENDING_NEW", "PENDING_CANCEL"}
  PROVE  onOrderUpdate(o, r).state = o.state /\ r.type # "ACCEPTED"
<1> DEFINE u == onOrderUpdate(o, r)
<1>1. /\ o = [state |-> o.state, oid |-> o.oid, price |-> o.price, qty |-> o.qty]
      /\ r.type \in {"ACCEPTED", "CANCELED", "FILLED", "CANCEL_REJECTED"}
  BY DEF OMOrder, Response
<1>2. CASE r.type = "ACCEPTED"
  <2>1. u = [o EXCEPT !.state = "LIVE"]
    BY <1>2 DEF onOrderUpdate
  <2> QED BY <1>1, <2>1
<1>3. CASE r.type = "CANCELED"
  <2>1. u = [o EXCEPT !.state = "DEAD"]
    BY <1>3 DEF onOrderUpdate
  <2> QED BY <1>1, <2>1
<1>4. CASE r.type = "FILLED"
  <2>1. u = [o EXCEPT !.qty = r.leaves, !.state = IF r.leaves = 0 THEN "DEAD" ELSE @]
    BY <1>4 DEF onOrderUpdate
  <2>2. u.state = IF r.leaves = 0 THEN "DEAD" ELSE o.state
    BY <1>1, <2>1
  <2> QED BY <1>4, <2>2
<1>5. CASE r.type = "CANCEL_REJECTED"
  BY <1>5 DEF onOrderUpdate
<1> QED BY <1>1, <1>2, <1>3, <1>4, <1>5

LEMMA HandleResponseWait == ASSUME OrdersInv, WaitInv, HandleResponse PROVE WaitInv'
<1>1. PICK r \in Response :
        /\ r = responses[1] /\ r = Head(responses) /\ 1 \in 1 .. Len(responses)
        /\ Len(responses) \in Nat /\ Len(responses') = Len(responses) - 1
        /\ \A k \in 1 .. Len(responses') : responses'[k] = responses[k + 1]
  <2>1. responses \in Seq(Response) /\ responses # << >> /\ responses' = Tail(responses)
    BY DEF OrdersInv, MessagesOK, HandleResponse
  <2> QED BY <2>1, TailFacts
<1>2. /\ order' = [order EXCEPT ![r.side] = onOrderUpdate(order[r.side], r)]
      /\ UNCHANGED <<requests, open>>
  BY <1>1 DEF HandleResponse, exchange
<1>3. /\ r.side \in Sides \cup {"INVALID"} /\ order[r.side] \in OMOrder
      /\ order \in [Sides \cup {"INVALID"} -> OMOrder]
  BY DEF Response, OrdersInv, TypeOK
<1>4. ASSUME NEW k \in 1 .. Len(responses), k # 1
      PROVE  k - 1 \in 1 .. Len(responses') /\ responses'[k - 1] = responses[k]
  <2>1. k - 1 \in 1 .. Len(responses') /\ (k - 1) + 1 = k
    BY <1>1, <1>4
  <2> QED BY <2>1, <1>1
<1>5. ASSUME NEW s \in Sides PROVE WaitsForSomething(s)'
  <2>1. AcceptUnderWay(s) /\ ~(r.type = "ACCEPTED" /\ r.side = s) => AcceptUnderWay(s)'
    BY <1>1, <1>4 DEF AcceptUnderWay
  <2>2. EndUnderWay(s) /\ ~(r.side = s /\ Final(r)) => EndUnderWay(s)'
    BY <1>1, <1>4 DEF EndUnderWay, Final
  <2>3. NothingOpen(s) => NothingOpen(s)'
    BY <1>2 DEF NothingOpen
  <2>4. NewUnderWay(s) => NewUnderWay(s)'
    BY <1>2 DEF NewUnderWay
  <2>5. order'[s].oid = order[s].oid
    BY <1>2, <1>3, UpdateFacts
  <2>6. /\ CancelUnderWay(s) => CancelUnderWay(s)'
        /\ OpenAtExchange(s) => OpenAtExchange(s)'
    BY <1>2, <2>5 DEF CancelUnderWay, OpenAtExchange
  <2>7. CASE s # r.side
    <3>1. order'[s] = order[s]
      BY <2>7, <1>2, <1>3
    <3> QED BY <3>1, <2>1, <2>2, <2>3, <2>4, <2>6, <2>7 DEF WaitInv, WaitsForSomething
  <2>8. CASE s = r.side
    <3>1. order'[s] = onOrderUpdate(order[s], r) /\ order[s].state \in Active
      BY <2>8, <1>1, <1>2, <1>3 DEF OrdersInv, ResponsesAgree
    <3>2. order'[s].state \in {"PENDING_NEW", "PENDING_CANCEL"} =>
            order'[s].state = order[s].state /\ r.type # "ACCEPTED"
      BY <2>8, <3>1, <1>3, StateAfter
    <3>3. order'[s].state \in Active => ~Final(r)
      BY <2>8, <3>1, <1>3, UpdateFacts DEF Active
    <3> QED BY <3>1, <3>2, <3>3, <2>1, <2>2, <2>3, <2>4, <2>6 DEF WaitInv, WaitsForSomething
  <2> QED BY <2>7, <2>8
<1>6. NewsHaveQuantity'
  BY <1>2 DEF WaitInv, NewsHaveQuantity
<1> QED BY <1>5, <1>6 DEF WaitInv, Sides

\* The requests a and b of moveOrders() follow the older ones, q.
Follow(q, a, b, all) ==
  /\ \A k \in 1 .. Len(q) : k \in 1 .. Len(all) /\ all[k] = q[k]
  /\ Len(a) = 1 => \E k \in 1 .. Len(all) : all[k] = a[1]
  /\ Len(b) = 1 => \E k \in 1 .. Len(all) : all[k] = b[1]
  /\ \A k \in 1 .. Len(all) :
       \/ k \in 1 .. Len(q)
       \/ Len(a) = 1 /\ all[k] = a[1]
       \/ Len(b) = 1 /\ all[k] = b[1]

LEMMA SentFacts ==
  ASSUME NEW q \in Seq(Request), NEW a \in Seq(Request), NEW b \in Seq(Request),
         Len(a) \in 0 .. 1, Len(b) \in 0 .. 1
  PROVE  Follow(q, a, b, Sent(q, a, b))
<1>1. /\ Len(q) \in Nat
      /\ Len(Sent(q, a, b)) = Len(q) + Len(a) + Len(b)
      /\ \A k \in 1 .. Len(q) : Sent(q, a, b)[k] = q[k]
      /\ Len(a) = 1 => Sent(q, a, b)[Len(q) + 1] = a[1]
      /\ Len(b) = 1 => Sent(q, a, b)[Len(q) + Len(a) + 1] = b[1]
  BY DEF Sent
<1>2. /\ \A k \in 1 .. Len(q) : k \in 1 .. Len(Sent(q, a, b))
      /\ Len(a) = 1 => Len(q) + 1 \in 1 .. Len(Sent(q, a, b))
      /\ Len(b) = 1 => Len(q) + Len(a) + 1 \in 1 .. Len(Sent(q, a, b))
  BY <1>1
<1>3. ASSUME NEW k \in 1 .. Len(Sent(q, a, b)), k \notin 1 .. Len(q)
      PROVE  \/ Len(a) = 1 /\ k = Len(q) + 1
             \/ Len(b) = 1 /\ k = Len(q) + Len(a) + 1
  <2>1. k \in 1 .. (Len(q) + Len(a) + Len(b)) /\ k > Len(q)
    BY <1>1, <1>3
  <2> QED BY <1>1, <2>1, OneOrTheOther
<1> QED BY <1>1, <1>2, <1>3, Zenon DEF Follow

LEMMA MoveOrdersWait ==
  ASSUME OrdersInv, WaitInv, NEW bid_price \in Prices \cup {Price_INVALID},
         NEW ask_price \in Prices \cup {Price_INVALID}, NEW loss \in BOOLEAN,
         MoveOrders(bid_price, ask_price, loss)
  PROVE  WaitInv'
<1> DEFINE bid == moveOrder("BUY", bid_price, next_order_id_, loss)
           n == next_order_id_ + News(bid.send)
           ask == moveOrder("SELL", ask_price, n, loss)
<1>1. /\ next_order_id_ \in 1 .. (MaxOrders - 1) /\ MaxOrders \in Nat
      /\ "BUY" \in Sides /\ "SELL" \in Sides /\ \A s \in Sides : s = "BUY" \/ s = "SELL"
      /\ order \in [Sides \cup {"INVALID"} -> OMOrder] /\ requests \in Seq(Request)
  BY BoundAssumption DEF OrdersInv, TypeOK, MoveOrders, Sides, MessagesOK
<1>2. /\ order' = [order EXCEPT !["BUY"] = bid.order, !["SELL"] = ask.order]
      /\ requests' = Sent(requests, bid.send, ask.send)
      /\ UNCHANGED <<responses, open>>
  BY DEF MoveOrders, exchange, Sent
<1> HIDE DEF bid
<1>3. next_order_id_ \in OrderIds /\ n \in OrderIds
  BY <1>1 DEF OrderIds, News
<1>4. Moved("BUY", bid, next_order_id_)
  BY <1>1, <1>3, MoveOne DEF bid
<1> HIDE DEF ask, n
<1>5. Moved("SELL", ask, n)
  BY <1>1, <1>3, MoveOne DEF ask
<1>6. PICK a \in Seq(Request), b \in Seq(Request) :
        /\ a = bid.send /\ b = ask.send /\ requests' = Sent(requests, a, b)
        /\ Len(a) \in 0 .. 1 /\ Len(b) \in 0 .. 1
  <2>1. /\ bid.send \in Seq(Request) /\ Len(bid.send) \in 0 .. 1
        /\ ask.send \in Seq(Request) /\ Len(ask.send) \in 0 .. 1
    BY <1>4, <1>5 DEF Moved
  <2> QED BY <2>1, <1>2, Zenon
<1>7. /\ \A k \in 1 .. Len(requests) : k \in 1 .. Len(requests') /\ requests'[k] = requests[k]
      /\ Len(a) = 1 => \E k \in 1 .. Len(requests') : requests'[k] = a[1]
      /\ Len(b) = 1 => \E k \in 1 .. Len(requests') : requests'[k] = b[1]
      /\ \A k \in 1 .. Len(requests') :
           \/ k \in 1 .. Len(requests)
           \/ Len(a) = 1 /\ requests'[k] = a[1]
           \/ Len(b) = 1 /\ requests'[k] = b[1]
  <2>1. Follow(requests, a, b, Sent(requests, a, b))
    BY <1>1, <1>6, SentFacts
  <2>2. Follow(requests, a, b, requests')
    BY <2>1, <1>6, Zenon
  <2> QED BY <2>2 DEF Follow
<1>8. NewsHaveQuantity'
  <2>1. /\ Len(a) = 1 /\ a[1].type = "NEW" => a[1].qty # 0
        /\ Len(b) = 1 /\ b[1].type = "NEW" => b[1].qty # 0
    BY <1>4, <1>5, <1>6, QuoteAssumption DEF Moved
  <2> QED BY <2>1, <1>7 DEF WaitInv, NewsHaveQuantity
<1>9. ASSUME NEW s \in Sides PROVE WaitsForSomething(s)'
  <2>1. PICK m, id : /\ Moved(s, m, id) /\ order'[s] = m.order
                     /\ Len(m.send) = 1 => \E k \in 1 .. Len(requests') : requests'[k] = m.send[1]
    <3>1. CASE s = "BUY"
      BY <3>1, <1>1, <1>2, <1>4, <1>6, <1>7
    <3>2. CASE s = "SELL"
      BY <3>2, <1>1, <1>2, <1>5, <1>6, <1>7
    <3> QED BY <3>1, <3>2, <1>1
  <2>2. /\ NewUnderWay(s) => NewUnderWay(s)'
        /\ CancelUnderWay(s) /\ order'[s].oid = order[s].oid => CancelUnderWay(s)'
    BY <1>7 DEF NewUnderWay, CancelUnderWay
  <2>3. /\ AcceptUnderWay(s) => AcceptUnderWay(s)'
        /\ EndUnderWay(s) => EndUnderWay(s)'
        /\ NothingOpen(s) => NothingOpen(s)'
        /\ OpenAtExchange(s) /\ order'[s].oid = order[s].oid => OpenAtExchange(s)'
    BY <1>2 DEF AcceptUnderWay, EndUnderWay, NothingOpen, OpenAtExchange
  <2>4. CASE order'[s] = order[s]
    BY <2>2, <2>3, <2>4 DEF WaitInv, WaitsForSomething
  <2>5. CASE /\ order[s].state = "LIVE" /\ m.order.state = "PENDING_CANCEL"
             /\ m.order.oid = order[s].oid /\ Len(m.send) = 1
             /\ m.send[1].type = "CANCEL" /\ m.send[1].oid = order[s].oid
    <3>1. CancelUnderWay(s)'
      BY <2>1, <2>5 DEF CancelUnderWay
    <3> QED BY <2>1, <2>2, <2>3, <2>5, <3>1 DEF WaitInv, WaitsForSomething, Active
  <2>6. CASE /\ m.order.state = "PENDING_NEW" /\ Len(m.send) = 1
             /\ m.send[1].type = "NEW" /\ m.send[1].side = s
    <3>1. NewUnderWay(s)'
      BY <2>1, <2>6 DEF NewUnderWay
    <3> QED BY <2>1, <2>6, <3>1 DEF WaitsForSomething
  <2> QED BY <2>1, <2>4, <2>5, <2>6 DEF Moved
<1> QED BY <1>8, <1>9 DEF WaitInv, Sides

LEMMA InitWait == Init => WaitInv
BY DEF Init, WaitInv, NewsHaveQuantity, WaitsForSomething, Active, Sides

LEMMA NextWait == OrdersInv /\ WaitInv /\ [Next]_vars => WaitInv'
<1> SUFFICES ASSUME OrdersInv, WaitInv, [Next]_vars PROVE WaitInv'
  OBVIOUS
<1>1. ASSUME NEW q \in Quotes, NEW loss \in BOOLEAN, MoveOrders(q[1], q[2], loss)
      PROVE  WaitInv'
  <2>1. q[1] \in Prices \cup {Price_INVALID} /\ q[2] \in Prices \cup {Price_INVALID}
    BY DEF Quotes, MakerQuotes, TakerQuotes
  <2> QED BY <1>1, <2>1, MoveOrdersWait
<1>2. CASE UNCHANGED vars
  BY <1>2 DEF vars, manager, exchange, WaitInv, NewsHaveQuantity, WaitsForSomething,
              NewUnderWay, CancelUnderWay, AcceptUnderWay, EndUnderWay, OpenAtExchange, NothingOpen
<1> QED BY <1>1, <1>2, AcceptNewWait, HandleCancelWait, FillWait, HandleResponseWait DEF Next

\* The states of the OMOrders, their quantities, the ids and what is open at the exchange
\* stay within their types: no fill or cancel takes a quantity below zero.
THEOREM ManagerTypeCorrect == Spec => []TypeOK
<1>1. OrdersInv => TypeOK
  BY DEF OrdersInv
<1> QED BY <1>1, InitOrders, NextOrders, PTL DEF Spec

\* Once no request and no response is under way, the position that the client computed
\* from its fills is the exchange's, a LIVE OMOrder has the quantity that is open there,
\* and a side that is not LIVE has nothing in the market.
THEOREM QuietIsRight == Spec => []QuietManagerIsRight
<1>1. Inv /\ WaitInv => QuietManagerIsRight
  <2> SUFFICES ASSUME Inv, WaitInv, requests = << >>, responses = << >>
               PROVE  /\ position_ = traded
                      /\ \A s \in Sides :
                           /\ order[s].state = "LIVE" => open[order[s].oid].qty = order[s].qty
                           /\ order[s].state # "LIVE" => Exposed(s) = {}
    BY DEF QuietManagerIsRight
  <2>1. /\ Len(requests) = 0 /\ Len(responses) = 0 /\ OrdersInv
        /\ position_ \in Int /\ traded \in Int
        /\ \A s \in Sides : order[s] \in OMOrder /\ order[s].qty \in Int
    BY DEF Inv, OrdersInv, TypeOK, OMOrder
  <2>2. PICK bid \in Lefts, ask \in Lefts :
          /\ Leads("BUY", bid) /\ Leads("SELL", ask)
          /\ traded = position_ + UnderWay("BUY", bid) - UnderWay("SELL", ask)
    BY DEF Inv, PositionsAgree
  <2>3. UnderWay("BUY", bid) = 0 /\ UnderWay("SELL", ask) = 0
    BY <2>1, <2>2 DEF Leads, UnderWay, Sides
  <2>4. ASSUME NEW s \in Sides
        PROVE  \A i \in OrderIds : open[i].qty # 0 /\ open[i].side = s => open[i].qty = order[s].qty
    <3>1. PICK left : Leads(s, left)
      BY <2>2 DEF Sides
    <3> QED BY <3>1, <2>1 DEF Leads
  <2>5. ASSUME NEW s \in Sides
        PROVE  ~NewUnderWay(s) /\ ~CancelUnderWay(s) /\ ~AcceptUnderWay(s) /\ ~EndUnderWay(s)
    BY <2>1 DEF NewUnderWay, CancelUnderWay, AcceptUnderWay, EndUnderWay
  <2>6. ASSUME NEW s \in Sides, order[s].state = "LIVE"
        PROVE  open[order[s].oid].qty = order[s].qty
    <3>1. OpenAtExchange(s)
      BY <2>5, <2>6 DEF WaitInv, WaitsForSomething, Active
    <3>2. order[s].oid \in OrderIds
      BY <2>1, <2>6 DEF OrdersInv, IdsAgree, Active, OMOrder, OrderIds
    <3> QED BY <2>4, <3>1, <3>2 DEF OpenAtExchange
  <2>7. ASSUME NEW s \in Sides, order[s].state # "LIVE"
        PROVE  Exposed(s) = {}
    <3>1. NothingOpen(s)
      <4>1. CASE order[s].state \in Active
        BY <4>1, <2>5, <2>7 DEF WaitInv, WaitsForSomething, Active
      <4>2. CASE order[s].state \notin Active
        BY <4>2, <2>1 DEF OrdersInv, OpenAgrees, NothingOpen
      <4> QED BY <4>1, <4>2
    <3> QED BY <3>1, <2>1 DEF Exposed, NothingOpen
  <2> QED BY <2>1, <2>2, <2>3, <2>6, <2>7
<1>2. Inv /\ WaitInv /\ [Next]_vars => Inv' /\ WaitInv'
  BY NextOrders, NextPositions, NextLimit, NextWait DEF Inv
<1>3. Init => Inv /\ WaitInv
  BY InitInv, InitWait
<1> QED BY <1>1, <1>2, <1>3, PTL DEF Spec
=============================================================================
