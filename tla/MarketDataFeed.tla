--------------------------- MODULE MarketDataFeed ---------------------------
(***************************************************************************)
(* Market data from the exchange to one trading client:                    *)
(*                                                                         *)
(*   MarketDataPublisher    numbers the updates of the matching engine,    *)
(*                          multicasts them and hands them on;             *)
(*   SnapshotSynthesizer    keeps the resting orders and multicasts them   *)
(*                          once in a while (another thread);              *)
(*   McastSocket            UDP: a datagram may be lost, overtaken or      *)
(*                          received twice;                                *)
(*   MarketDataConsumer     notices gaps and recovers from a snapshot.     *)
(*                                                                         *)
(* An update is about an order <<ticker, market order id>>, of which only  *)
(* the quantity ever changes, so a book is a function from orders to       *)
(* quantities.  cons.book is what the updates on incoming_md_updates_      *)
(* amount to: MarketOrderBook is about how the client keeps it.            *)
(*                                                                         *)
(* Operators whose comment starts with "Defect:" are variants of the       *)
(* definition that follows them, which some property must exclude.         *)
(***************************************************************************)
EXTENDS Integers, Sequences, SequencesExt, FiniteSetsExt

CONSTANTS NumTickers,     \* ME_MAX_TICKERS
          Ids,            \* market order ids
          Qtys,           \* order quantities
          MaxUpdates,     \* bound on the updates of the matching engine
          MaxLosses,      \* bound on lost incremental datagrams
          MaxStale,       \* bound on late or repeated incremental datagrams
          MaxTorn         \* bound on snapshot cycles that lose a datagram

ASSUME FeedAssumption ==
  /\ NumTickers \in Nat \ {0} /\ Qtys \subseteq Nat
  /\ Ids \subseteq Nat /\ IsFiniteSet(Ids)    \* orders_ is an array
ASSUME BoundAssumption == {MaxUpdates, MaxLosses, MaxStale, MaxTorn} \subseteq Nat

VARIABLES
  log,                \* the updates the publisher has numbered: log[n] has number n
  flushed,            \* the updates that incremental_socket_ has sent
  inc_net,            \* incremental datagrams under way
  ticker_orders_,     \* the synthesizer's book
  last_inc_seq_num_,  \* the last update in it
  cycle,              \* the message publishSnapshot() sends next; 0 when it is not running
  snap_net,           \* snapshot datagrams under way to the consumer's socket
  cons,               \* the members of MarketDataConsumer
  lost, stale, torn,  \* how often the network failed
  tearing             \* has the cycle being sent lost a datagram?

network == <<lost, stale, torn, tearing>>
vars == <<log, flushed, inc_net, ticker_orders_, last_inc_seq_num_, cycle, snap_net, cons, network>>

Tickers == 1 .. NumTickers
Orders == Tickers \X Ids
Empty == << >>

Clear(t) == [type |-> "CLEAR", ticker |-> t]
Add(o, q) == [type |-> "ADD", ticker |-> o[1], id |-> o[2], qty |-> q]
Modify(o, q) == [type |-> "MODIFY", ticker |-> o[1], id |-> o[2], qty |-> q]
Cancel(o) == [type |-> "CANCEL", ticker |-> o[1], id |-> o[2]]
Trade(t) == [type |-> "TRADE", ticker |-> t]

With(f, x, v) == [y \in DOMAIN f \cup {x} |-> IF y = x THEN v ELSE f[y]]
Without(f, S) == [y \in DOMAIN f \ S |-> f[y]]

\* What an update does to a book.
Apply(b, u) ==
  CASE u.type = "ADD" -> With(b, <<u.ticker, u.id>>, u.qty)
    [] u.type = "MODIFY" -> [b EXCEPT ![<<u.ticker, u.id>>] = u.qty]
    [] u.type = "CANCEL" -> Without(b, {<<u.ticker, u.id>>})
    [] u.type = "CLEAR" -> Without(b, {u.ticker} \X Ids)
    [] u.type = "TRADE" -> b

\* The books that come of book b, one after each of the updates.
Replay(b, updates) ==
  LET book[n \in 0 .. Len(updates)] == IF n = 0 THEN b ELSE Apply(book[n - 1], updates[n])
  IN  book

ApplyAll(b, updates) == Replay(b, updates)[Len(updates)]

\* The exchange's book after its first n updates.
BookAt(n) == Replay(Empty, log)[n]

Init ==
  /\ log = << >> /\ flushed = 0 /\ inc_net = << >>
  /\ ticker_orders_ = Empty /\ last_inc_seq_num_ = 0
  /\ cycle = 0 /\ snap_net = << >>
  /\ cons = [in_recovery_ |-> FALSE, next_exp_inc_seq_num_ |-> 1,
             snapshot_queued_msgs_ |-> Empty, incremental_queued_msgs_ |-> Empty,
             book |-> Empty]
  /\ lost = 0 /\ stale = 0 /\ torn = 0 /\ tearing = FALSE

-----------------------------------------------------------------------------
(* MarketDataPublisher. *)

\* What the matching engine may send next (FeedMirrorsBook of MEOrderBook): an id
\* is used once, and a quantity only shrinks.
Used == {<<log[n].ticker, log[n].id>> : n \in {k \in 1 .. Len(log) : log[k].type = "ADD"}}
Updates ==
  LET book == BookAt(Len(log))
  IN  {Add(o, q) : o \in Orders \ Used, q \in Qtys} \cup
      (UNION {{Modify(o, q) : q \in {x \in Qtys : x < book[o]}} : o \in DOMAIN book}) \cup
      {Cancel(o) : o \in DOMAIN book} \cup
      {Trade(t) : t \in Tickers}

\* The body of the loop of run(): number the update, put it into the send buffer
\* and into the queue to the synthesizer.
PublishUpdate(u) ==
  /\ log' = Append(log, u)
  /\ UNCHANGED <<flushed, inc_net, ticker_orders_, last_inc_seq_num_, cycle, snap_net, cons, network>>

\* Defect: the buffer is thought to hold one update more than it does.
EmptyBufferTooFar == flushed < Len(log) /\ flushed' = Len(log) + 1

EmptyBuffer == flushed < Len(log) /\ flushed' = Len(log)

\* sendAndRecv(): one datagram with all that is in the buffer.
FlushIncremental ==
  /\ EmptyBuffer
  /\ \/ /\ inc_net' = Append(inc_net, [k \in 1 .. (Len(log) - flushed) |->
                                        [seq |-> flushed + k, update |-> log[flushed + k]]])
        /\ UNCHANGED lost
     \/ /\ lost < MaxLosses
        /\ lost' = lost + 1
        /\ UNCHANGED inc_net
  /\ UNCHANGED <<log, ticker_orders_, last_inc_seq_num_, cycle, snap_net, cons, stale, torn, tearing>>

\* UDP: the next datagram is overtaken by the others, or received now and again.
Misdeliver ==
  /\ inc_net # << >> /\ stale < MaxStale
  /\ stale' = stale + 1
  /\ \/ inc_net' = Append(Tail(inc_net), Head(inc_net))
     \/ inc_net' = Append(inc_net, Head(inc_net))
  /\ UNCHANGED <<log, flushed, ticker_orders_, last_inc_seq_num_, cycle, snap_net, cons, lost, torn, tearing>>

-----------------------------------------------------------------------------
(* SnapshotSynthesizer. *)

TakeUpdate ==
  /\ cycle = 0 /\ last_inc_seq_num_ < Len(log)
  /\ last_inc_seq_num_' = last_inc_seq_num_ + 1

\* addToSnapshot(): the next update of the queue.
AddToSnapshot ==
  /\ TakeUpdate
  /\ ticker_orders_' = Apply(ticker_orders_, log[last_inc_seq_num_ + 1])
  /\ UNCHANGED <<log, flushed, inc_net, cycle, snap_net, cons, network>>

\* Defect: the end of a cycle does not carry the number of its last update.
EndOfCycleUnnumbered(orders, last) == [type |-> "SNAPSHOT_END", last |-> 0]

EndOfCycle(orders, last) == [type |-> "SNAPSHOT_END", last |-> last]

\* The loops of publishSnapshot(), over the tickers and over the orders of each by id:
\* what they send, and how much of it before u.
Contents(orders) == {Clear(t) : t \in Tickers} \cup {Add(o, orders[o]) : o \in DOMAIN orders}
Precedes(u, v) ==
  \/ u.ticker < v.ticker
  \/ u.ticker = v.ticker /\ v.type = "ADD" /\ (u.type = "ADD" => u.id < v.id)
Rank(U, u) == Cardinality({v \in U : Precedes(v, u)})
InOrder(U) == [k \in 1 .. Cardinality(U) |-> CHOOSE u \in U : Rank(U, u) = k - 1]

\* The messages of publishSnapshot().
SnapshotMsgs(orders, last) ==
  LET updates == <<[type |-> "SNAPSHOT_START", last |-> last]>> \o InOrder(Contents(orders))
                   \o <<EndOfCycle(orders, last)>>
  IN  [k \in 1 .. Len(updates) |-> [seq |-> k - 1, update |-> updates[k]]]

\* Its datagrams: one is sent after every order and one at the end.
DatagramEnd(msgs, from) ==
  Min({k \in from .. Len(msgs) : msgs[k].update.type \in {"ADD", "SNAPSHOT_END"}})

StartCycle == cycle = 0 /\ snap_net = << >> /\ cycle' = 1

\* The timer of run() has expired.  A cycle is received before the next begins.
PublishSnapshot ==
  /\ StartCycle
  /\ tearing' = FALSE
  /\ UNCHANGED <<log, flushed, inc_net, ticker_orders_, last_inc_seq_num_, snap_net, cons, lost, stale, torn>>

\* The longest datagram is the start, a clear for every ticker and an order.
ContinueCycle == cycle # 0 /\ cycle' \in {0} \cup (cycle + 1) .. (cycle + NumTickers + 2)

\* The next datagram of the cycle goes out; no update is added to the snapshot
\* before the last one has.  Only a consumer in recovery has joined the stream.
SendSnapshot ==
  /\ ContinueCycle
  /\ LET msgs == SnapshotMsgs(ticker_orders_, last_inc_seq_num_)
         end == DatagramEnd(msgs, cycle)
     IN  /\ cycle' = IF end = Len(msgs) THEN 0 ELSE end + 1
         /\ \/ /\ cons.in_recovery_
               /\ snap_net' = Append(snap_net, SubSeq(msgs, cycle, end))
               /\ UNCHANGED <<torn, tearing>>
            \/ /\ cons.in_recovery_ /\ (tearing \/ torn < MaxTorn)
               /\ torn' = IF tearing THEN torn ELSE torn + 1
               /\ tearing' = TRUE
               /\ UNCHANGED snap_net
            \/ /\ ~cons.in_recovery_
               /\ UNCHANGED <<snap_net, torn, tearing>>
  /\ UNCHANGED <<log, flushed, inc_net, ticker_orders_, last_inc_seq_num_, cons, lost, stale>>

-----------------------------------------------------------------------------
(* MarketDataConsumer: what its methods make of its members c. *)

\* startSnapshotSync().
StartSnapshotSync(c) ==
  [c EXCEPT !.snapshot_queued_msgs_ = Empty, !.incremental_queued_msgs_ = Empty]

\* next_exp_inc_seq_num_ once the queued incrementals from this number on have
\* been counted, up to the first gap.
NextMissing(queued, from) ==
  CHOOSE n \in from .. (from + Cardinality(DOMAIN queued)) :
    n \notin DOMAIN queued /\ from .. (n - 1) \subseteq DOMAIN queued

\* Defect: gaps in the queued incrementals are accepted.
NoGapUnchecked(queued, from, next) == TRUE

\* Defect: an update that the snapshot covers already counts as a gap.
NoGapFromFirst(queued, from, next) == \A s \in DOMAIN queued : from <= s /\ s < next

\* have_complete_incremental.
NoGap(queued, from, next) == \A s \in DOMAIN queued : s < next

\* The rest of checkSnapshotSync() for a snapshot with a start, no gaps and an end.
Synchronize(c) ==
  LET snapshot == c.snapshot_queued_msgs_
      queued == c.incremental_queued_msgs_
      end == Max(DOMAIN snapshot)
      from == snapshot[end].last + 1
      next == NextMissing(queued, from)
      final_events == [k \in 1 .. (end - 1) |-> snapshot[k]]
                        \o [k \in 1 .. (next - from) |-> queued[from + k - 1]]
  IN  IF NoGap(queued, from, next)
      THEN [in_recovery_ |-> FALSE, next_exp_inc_seq_num_ |-> next,
            snapshot_queued_msgs_ |-> Empty, incremental_queued_msgs_ |-> Empty,
            book |-> ApplyAll(c.book, final_events)]
      ELSE [c EXCEPT !.next_exp_inc_seq_num_ = next, !.snapshot_queued_msgs_ = Empty]

\* checkSnapshotSync().
CheckSnapshotSync(c) ==
  LET snapshot == c.snapshot_queued_msgs_
      seqs == DOMAIN snapshot
  IN  IF seqs = {} THEN c
      ELSE IF \/ snapshot[Min(seqs)].type # "SNAPSHOT_START"
              \/ seqs # 0 .. (Cardinality(seqs) - 1)
           THEN [c EXCEPT !.snapshot_queued_msgs_ = Empty]
      ELSE IF snapshot[Max(seqs)].type # "SNAPSHOT_END" THEN c
      ELSE Synchronize(c)

\* queueMessage(): a snapshot number that comes again drops what was queued.
QueueMessage(c, is_snapshot, m) ==
  LET kept == IF m.seq \in DOMAIN c.snapshot_queued_msgs_ THEN Empty
              ELSE c.snapshot_queued_msgs_
  IN  CheckSnapshotSync(
        IF is_snapshot
        THEN [c EXCEPT !.snapshot_queued_msgs_ = With(kept, m.seq, m.update)]
        ELSE [c EXCEPT !.incremental_queued_msgs_ = With(@, m.seq, m.update)])

\* The body of the loop of recvCallback().
OnMessage(c, is_snapshot, m) ==
  IF c.in_recovery_ THEN QueueMessage(c, is_snapshot, m)
  ELSE IF m.seq # c.next_exp_inc_seq_num_
       THEN QueueMessage(StartSnapshotSync([c EXCEPT !.in_recovery_ = TRUE]), is_snapshot, m)
  ELSE IF is_snapshot THEN c
  ELSE [c EXCEPT !.next_exp_inc_seq_num_ = @ + 1, !.book = Apply(@, m.update)]

\* The loop.
OnMessages(c, is_snapshot, msgs) ==
  LET read[k \in 0 .. Len(msgs)] ==
        IF k = 0 THEN c ELSE OnMessage(read[k - 1], is_snapshot, msgs[k])
  IN  read[Len(msgs)]

\* recvCallback().  leave() closes the snapshot socket, with what else it has
\* received (rest), when the recovery is over.
RecvCallback(is_snapshot, datagram, rest) ==
  /\ cons' = OnMessages(cons, is_snapshot, datagram)
  /\ snap_net' = IF cons'.in_recovery_ THEN rest ELSE << >>

ReadIncremental == inc_net # << >> /\ inc_net' = Tail(inc_net)

ReceiveIncremental ==
  /\ ReadIncremental
  /\ RecvCallback(FALSE, Head(inc_net), snap_net)
  /\ UNCHANGED <<log, flushed, ticker_orders_, last_inc_seq_num_, cycle, network>>

ReadSnapshot == snap_net # << >> /\ snap_net' \in {Tail(snap_net), << >>}

ReceiveSnapshot ==
  /\ ReadSnapshot
  /\ RecvCallback(TRUE, Head(snap_net), Tail(snap_net))
  /\ UNCHANGED <<log, flushed, inc_net, ticker_orders_, last_inc_seq_num_, cycle, network>>

Next ==
  \/ Len(log) < MaxUpdates /\ \E u \in Updates : PublishUpdate(u)
  \/ FlushIncremental \/ Misdeliver
  \/ AddToSnapshot \/ PublishSnapshot \/ SendSnapshot
  \/ ReceiveIncremental \/ ReceiveSnapshot

Spec == Init /\ [][Next]_vars

\* The three threads poll in endless loops, so what is in a buffer, a queue or a
\* socket is taken out of it; the synthesizer empties its queue before it looks
\* at its timer, and the timer expires every minute.
FairSpec ==
  /\ Spec
  /\ WF_flushed(EmptyBuffer)
  /\ SF_last_inc_seq_num_(TakeUpdate)
  /\ WF_cycle(StartCycle \/ ContinueCycle)
  /\ WF_inc_net(ReadIncremental)
  /\ WF_snap_net(ReadSnapshot)

-----------------------------------------------------------------------------
Numbers == 0 .. (MaxUpdates + 1)

TypeOK ==
  /\ flushed \in 0 .. Len(log) /\ last_inc_seq_num_ \in 0 .. Len(log)
  /\ DOMAIN ticker_orders_ \subseteq Orders /\ DOMAIN cons.book \subseteq Orders
  /\ cons.in_recovery_ \in BOOLEAN
  /\ cons.next_exp_inc_seq_num_ \in Numbers
  /\ DOMAIN cons.incremental_queued_msgs_ \subseteq Numbers

\* A client that is not recovering has exactly the exchange's book as of the
\* update before the one it expects next, whatever was lost, late or repeated,
\* and whenever the snapshot it recovered from was taken.
ClientBookIsExact ==
  ~cons.in_recovery_ => cons.book = BookAt(cons.next_exp_inc_seq_num_ - 1)

\* A recovery drops none of the updates that were queued during it, so it never
\* ends before the update that revealed the gap.
RecoveryKeepsQueued ==
  [][cons.in_recovery_ /\ ~cons'.in_recovery_ =>
       \A s \in DOMAIN cons.incremental_queued_msgs_ : s < cons'.next_exp_inc_seq_num_]_vars

\* A recovery ends once the network stops losing datagrams.
RecoveryEnds == cons.in_recovery_ ~> ~cons.in_recovery_
=============================================================================
