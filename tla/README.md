# A verification of the trading ecosystem

TLA+ specifications of the exchange and the trading client of this repository,
model-checked with TLC and, in part, proved with TLAPS.

`PROJECT.json` is the machine-readable index: the components, the runs, the
mutants that show that each property can fail, the map from definitions to source
lines, the findings, the hazards and the theorems.

## 1. The system

Two kinds of process. One **exchange** (`exchange/exchange_main.cpp`) and any number
of **trading clients** (`trading/trading_main.cpp`), which talk over TCP (orders)
and UDP multicast (market data). Each component runs a thread that polls in an
endless loop; threads of a process exchange data only through lock-free queues.

```
 trading client                                    exchange
 TradeEngine ──requests──▶ OrderGateway ══TCP══▶ OrderServer ─FIFOSequencer─▶ MatchingEngine
   (books, features,  ◀──responses── OrderGateway ◀══TCP══ OrderServer ◀──responses──┘   │
    strategy, orders,                                                                    │ updates
    risk, positions)                                                                     ▼
        ▲                                  ══ incremental multicast ══  MarketDataPublisher
        └──updates── MarketDataConsumer ◀══ snapshot multicast ══════  SnapshotSynthesizer ◀┘
```

| component | state | operations | what makes it correct |
|---|---|---|---|
| `LFQueue` | ring, two indices, a count (atomics) | `getNextToWriteTo`, `updateWriteIndex`, `getNextToRead`, `updateReadIndex` | FIFO, nothing lost or repeated, no read of an empty queue, what is published is read |
| `MemPool` | blocks, `is_free_`, `next_free_index_` | `allocate`, `deallocate` | a block serves one object; the asserts hold; capacity |
| `MEOrderBook`, `MatchingEngine` | order pool, id map, level map, two lists of levels, next market order id | `add` (matching loop), `cancel` | containers agree; uncrossed; price-time priority; quantities conserved; responses and updates describe the book |
| `MarketOrderBook` (client) | the same containers, BBO | `onMarketUpdate`, `updateBBO` | lists show the orders by price and time; nothing leaks; BBO is the top of the book |
| `MarketDataPublisher` | next sequence number, send buffer | `run` | every update numbered once, sent and forwarded |
| `SnapshotSynthesizer` | resting orders, last sequence number, timer | `addToSnapshot`, `publishSnapshot` | a snapshot is the book as of the number it carries |
| `MarketDataConsumer` | `in_recovery_`, next expected number, two maps of queued messages | `recvCallback`, `queueMessage`, `startSnapshotSync`, `checkSnapshotSync` | outside recovery the client's book is exact; recovery ends |
| `OrderManager`, `RiskManager` | an `OMOrder` per side, next order id; limits | `moveOrders`, `newOrder`, `cancelOrder`, `onOrderUpdate`, `checkPreTradeRisk` | one order per side; position within its limit; no order stuck |
| `PositionKeeper` | position, volume-weighted prices, profit and loss | `addFill`, `updateBBO` | profit and loss is the money that changed hands plus the position at its mark |
| `TradeEngine`, `FeatureEngine`, `MarketMaker`, `LiquidityTaker` | features, callbacks | `run`, `onOrderBookUpdate`, `onTradeUpdate`, `onOrderUpdate` | quotes and the loss check follow the present book of their instrument |
| `OrderServer`, `FIFOSequencer` | socket and two sequence numbers per client, pending requests | `recvCallback`, `recvFinishedCallback`, `sequenceAndPublish`, `run` | requests reach the engine once, in order |
| `OrderGateway`, `TCPSocket`, `TCPServer` | buffers, sequence numbers, lists of sockets | `run`, `recvCallback`, `sendAndRecv`, `poll` | messages arrive whole and in order |
| `Logger` | an `LFQueue` of log elements, a writer thread | `log`, `flushQueue`, `~Logger` | one producer per queue; every line is in the file, whole and in order, when it is closed |
| `trading_main` | the components, a logger of its own | `main`, `TradeEngine::start` and `stop` | nothing queued is left unhandled; the process ends |
| `exchange_main` | the components | `main`, `signal_handler` | not modelled (section 5) |

What is hard here: the queues check nothing when they are full; the order books keep
four containers in step inside a loop that changes them; profit and loss come from a
variable nobody initialises; threads are stopped by a flag and waited for by a sleep; a
client's picture of its
orders is always late; multicast loses, reorders and repeats datagrams while a second
thread publishes snapshots; pools and maps have fixed sizes and prices are hashed
into one of them. `PROJECT.json` lists each of these as a hazard, at its line.

## 2. Modules

| module | models |
|---|---|
| `LFQueue`, `Channel` | the queue, atomic access by atomic access; the abstract FIFO channel it implements |
| `MemPool` | the pool |
| `CommonProofs` | proofs about `LFQueue` and `MemPool` |
| `MEOrderBook`, `MCMEOrderBook` | the matching engine with one book; the symmetry used to check it |
| `MEOrderBookProofs` | proofs about `MEOrderBook` |
| `BookLists` | the circular lists of an order book, as pointers into the two pools |
| `MarketOrderBook` | the client's book: `BookLists` driven by market updates, and the BBO |
| `MarketOrderBookProofs` | proofs about `BookLists` and `MarketOrderBook` |
| `MarketDataFeed` | publisher, synthesizer, multicast and consumer |
| `MarketDataFeedProofs` | proofs about `MarketDataFeed` |
| `OrderManager` | order and risk manager with the position, against an exchange that answers late |
| `OrderManagerProofs` | proofs about `OrderManager` |
| `TradeEngine`, `MCTradeEngine` | the client's handlers with position keeper, features and strategies; the books and prices to check them with |
| `TradeEngineProofs` | proofs about `TradeEngine` |
| `Logger` | `log()`, the writer thread and the destructor of a logger |
| `TradingMain`, `MCTradingMain` | the trading client from start to exit, on top of `Logger`; the log lines to check it with |
| `TradingMainProofs` | proofs about `TradingMain` |
| `OrderPath`, `MCOrderPath` | gateways, TCP streams, order server and sequencer, with the engine's answers and fills; the client ids up to renaming, to check it |
| `OrderPathProofs` | proofs about `OrderPath` |

A definition keeps the name of the function or member it models where it can. The
operators marked *Defect:* in a comment are altered versions of the definition that
follows them; nothing uses them, they are what the mutants of `PROJECT.json`
substitute to show that a property notices the corresponding mistake.

### LFQueue
`store_`, `next_write_index_`, `next_read_index_` and `num_elements_` are the members.
An element is its number in the order of writing, so FIFO delivery is the equality
`got = taken`. `updateWriteIndex()` is three steps (load, store, count), since
`next_write_index_ = (next_write_index_ + 1) % size` is not one atomic operation.
Nothing in the code stops a producer that is a whole ring ahead; `MaxLead` states how
far ahead the traffic lets it get. `ReadAfterRelease` turns on the second read that
`MarketDataPublisher::run` makes after `updateReadIndex()`.

### MemPool
`block[o]` is where object `o` lives. `allocate()` looks for the next free block
before it returns, and an ASSERT ends the process when there is none (`exited`).
`Init`, `Next`, `Spec` and `TypeOK` carry the prefix `Pool`, so that one module of proofs
can extend `MemPool` and `LFQueue`.

### MEOrderBook
`add()` is `NewOrder`, then one `Match` per iteration of the loop of
`checkForMatch()`, then `Rest` or `FullyMatched`; the locals of the C++ call are in
`agg`, and no other request is taken meanwhile (the engine is one thread, the steps
serve to state what holds *inside* the loop). Two observers are part of the state:
`ledger` is what the client responses tell the clients about each order, `feed` what
the market updates tell a subscriber. Circular lists are sequences from their head.

### BookLists and MarketOrderBook
Here the lists are pointers: a book is a record of the two pools, whose blocks hold
`prev`/`next` links, heads and maps, and every operator is the sequence of assignments
of the C++ method. `getNextPriority` and the exchange's `addOrdersAtPrice`,
`removeOrdersAtPrice`, `addOrder` and `removeOrder` are the same code, so what is
shown here of the lists justifies the sequences of `MEOrderBook`. `MarketOrderBook`
feeds it the updates a feed can contain and keeps the resting orders by id
(`resting`) to compare with. A loop along the links is a function from the number of steps
to the block reached (`Chain`): `FindTarget` is the first place where the loop of
`addOrdersAtPrice` stops, `Walk` what a reader meets who goes round a list.

### MarketDataFeed
A book is a function from orders to quantities; everything else an update carries is
fixed when the order is added. The queue from publisher to synthesizer is the part of
`log` beyond `last_inc_seq_num_`; what is in the send buffer is the part beyond
`flushed`, and goes out as one datagram. `SnapshotMsgs` is what the two loops of
`publishSnapshot()` write: the clears and orders, each at the place its ticker and id give it
(`Rank`). `cycle` is the message it sends next; a step sends up to the next order or the end,
where the code calls `sendAndRecv()`. This does not interleave with `addToSnapshot()`, which
the same thread runs. The network
loses (`MaxLosses`), delays or repeats (`MaxStale`) incremental datagrams and loses
snapshot datagrams in up to `MaxTorn` cycles; a cycle is received before the next,
a minute later, begins. Only a consumer in recovery has joined the snapshot stream.

### OrderManager
One instrument. The strategy may ask for any pair of quotes its code can produce at any
time: both sides for the market maker, one for the liquidity taker. The exchange side
is reduced to what `MEOrderBook` shows: a NEW is accepted, an open order may be filled
in any pieces at any time, a CANCEL finds it open or is rejected.

### OrderPath
A stream is a sequence of units, since the code sends a sequence number and then a body:
a read may end between the two. A gateway's thread takes requests from its queue
(`SendRequest`) or reads and sends (`SendAndRecv`); the server's round is one step per
socket, then `SequenceAndPublish`, then `Respond`, and data may arrive between them. A
read has one receive time, which is only compared with those of the same round. `shorts`
counts the sends of which the kernel took fewer messages than the buffer held (the real
`::send()` may also cut a message in two, after which both ends read garbage). Processes
get any client ids, so two may share one; a client that has ended looks to the server
like one that sends nothing, as it removes no socket. The engine's thread (`MatchingEngine`)
sends one response for a request it takes, as `add()` and `cancel()` do (`Answer`), and, as
`match()` does on a request, any number of FILLED, up to a bound, to clients that have sent
requests before (`Fill`). Which orders it fills and with what is the business of `MEOrderBook`.

### TradeEngine
One action per handler, each the whole chain of calls that the C++ handler makes:
`OnOrderBookUpdate` is `PositionKeeper::updateBBO`, `FeatureEngine::onOrderBookUpdate` and
`algoOnOrderBookUpdate_`, in this order. The chain ends in `call`, the quotes the order
manager is asked for and the outcome of the loss check. An update brings the book's best
bid and offer along (`MarketOrderBook` models where it comes from); fills keep within the
limit that `OrderManagerProofs` proves. The features are one pair for all
instruments, as in the code, so handlers of two instruments overwrite each other's.

A double is an integer number of `1/Unit`, and division is exact: `TypeOK` says that no
division by a position has a remainder. Rounding is not modelled. `open_vwap_` starts as any
member of `Garbage`, because the constructor leaves it out; garbage that happens to be a NaN
is not among them (every later comparison with it would be false, the loss check included).
`account` is not in the code: it is the cash, the last mark, the garbage that went into
the profit (`leftover`), the lowest and highest price paid for the open position, and
whether that position was opened without garbage (`clean`).

### Logger and TradingMain
`log()` pushes one element per step, and the writer thread takes them in two (write, advance).
A format is a sequence of `%` and other characters. What a line should look like is defined
apart from `log()`, by the parity of runs of `%` (`Line`). `TradingMain` adds main's
statements, with all its calls of `log()`: before each of its three starts, when it stops sending
early (`LogLine`), and in each iteration of its wait (`LogWait`). One line stands for them all,
and `logged` observes what they should have written. The engine's loop has two queues, each the
numbers of what came in, was handled and was released, and two threads fill them. `stop()` reads
the sizes of the two queues in two steps while both may grow. Time is not modelled: main may leave its wait for
silence at any moment. Its ten seconds of sleep are taken to be long enough for the
engine's thread to leave `run()`, because that is all there is: nothing joins the thread.

## 3. Runs

| run | checks | bounds, and why they are enough |
|---|---|---|
| `lfq_spsc` | `FIFO`, `ReadIsValid`, `ImplementsChannel`, `PublishedIsTaken` with one producer and the publisher's second read | 3 slots, 8 elements: more than two laps, so every index relation occurs; one slot spared, with none `FIFO` fails. Proved for all sizes, and without the second read for a ring that may be full |
| `lfq_two_producers` | `FIFO`: **violated** (finding) | two producers of one logger |
| `mem_pool` | `BlockIsFree`, `Exclusive`, `GivesUpAtCapacity` | 4 blocks, 5 objects: the pool fills, wraps and overflows |
| `book` | `Uncrossed`, `OldestFirst`, `FeedMirrorsBook`, `BookIsConsistent`, `ResponsesAddUp`, `PriceTimePriority` of the exchange's book | 2 clients, 3 prices, quantities 0 to 2, 4 orders, any cancels of which one order's may be rejected: a sweep through two levels, partial fills on either side, a level that disappears and comes back |
| `lists` | `ListsShowOrders`, `BlocksAreAccountedFor`, `BBOExactOrUnset` | 4 orders, 3 prices: insertion at the front, in the middle and at the end, removal of each; pools one larger than what is in use, their real limit. Proved for all sizes |
| `book_clear` | `ListsShowOrders` when CLEAR meets a book that is not empty: **violated** (finding) | one price |
| `recovery` | `ClientBookIsExact`, `RecoveryKeepsQueued`, `RecoveryEnds` | 2 orders, 3 updates, one loss, one stale datagram, one torn cycle |
| `recovery_torn` | `ClientBookIsExact`: **violated** (finding) | two torn cycles, one order |
| `orders` | `OneOrderPerSide`, `PositionWithinLimit`, `QuietManagerIsRight`, `PendingResolves` | 3 prices, orders of 2 against a limit of 3, 5 orders; the first two proved for all limits |
| `order_path` | `RequestsInOrder`, `ResponsesInOrder`, `Served` | 2 client ids, 2 processes, 3 requests, a fill, a short send on any connection, room for 2 pending requests: a hole in either stream, a second process with a known id, the full list; client ids up to renaming; the first two proved without bounds |
| `engine` | `AccountsAreRight`, `QuotesFollowTheBook` | two instruments, one of them traded, 4 fills of 1 or 2 at two prices, positions up to 3, a book that is one-sided, wide or narrow: positions that are opened, widened, reduced, closed and flipped, with book changes in between; features of one instrument met by the other; clean and unclean memory |
| `shutdown` | `LogComplete`, `StopDrains`, `Exits` | formats of up to 2 characters and `%%%`, with 0 to 2 arguments of 0 to 2 elements; up to five calls of `log()`, one of them in the wait; two iterations of the random orders; one response and one update, at any time: one queue fills while `stop()` looks at the other. `LogComplete` and `StopDrains` are proved without bounds |

Every run also checks its module's `TypeOK`, save those that show a violation.

`CHECK_DEADLOCK FALSE` stands where a bound on inputs makes the model stop although
the program would wait for the next input, or where the process may end (`exited`).

### The findings
* **Two producers** (`lfq_two_producers`): README.md says the queues have a single
  producer; with the RANDOM algorithm both the main thread and the engine's thread log
  through the trade engine's logger; and with every algorithm `TradeEngine::stop()` logs from
  main while the engine's thread still runs.
* **CLEAR** (`book_clear`): the level map keeps pointing at freed levels. The client
  meets it in every recovery that starts from a book that is not empty.
* **Torn snapshots** (`recovery_torn`): the consumer takes messages of two snapshot
  cycles for one when their numbers happen to make up a complete sequence.

Two properties hold only within limits that the code does not enforce; the runs and the
theorems keep to them, and beyond them they fail:

* *Requests of a round.* order_server.h:128 says that the sequencer makes sure requests are
  processed in the order in which they were received, and fifo_sequencer.h:10 lets a round take
  1024. All requests of one read have one receive time, and `std::sort` keeps equal elements in
  place only up to 16 (libstdc++); beyond, one client's requests may change places.
  `RequestsInOrder` is checked and proved for rounds that fit (`RoundsFit`). With
  `StableUpTo = 2` and `MaxPending = 4` TLC shows one read of three requests that fails it.
* *Prices that collide.* me_order_book.h:58 calls `price_orders_at_price_` a map from prices; its
  index is the price's remainder by 256, and nothing looks at the price of the level found.
  The properties of the book are checked and proved where no two prices collide
  (`NoCollision`). With prices 1 to 3 and `Levels = 2` TLC shows two orders after which
  `BookIsConsistent` fails. (It also needs `Uncrossed`: bids and asks share the map.)

Requests of two connections are compared only when one round has read both; nothing is stated
about their order. A producer of an `LFQueue` that is a whole ring ahead overwrites what is
still to be read: nothing bounds its lead and no line promises a bound. `MaxLead` keeps the runs
within the ring, and with `MaxLead = N + 1` `FIFO` fails.

### Fairness
Every thread polls in a loop without waiting on anything (`while (run_)`), so weak
fairness of each thread's own step is what an operating system that schedules it
gives. `LFQueue`: the consumer, and a producer inside a call. `MarketDataFeed`: the
publisher's flush, both sockets' reads, the snapshot timer and the continuation of a
cycle; strong fairness of `TakeUpdate`, because the synthesizer empties its queue
before each look at the timer. `OrderPath`: the threads of gateways, server and engine
(its answers; whether it fills anything depends on the requests), and TCP, which delivers what
the kernel has taken. `OrderManager`: the exchange handles
requests and the client handles responses; fills need never happen. `TradingMain`: the
threads of main, the engine and the logger; main waits for silence in a bounded number of
iterations (`MaxWaits`); the gateway and the consumer need not bring
anything, and bring a bounded number of messages. Without that bound `stop()` may look at
queues that are never empty, and does not return: it relies on a market that is quiet.

## 4. Proofs

`CommonProofs` assumes, of `LFQueue`, one producer (`SingleProducer`) whose lead fits (`LeadFits`:
at most `N`, or `N - 1` with the second read), and proves `[]FIFO`, `[]ReadIsValid`
and `[]TypeOK` for every size and every number of elements. `FIFO` is not inductive.
The invariant `Inv` adds where the indices are relative to each other (the write index
is `written - released` slots ahead of the read index, up to the step the two threads
are in), what every slot between them holds (the element at distance `d` from the
reader is number `released + d + 1`), and that the counters differ by what is in
progress. Distances are computed with `Wrap`, a conditional subtraction: the lemma
`NextIndex` connects it with `%`, which the SMT solver does not reason about well.

`RingImplementsChannel` adds that the ring implements `Channel`. The refinement mapping is
in `LFQueue`: the channel's queue is the sequence of elements published and not taken. With
`Inv`, the step that counts an element is a `Put`, the step that reads it is a `Get` (of
the right element, by `FIFO`), and all others leave the channel alone.

Of `MemPool` it proves `[]Exclusive`, `[]BlockIsFree`, `[]PoolTypeOK` and `[]GivesUpAtCapacity`
for every pool size and any set of objects. The invariant ties `is_free_` to `block`: the
block of an object is in use, and the process goes on only with a free block at
`next_free_index_`. For the capacity, a search that finds nothing has looked at every other
block, and blocks in use and objects are one to one.

`MEOrderBookProofs` proves every property of the run `book`, `PriceTimePriority` (an action
property) included, for any clients, quantities and number of orders. The hypothesis is
`NoCollision`: no two prices hash to one level. The code needs it and does not check it;
prices within `ME_MAX_PRICE_LEVELS` of each other satisfy it. `BookIsConsistent` is not
inductive, for two reasons. Its parts lean on each other: that a level is found by its price
needs that levels of both sides are apart, which needs `Uncrossed`, which inside `add()` needs
that the aggressor rests only once nothing is in its reach. And the ids, the feed and the
ledger have to be related to the locals of the call that runs (`OtherTypesOK`, `IdsAgree`,
`LedgerOK`: the aggressor is in no container yet, and what it has executed, what is left of it
and what it was sent add up). Lemmas about `InsertAt` and `RemoveAt` say what the lists are
after a change; `RemoveOrder`, `AddOrder` and `StayInBook` carry the agreement of the
containers over the three ways in which the book changes; one lemma per action does the rest.

`OrderManagerProofs` proves `[]OneOrderPerSide` and `[]PositionWithinLimit` for all
prices, clips, limits and numbers of orders, with queues of any length. Neither is
inductive: both speak of what the exchange holds, and the manager decides on what it
was told. `OrdersInv` says what may be under way in each situation: a NEW request is
the only thing of its side anywhere, a response is about the current `OMOrder` of its
side, after a final response (a cancel, or a fill that leaves nothing) nothing more of
that side follows or is open, and a CANCEL, however late, never names the other side's
order. So a side that is INVALID or DEAD has nothing in the market, which is when
`moveOrder()` sends a new order. For the limit, `PositionsAgree` says that there is a
sequence `left` of quantities, one after each response under way, that leads from the
quantity of the `OMOrder` to the quantity open at the exchange by the fills in the
queue; the two positions differ by the ends of those sequences. With `LimitHolds` (the
client's position and the whole of the side's active order fit within the limit) the
exchange's position does too. The assumptions are those of the module: a clip above
zero, limits that are naturals.

`[]QuietManagerIsRight` needs that nothing the manager waits for was lost: `WaitInv` says
that an `OMOrder` that is PENDING_NEW has its request or the acceptance under way, and one
that is PENDING_CANCEL its cancel, or the response that ends it. With both queues empty only
the states that wait for nothing are left, and `PositionsAgree` makes the quantities equal.

`TradingMainProofs` proves `[]StopDrains` and `[]TypeOK` for any amount of traffic. The
invariant follows `stop()`: what had come in when it was called is never more than what has
come in now, and a queue that was once found empty has had all of that handled (`Drained`),
however much has come in since. An element is handled before the read index moves, so an
empty queue is a handled one.

It also proves `[]LogComplete`, for any formats and arguments. `log()` reads a format from left
to right and looks one character ahead; `Line` says what it should write from the length of the
runs of `%`. `ReadUpTo` joins the two: at every step `log()` is behind some character that is not
the first half of an escaped `%` (`Between`, which the lemma `NextCharacter` carries over each of
the three things that can come next), it has taken one argument per placeholder so far, and what
is in the file, in the queue and left of the present argument is what the characters so far put
into the line, after the lines of the earlier calls (`logged`). `CloseOK` says that `running_` is
cleared only when the queue is empty and no call of `log()` can follow.

`TradeEngineProofs` proves `[]AccountsAreRight`, `[]QuotesFollowTheBook` and `[]TypeOK` for all
prices, quantities, limits, thresholds and garbage. The model's integers stand for the doubles
only while divisions are exact, so the theorems are about the behaviours with `[]Exact` (no
average price has a remainder; `TypeOK` repeats it and the run checks it), and the one about
quotes about books with exact fair prices (`FairPricesExact`, which `MCTradeEngine` assumes and
TLC evaluates). The profit is not inductive by itself: `Balanced` splits it into the realized
part, which is the cash less what the open position cost, and the unrealized one, its worth
less the same cost; `Started` says that garbage is only in `open_vwap_` before the first fill;
`WithinPrices` is the bound on costs, and holds after a partial close because the average lies
within the bounds. The lemmas take a fill from its own side (`Seen`), so that the cases are
open, close, flip and reduce and not eight. For quotes nothing else is needed: each handler
overwrites `call`, and `FarFromFair` turns the distance from the fair price into the share of
the spread.

`OrderPathProofs` proves `[]TypeOK` and `[]ResponsesInOrder` for any number of processes,
client ids, requests, fills, short sends and rounds, and `[]RequestsInOrder` for the behaviours
with `[]RoundsFit`: no round reads more requests than `std::sort` keeps in order, which the code
needs and does not check. The invariant `Inv` has three ideas. *Framing*: a buffer of whole
messages and what is under way behind a half-read one are, together, whole messages, each
numbered as its body says (`Streams`); the lemmas `FramedConcat`, `FramedPrefix` and
`ReadMessages` say that sends, short sends and reads of any length keep this, which is why at most
half a message stays in `inbound`. *Binding*: every request that was taken came over the socket
in `cid_tcp_socket_` of its client (`Bound`), so whoever the engine answers has a socket, the
ASSERT in `run()` holds, and only that process is sent anything (`OnlyHeard`). *Numbers*: the
responses in the queue are, for each client, exactly those between OrderServer's next number and
the engine's (`Queued`), so that a number and a body that agree when sent agree when read, and a
gateway that takes only the next number has the engine's first responses. `OrderInv` adds for
the requests that what is pending continues what was published without a gap (`Continued`), and
that the requests of one socket in one round have one receive time (`ReadAtOnce`), because a
socket is read once in a round (`Round`). A sort is an injection of the positions into
themselves, hence onto, so nothing is left out; two requests of a client have one socket, one
time, and keep their order.

`MarketDataFeedProofs` proves `[]TypeOK` and `RecoveryKeepsQueued` (an action property) for
any tickers, ids, quantities, updates, losses, delays and torn cycles, and
`[]ClientBookIsExact` where `MaxTorn = 0`. The hypothesis is needed: with two torn cycles the run
`recovery_torn` shows that the code does not have the property (with one, the run `recovery`
shows that it does, on its instance). `Inv` says that whatever incremental is under way or
queued is the update of its number in the log, that the synthesizer's book is the log's at
`last_inc_seq_num_`, and that outside a recovery nothing of a snapshot is queued or read.
`ClientBookIsExact` is not inductive, because a recovery ends with a book put together from
messages received long before. `ExactInv` adds `OneSnapshot`: the snapshot messages that are
queued and the datagrams under way are, one behind the other (`pos` is where each datagram
begins), the first messages of one snapshot, of the exchange's book after some `n` updates, or
nothing is queued, as when the consumer joined in the middle. So a queue that starts with
SNAPSHOT_START and ends with SNAPSHOT_END is a whole snapshot. `SnapshotReplay` then says that
applying its messages to any book gives the book they were taken from: every ticker's clear is
before its orders, and each order is there once (`InOrderFacts`: the ranks are a numbering).
`ReplaySame` and `RecoveryIsExact` continue from there with the queued incrementals, which
have no gap and are the log's.

`MarketOrderBookProofs` proves every property of the run `lists` (`[]TypeOK`,
`[]ListsShowOrders`, `[]BlocksAreAccountedFor`, `[]BBOExactOrUnset`), for pools of any size and
any ids, prices and quantities, under the two hypotheses of `Orderly`. *No collisions*: as for
the exchange's book. *A snapshot comes to an empty book* (`ClearsMidway = FALSE`): without it
`ListsShowOrders` is false, which is the finding of `book_clear`.

The properties speak of what is found by following pointers, and no property of single
pointers implies them: two lists may have agreeing links and share a block, or leave one out.
`BookIs` therefore says that there are sequences `lv`, of the levels of each side from the best
one on, and `ov`, of the orders of each level from the oldest one on, of which the memory is the
picture. `LevelsAre`: the blocks of `lv[s]` are distinct, linked in both directions in that order
and closed to a ring (`IsRing`), sorted by price, found by price in the hash map; `best` points
at the first; they are all the blocks of the pool in use. `QueuesAre` says the same of orders,
`OrdersAre` that what the rings hold, what the hash map of ids holds and what rests are the same.
Both also say that `next_free_index_` points at a free block.

An update changes the sequences in one place, and the proof is that each method makes exactly
the assignments for that change. `RingWithBlock` and `RingWithoutBlock` say which two blocks
have to be rewritten when a block enters or leaves a ring at any position, and `WithBlockFacts`
and `WithoutBlockFacts` what the sequence is afterwards. For the loop of `addOrdersAtPrice`,
`ChainOfRing` says that the pointers lead through the sequence and back to its head,
`TargetFound` that the loop stops in front of the first level that the new price is not behind,
and `LevelGoesIn` that each of the four branches (empty side, last, new best, in between) then
inserts at the place that keeps the prices sorted, whatever the two blocks to be linked are,
also if they are the same one. `NextFreeIsFree` says that the search of `updateNextFreeIndex()`
finds a block when one is left, so what is allocated is linked nowhere (`NextIsNotLinked`).
`ArrivesAtLevel`, `ArrivesFirst`, `Modifies`, `CancelsAtLevel`, `CancelsLevel` and `ClearsNothing`
carry `BookIs` over the cases of `onMarketUpdate()`. `ListsRead` goes back from the sequences to
what a reader's walk returns.

For the BBO each of these lemmas also shows `TopsKept`: the best level of a side, and the orders
of its ring, are untouched when the update is of the other side or its price is behind the best
one. Those are the cases in which `bid_updated` and `ask_updated` are false, so what `updateBBO()`
leaves alone has not changed (`TopStays`).

The loops of the callbacks, and the parts of a line, are recursive functions. What they preserve is shown without
induction over an operator: `UpTo` takes the set of the iterations that satisfy a predicate, and
`LeastNatural` (by `WFMin`) the least one outside it.

Only model-checked:

* liveness (`PublishedIsTaken`, `RecoveryEnds`, `PendingResolves`, `Served`, `Exits`), which is
  beyond the proof system;
* `ClientBookIsExact` with one torn cycle.

## 5. Not modelled

* Sends that cut a message in two, and connections that end.
* Rounding of the doubles in positions and features. In `OrderManager` the loss check and the
  strategies' conditions take either outcome; `TradeEngine` computes them.
* The exchange's end: `signal_handler` interrupts main, deletes the components one by one
  while threads still use what they share, and exits. It has no protocol to check, only sleeps.
* `createAndStartThread`, which captures its arguments by reference and sleeps a second so that
  the thread has used them before they go; pointers in arrays that constructors leave unset;
  the model starts from empty maps, which fresh pages give.
* `socket_utils`, `time_utils`, the examples: calls of the operating system, no state.
* Formatting, log files, socket options, argument parsing.

## 6. Plan

1. `ClientBookIsExact` with one torn cycle: `OneSnapshot` would have to speak of the head of the
   torn cycle and of the next one, whose first message clears the queue.
