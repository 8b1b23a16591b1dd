------------------------------ MODULE LFQueue ------------------------------
(***************************************************************************)
(* Common::LFQueue (common/lf_queue.h), the ring buffer that connects      *)
(* every pair of threads of the exchange and of the trading client, and    *)
(* every logger to its writer thread.                                      *)
(*                                                                         *)
(* A producer takes the address of the next slot, fills it, and calls      *)
(* updateWriteIndex(); the consumer takes the address of the next element, *)
(* uses it, and calls updateReadIndex().  Each atomic access is a step of  *)
(* its own: next_write_index_ = (next_write_index_ + 1) % size is a load   *)
(* and a store, and num_elements_ changes after the index.  The atomics    *)
(* are sequentially consistent, so the steps interleave.                   *)
(*                                                                         *)
(* Elements are numbered in the order in which they are written: the n-th  *)
(* element written is the number n, and 0 is T(), the value the storage is *)
(* constructed with.                                                       *)
(*                                                                         *)
(* Operators whose comment starts with "Defect:" are variants of the       *)
(* definition that follows them, which some property must exclude.         *)
(*                                                                         *)
(* getNextToWriteTo() never looks at num_elements_: nothing keeps the      *)
(* producer from lapping the consumer.  MaxLead is the assumption that the *)
(* traffic makes instead: the most elements written and not yet released.  *)
(***************************************************************************)
EXTENDS Integers, FiniteSets, Sequences

CONSTANTS N,                 \* store_.size()
          Producers,         \* the threads that write to the queue
          MaxLead,           \* bound on written but unreleased elements
          MaxWrites,         \* bound on the elements ever written
          ReadAfterRelease   \* does the consumer read the slot once more after
                             \* updateReadIndex(), as MarketDataPublisher::run does?

ASSUME SizeAssumption   == N \in Nat \ {0}
ASSUME BoundsAssumption == MaxLead \in Nat /\ MaxWrites \in Nat
ASSUME ModeAssumption   == ReadAfterRelease \in BOOLEAN

VARIABLES
  store_,              \* the slots
  next_write_index_,   \* atomic
  next_read_index_,    \* atomic
  num_elements_,       \* atomic
  ppc,                 \* where each producer is
  wslot,               \* the slot getNextToWriteTo() gave to each producer
  wload,               \* next_write_index_ as updateWriteIndex() loaded it
  cpc,                 \* where the consumer is
  rslot,               \* the slot getNextToRead() gave to the consumer
  got,                 \* the element the consumer read last
  written, published,  \* elements filled in / counted in num_elements_ so far
  taken, released      \* elements read / given back by the consumer so far

ring     == <<store_, next_write_index_, next_read_index_, num_elements_>>
producer == <<ppc, wslot, wload>>
consumer == <<cpc, rslot, got>>
history  == <<written, published, taken, released>>
vars     == <<ring, producer, consumer, history>>

Slots == 0 .. (N - 1)

Init ==
  /\ store_ = [i \in Slots |-> 0]
  /\ next_write_index_ = 0 /\ next_read_index_ = 0 /\ num_elements_ = 0
  /\ ppc = [p \in Producers |-> "idle"]
  /\ wslot = [p \in Producers |-> 0] /\ wload = [p \in Producers |-> 0]
  /\ cpc = "idle" /\ rslot = 0 /\ got = 0
  /\ written = 0 /\ published = 0 /\ taken = 0 /\ released = 0

-----------------------------------------------------------------------------
(* The producers. *)

\* getNextToWriteTo().  No check that the slot is free; the lead is the
\* traffic's, counting the slots that other producers are about to fill.
GetNextToWriteTo(p) ==
  /\ ppc[p] = "idle"
  /\ LET filling == Cardinality({q \in Producers : ppc[q] = "fill"})
     IN  /\ written + filling < MaxWrites
         /\ written + filling - released < MaxLead
  /\ wslot' = [wslot EXCEPT ![p] = next_write_index_]
  /\ ppc' = [ppc EXCEPT ![p] = "fill"]
  /\ UNCHANGED <<ring, wload, consumer, history>>

\* The caller assigns through the pointer.
FillSlot(p) ==
  /\ ppc[p] = "fill"
  /\ store_' = [store_ EXCEPT ![wslot[p]] = written + 1]
  /\ written' = written + 1
  /\ ppc' = [ppc EXCEPT ![p] = "load"]
  /\ UNCHANGED <<next_write_index_, next_read_index_, num_elements_,
                 wslot, wload, consumer, published, taken, released>>

\* updateWriteIndex(), in its three atomic accesses.
LoadWriteIndex(p) ==
  /\ ppc[p] = "load"
  /\ wload' = [wload EXCEPT ![p] = next_write_index_]
  /\ ppc' = [ppc EXCEPT ![p] = "store"]
  /\ UNCHANGED <<ring, wslot, consumer, history>>

\* Defect: the index is not wrapped.
StoreWriteIndexNoWrap(p) ==
  /\ ppc[p] = "store"
  /\ next_write_index_' = wload[p] + 1
  /\ ppc' = [ppc EXCEPT ![p] = "count"]
  /\ UNCHANGED <<store_, next_read_index_, num_elements_, wslot, wload, consumer, history>>

\* Defect: the index wraps one slot early.
StoreWriteIndexEarlyWrap(p) ==
  /\ ppc[p] = "store"
  /\ next_write_index_' = IF wload[p] + 2 >= N THEN 0 ELSE wload[p] + 1
  /\ ppc' = [ppc EXCEPT ![p] = "count"]
  /\ UNCHANGED <<store_, next_read_index_, num_elements_, wslot, wload, consumer, history>>

StoreWriteIndex(p) ==
  /\ ppc[p] = "store"
  /\ next_write_index_' = (wload[p] + 1) % N
  /\ ppc' = [ppc EXCEPT ![p] = "count"]
  /\ UNCHANGED <<store_, next_read_index_, num_elements_, wslot, wload, consumer, history>>

\* Defect: the count of an element is lost.
CountElementLost(p) ==
  /\ ppc[p] = "count"
  /\ published' = published + 1
  /\ ppc' = [ppc EXCEPT ![p] = "idle"]
  /\ UNCHANGED <<ring, wslot, wload, consumer, written, taken, released>>

CountElement(p) ==
  /\ ppc[p] = "count"
  /\ num_elements_' = num_elements_ + 1
  /\ published' = published + 1
  /\ ppc' = [ppc EXCEPT ![p] = "idle"]
  /\ UNCHANGED <<store_, next_write_index_, next_read_index_, wslot, wload,
                 consumer, written, taken, released>>

Produce(p) ==
  \/ GetNextToWriteTo(p)
  \/ FillSlot(p)
  \/ LoadWriteIndex(p)
  \/ StoreWriteIndex(p)
  \/ CountElement(p)

-----------------------------------------------------------------------------
(* The consumer: the only thread that moves next_read_index_. *)

\* Defect: getNextToRead() does not look at size().
GetNextToReadUnchecked ==
  /\ cpc = "idle" /\ taken < MaxWrites
  /\ rslot' = next_read_index_
  /\ cpc' = "use"
  /\ UNCHANGED <<ring, producer, got, history>>

\* getNextToRead() with a result; with nullptr the caller just polls again.
GetNextToRead ==
  /\ cpc = "idle"
  /\ num_elements_ # 0
  /\ rslot' = next_read_index_
  /\ cpc' = "use"
  /\ UNCHANGED <<ring, producer, got, history>>

\* The caller reads through the pointer.
UseElement ==
  /\ cpc = "use"
  /\ got' = store_[rslot]
  /\ taken' = taken + 1
  /\ cpc' = "advance"
  /\ UNCHANGED <<ring, producer, rslot, written, published, released>>

\* Defect: only the count is given back.
AdvanceReadIndexForgotten ==
  /\ cpc = "advance"
  /\ cpc' = "release"
  /\ UNCHANGED <<ring, producer, rslot, got, history>>

\* updateReadIndex(), in its two atomic changes.  Nobody else writes
\* next_read_index_, so its load and store are one step.
AdvanceReadIndex ==
  /\ cpc = "advance"
  /\ next_read_index_' = (next_read_index_ + 1) % N
  /\ cpc' = "release"
  /\ UNCHANGED <<store_, next_write_index_, num_elements_, producer, rslot, got, history>>

\* The ASSERT on num_elements_ is ReadIsValid below: it exits when violated.
ReleaseElement ==
  /\ cpc = "release"
  /\ num_elements_ # 0
  /\ num_elements_' = num_elements_ - 1
  /\ released' = released + 1
  /\ cpc' = IF ReadAfterRelease THEN "reuse" ELSE "idle"
  /\ UNCHANGED <<store_, next_write_index_, next_read_index_, producer, rslot, got,
                 written, published, taken>>

\* MarketDataPublisher::run copies *market_update to the snapshot queue
\* after it called updateReadIndex().
ReuseElement ==
  /\ cpc = "reuse"
  /\ got' = store_[rslot]
  /\ cpc' = "idle"
  /\ UNCHANGED <<ring, producer, rslot, history>>

Consume ==
  \/ GetNextToRead
  \/ UseElement
  \/ AdvanceReadIndex
  \/ ReleaseElement
  \/ ReuseElement

Next == (\E p \in Producers : Produce(p)) \/ Consume

Spec == Init /\ [][Next]_vars

\* The consumer thread polls in a loop until it is told to stop, and a producer
\* that was given a slot always runs updateWriteIndex(); a producer need never
\* start another element.
FairSpec ==
  /\ Spec
  /\ WF_vars(Consume)
  /\ \A p \in Producers : WF_vars(Produce(p) /\ ppc[p] # "idle")

-----------------------------------------------------------------------------
(* Properties. *)

TypeOK ==
  /\ store_ \in [Slots -> 0 .. MaxWrites]
  /\ next_write_index_ \in Slots /\ next_read_index_ \in Slots
  /\ num_elements_ \in Nat
  /\ ppc \in [Producers -> {"idle", "fill", "load", "store", "count"}]
  /\ wslot \in [Producers -> Slots] /\ wload \in [Producers -> Slots]
  /\ cpc \in {"idle", "use", "advance", "release", "reuse"}
  /\ rslot \in Slots
  /\ got \in 0 .. MaxWrites
  /\ written \in 0 .. MaxWrites /\ published \in 0 .. MaxWrites
  /\ taken \in 0 .. MaxWrites /\ released \in 0 .. MaxWrites

\* "Underlying container of data accessed in FIFO order" (lf_queue.h:52): the
\* n-th element the consumer reads is the n-th element written, also when it
\* looks at it a second time.  Nothing is lost, repeated, reordered or torn.
FIFO == got = taken

\* updateReadIndex() never meets its ASSERT(num_elements_ != 0).
ReadIsValid == cpc = "release" => num_elements_ # 0

\* The elements published and not taken, as they lie in the ring from the slot
\* the consumer reads next.
Contents ==
  LET first == IF cpc = "advance" THEN next_read_index_ + 1 ELSE next_read_index_
  IN  [i \in 1 .. (published - taken) |-> store_[(first + i - 1) % N]]

\* A ring whose producer and consumer each move their own index is a channel:
\* what lies between the two indices is never disturbed, publication appends
\* to it and only the consumer's read takes from it, one at a time.
Abstract == INSTANCE Channel WITH Item <- 1 .. MaxWrites, None <- 0,
                                  queue <- Contents, last <- got
ImplementsChannel == Abstract!Spec

\* Every element whose producer completed updateWriteIndex() is eventually read:
\* num_elements_ never loses a count that the consumer waits for.
PublishedIsTaken ==
  \A n \in 1 .. MaxWrites : (published >= n) ~> (taken >= n)
=============================================================================
