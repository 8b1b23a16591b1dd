----------------------- MODULE MarketDataFeedProofs -----------------------
(***************************************************************************)
(* Proofs about MarketDataFeed: its types, what a recovery keeps, and that *)
(* the client's book is exact when no snapshot cycle loses a datagram, for *)
(* any tickers, ids, quantities, updates, losses and delays.               *)
(***************************************************************************)
EXTENDS MarketDataFeed, FiniteSetTheorems, WellFoundedInduction, SequenceTheorems, TLAPS

(***************************************************************************)
(* The inductive invariant.                                                *)
(***************************************************************************)
Adds == {Add(o, q) : o \in Orders, q \in Qtys}
MarketUpdates ==
  Adds \cup {Modify(o, q) : o \in Orders, q \in Qtys}
       \cup {Cancel(o) : o \in Orders} \cup {Trade(t) : t \in Tickers}
SnapshotUpdates ==
  [type : {"SNAPSHOT_START", "SNAPSHOT_END"}, last : Nat]
    \cup {Clear(t) : t \in Tickers} \cup Adds

\* Maps from numbers, and books.
Maps(S) == UNION {[D -> S] : D \in SUBSET Nat}
Books == UNION {[D -> Qtys] : D \in SUBSET Orders}

Messages(S) == [seq : Nat, update : S]
Consumer == [in_recovery_ : BOOLEAN, next_exp_inc_seq_num_ : Nat,
             snapshot_queued_msgs_ : Maps(SnapshotUpdates),
             incremental_queued_msgs_ : Maps(MarketUpdates), book : Books]

\* Numbers and updates agree with the log.
FromLog(L, m) == m.seq \in 1 .. Len(L) /\ m.update = L[m.seq]
QueuedFromLog(L, queued) == \A s \in DOMAIN queued : s \in 1 .. Len(L) /\ queued[s] = L[s]

IsStart(u) == u.type = "SNAPSHOT_START"
IsEnd(u) == u.type = "SNAPSHOT_END"

\* A snapshot is not newer than the log, starts with number 0 and ends with a datagram.
NotNewer(L, u) == IsStart(u) \/ IsEnd(u) => u.last <= Len(L)
SnapshotMessage(L, m) ==
  /\ m \in Messages(SnapshotUpdates) /\ NotNewer(L, m.update)
  /\ IsStart(m.update) => m.seq = 0
SnapshotDatagram(L, d) ==
  \A k \in 1 .. Len(d) : SnapshotMessage(L, d[k]) /\ (k < Len(d) => ~IsEnd(d[k].update))

\* The snapshot messages that wait: the first ones, the last one not among them.
FirstOnes(L, snapshot) ==
  \E k \in Nat : /\ DOMAIN snapshot = 0 .. (k - 1)
                 /\ \A s \in 0 .. (k - 1) : /\ NotNewer(L, snapshot[s]) /\ ~IsEnd(snapshot[s])
                                            /\ IsStart(snapshot[s]) <=> s = 0

ConsumerOK(L, c) ==
  /\ c \in Consumer /\ c.next_exp_inc_seq_num_ \in 1 .. (Len(L) + 1)
  /\ QueuedFromLog(L, c.incremental_queued_msgs_)
  /\ FirstOnes(L, c.snapshot_queued_msgs_)

LogTypes ==
  /\ log \in Seq(MarketUpdates) /\ Len(log) <= MaxUpdates
  /\ flushed \in 0 .. Len(log)
  /\ last_inc_seq_num_ \in 0 .. Len(log) /\ ticker_orders_ = BookAt(last_inc_seq_num_)
CycleOK == cycle \in 0 .. Len(SnapshotMsgs(ticker_orders_, last_inc_seq_num_))

IncrementalNet(L, net) ==
  /\ net \in Seq(Seq(Messages(MarketUpdates)))
  /\ \A i \in 1 .. Len(net) : \A k \in 1 .. Len(net[i]) : FromLog(L, net[i][k])
SnapshotNet(L, net) ==
  /\ net \in Seq(Seq(Messages(SnapshotUpdates)))
  /\ \A i \in 1 .. Len(net) : SnapshotDatagram(L, net[i])

\* Nothing of a snapshot is left outside a recovery.
NoSnapshot(c, net) == ~c.in_recovery_ => net = << >> /\ DOMAIN c.snapshot_queued_msgs_ = {}

Inv ==
  /\ LogTypes /\ CycleOK /\ IncrementalNet(log, inc_net) /\ SnapshotNet(log, snap_net)
  /\ ConsumerOK(log, cons) /\ NoSnapshot(cons, snap_net)

(***************************************************************************)
(* And without torn cycles: what is under way are the datagrams that       *)
(* follow the messages that wait, all of one snapshot. pos is where in it  *)
(* each datagram begins.                                                   *)
(***************************************************************************)
NothingTorn == torn = 0 /\ ~tearing

\* The queued messages of a snapshot: none, or its first p.
FirstOf(msgs, queue, p) ==
  \/ DOMAIN queue = {}
  \/ DOMAIN queue = 0 .. (p - 1) /\ \A s \in DOMAIN queue : queue[s] = msgs[s + 1].update

Sequel(msgs, queue, net, pos, end) ==
  /\ pos \in [1 .. (Len(net) + 1) -> 0 .. Len(msgs)] /\ pos[Len(net) + 1] = end
  /\ \A i \in 1 .. Len(net) : pos[i] <= pos[i + 1] /\ net[i] = SubSeq(msgs, pos[i] + 1, pos[i + 1])
  /\ FirstOf(msgs, queue, pos[1])

Snapshot(L, n) == SnapshotMsgs(Replay(Empty, L)[n], n)
SentSoFar(msgs, next) == IF next = 0 THEN Len(msgs) ELSE next - 1
OfSnapshot(L, n, next, last, queue, net) ==
  /\ n \in 0 .. Len(L) /\ (next # 0 => n = last)
  /\ \E pos : Sequel(Snapshot(L, n), queue, net, pos, SentSoFar(Snapshot(L, n), next))

OneSnapshot ==
  \E n : OfSnapshot(log, n, cycle, last_inc_seq_num_, cons.snapshot_queued_msgs_, snap_net)

ExactInv == NothingTorn /\ OneSnapshot /\ ClientBookIsExact

(***************************************************************************)
(* Induction over the messages of a loop: the least number that is a       *)
(* counterexample.                                                         *)
(***************************************************************************)
LEMMA LeastNatural ==
  ASSUME NEW T \in SUBSET Nat, T # {}
  PROVE  \E n \in T : \A m \in T : n <= m
<1> DEFINE R == OpToRel(<, Nat)
<1>1. IsWellFoundedOn(R, Nat)
  BY NatLessThanWellFounded
<1>2. ASSUME NEW x \in Nat, NEW y \in Nat, y < x PROVE <<y, x>> \in R
  BY <1>2 DEF OpToRel
<1> HIDE DEF R
<1>3. PICK x \in T : \A y \in T : ~(<<y, x>> \in R)
  BY <1>1, WFMin
<1>4. ASSUME NEW m \in T PROVE x <= m
  <2>1. m \in Nat /\ x \in Nat /\ <<m, x>> \notin R
    BY <1>3
  <2>2. ~(m < x)
    BY <2>1, <1>2
  <2> QED BY <2>1, <2>2
<1> QED BY <1>4

\* A set with 0 and with the successor of each of its members below n has all numbers up to n.
LEMMA UpTo ==
  ASSUME NEW n \in Nat, NEW T, 0 \in T, \A k \in 1 .. n : k - 1 \in T => k \in T
  PROVE  \A k \in 0 .. n : k \in T
<1> DEFINE Missing == {k \in 0 .. n : k \notin T}
<1>1. SUFFICES ASSUME Missing # {} PROVE FALSE
  OBVIOUS
<1>2. PICK k \in Missing : \A m \in Missing : k <= m
  <2>1. Missing \in SUBSET Nat
    OBVIOUS
  <2> HIDE DEF Missing
  <2> QED BY <1>1, <2>1, LeastNatural
<1>3. k \in 1 .. n /\ k - 1 \in 0 .. n /\ k - 1 \notin Missing
  BY <1>2
<1> QED BY <1>2, <1>3

(***************************************************************************)
(* Books and their updates.                                                *)
(***************************************************************************)
Replayed(b, updates, n, books) ==
  books = [k \in 0 .. n |-> IF k = 0 THEN b ELSE Apply(books[k - 1], updates[k])]

LEMMA ReplayedExists ==
  ASSUME NEW b, NEW updates, NEW n \in Nat
  PROVE  \E books : Replayed(b, updates, n, books)
<1> DEFINE T == {m \in Nat : \E books : Replayed(b, updates, m, books)}
<1>1. 0 \in T
  <2>1. Replayed(b, updates, 0, [k \in 0 .. 0 |-> b])
    BY DEF Replayed
  <2> QED BY <2>1
<1>2. ASSUME NEW m \in 1 .. n, m - 1 \in T PROVE m \in T
  <2>1. PICK f : Replayed(b, updates, m - 1, f)
    BY <1>2
  <2> DEFINE g == [k \in 0 .. m |-> IF k < m THEN f[k] ELSE Apply(f[m - 1], updates[m])]
  <2>2. ASSUME NEW k \in 0 .. m
        PROVE  g[k] = IF k = 0 THEN b ELSE Apply(g[k - 1], updates[k])
    <3>1. CASE k = m
      BY <3>1
    <3>2. CASE k # m
      <4>1. k \in 0 .. (m - 1) /\ g[k] = f[k] /\ (k # 0 => g[k - 1] = f[k - 1])
        BY <3>2
      <4>2. f[k] = IF k = 0 THEN b ELSE Apply(f[k - 1], updates[k])
        BY <2>1, <4>1 DEF Replayed
      <4> QED BY <4>1, <4>2
    <3> QED BY <3>1, <3>2
  <2>3. g = [k \in 0 .. m |-> g[k]]
    OBVIOUS
  <2> HIDE DEF g
  <2>4. Replayed(b, updates, m, g)
    BY <2>2, <2>3 DEF Replayed
  <2> QED BY <2>4
<1> HIDE DEF T
<1>3. n \in T
  BY <1>1, <1>2, UpTo
<1> QED BY <1>3 DEF T

LEMMA ReplayFacts ==
  ASSUME NEW b, NEW updates, Len(updates) \in Nat
  PROVE  /\ Replay(b, updates)[0] = b
         /\ \A n \in 1 .. Len(updates) :
              Replay(b, updates)[n] = Apply(Replay(b, updates)[n - 1], updates[n])
<1>1. \E books : Replayed(b, updates, Len(updates), books)
  BY ReplayedExists
<1> DEFINE f == CHOOSE books : Replayed(b, updates, Len(updates), books)
<1>2. Replayed(b, updates, Len(updates), f)
  BY <1>1
<1>3. Replay(b, updates) = f
  BY DEF Replay, Replayed
<1> HIDE DEF f
<1>4. \A n \in 0 .. Len(updates) : f[n] = IF n = 0 THEN b ELSE Apply(f[n - 1], updates[n])
  BY <1>2 DEF Replayed
<1>5. f[0] = b
  BY <1>4
<1>6. ASSUME NEW n \in 1 .. Len(updates) PROVE f[n] = Apply(f[n - 1], updates[n])
  BY <1>4
<1> QED BY <1>3, <1>5, <1>6

\* Only the first n updates count for the n-th book, and those of books that are the same.
SameUpdates(s, i, t, j, n) == \A k \in 1 .. n : s[i + k] = t[j + k]
SameBook(b, s, i, c, t, j, n) == Replay(b, s)[i + n] = Replay(c, t)[j + n]

LEMMA ReplaySame ==
  ASSUME NEW b, NEW s, Len(s) \in Nat, NEW c, NEW t, Len(t) \in Nat,
         NEW i \in Nat, NEW j \in Nat, NEW n \in Nat, i + n <= Len(s), j + n <= Len(t),
         Replay(b, s)[i] = Replay(c, t)[j], SameUpdates(s, i, t, j, n)
  PROVE  SameBook(b, s, i, c, t, j, n)
<1> DEFINE f == Replay(b, s)
           g == Replay(c, t)
           T == {k \in 0 .. n : f[i + k] = g[j + k]}
<1>1. /\ \A k \in 1 .. Len(s) : f[k] = Apply(f[k - 1], s[k])
      /\ \A k \in 1 .. Len(t) : g[k] = Apply(g[k - 1], t[k])
  BY ReplayFacts
<1>2. f[i] = g[j]
  OBVIOUS
<1> HIDE DEF f, g
<1>3. 0 \in T
  <2>1. i + 0 = i /\ j + 0 = j
    OBVIOUS
  <2> QED BY <1>2, <2>1
<1>4. ASSUME NEW k \in 1 .. n, k - 1 \in T PROVE k \in T
  <2>1. /\ i + k \in 1 .. Len(s) /\ j + k \in 1 .. Len(t)
        /\ (i + k) - 1 = i + (k - 1) /\ (j + k) - 1 = j + (k - 1)
    OBVIOUS
  <2>2. f[i + (k - 1)] = g[j + (k - 1)] /\ s[i + k] = t[j + k]
    BY <1>4 DEF SameUpdates
  <2>3. f[i + k] = Apply(f[i + (k - 1)], s[i + k]) /\ g[j + k] = Apply(g[j + (k - 1)], t[j + k])
    BY <1>1, <2>1
  <2> QED BY <2>2, <2>3
<1> HIDE DEF T
<1>5. n \in T
  <2>1. n \in 0 .. n
    OBVIOUS
  <2>2. \A k \in 1 .. n : k - 1 \in T => k \in T
    BY <1>4
  <2> QED BY <1>3, <2>1, <2>2, UpTo
<1> QED BY <1>5 DEF T, f, g, SameBook

(***************************************************************************)
(* The loop of recvCallback().                                             *)
(***************************************************************************)
MessagesRead(c, is_snapshot, msgs, n, read) ==
  read = [k \in 0 .. n |-> IF k = 0 THEN c ELSE OnMessage(read[k - 1], is_snapshot, msgs[k])]

LEMMA MessagesReadExists ==
  ASSUME NEW c, NEW is_snapshot, NEW msgs, NEW n \in Nat
  PROVE  \E read : MessagesRead(c, is_snapshot, msgs, n, read)
<1> DEFINE T == {m \in Nat : \E read : MessagesRead(c, is_snapshot, msgs, m, read)}
<1>1. 0 \in T
  <2>1. MessagesRead(c, is_snapshot, msgs, 0, [k \in 0 .. 0 |-> c])
    BY DEF MessagesRead
  <2> QED BY <2>1
<1>2. ASSUME NEW m \in 1 .. n, m - 1 \in T PROVE m \in T
  <2>1. PICK f : MessagesRead(c, is_snapshot, msgs, m - 1, f)
    BY <1>2
  <2> DEFINE g == [k \in 0 .. m |-> IF k < m THEN f[k] ELSE OnMessage(f[m - 1], is_snapshot, msgs[m])]
  <2>2. ASSUME NEW k \in 0 .. m
        PROVE  g[k] = IF k = 0 THEN c ELSE OnMessage(g[k - 1], is_snapshot, msgs[k])
    <3>1. CASE k = m
      BY <3>1
    <3>2. CASE k # m
      <4>1. k \in 0 .. (m - 1) /\ g[k] = f[k] /\ (k # 0 => g[k - 1] = f[k - 1])
        BY <3>2
      <4>2. f[k] = IF k = 0 THEN c ELSE OnMessage(f[k - 1], is_snapshot, msgs[k])
        BY <2>1, <4>1 DEF MessagesRead
      <4> QED BY <4>1, <4>2
    <3> QED BY <3>1, <3>2
  <2>3. g = [k \in 0 .. m |-> g[k]]
    OBVIOUS
  <2> HIDE DEF g
  <2>4. MessagesRead(c, is_snapshot, msgs, m, g)
    BY <2>2, <2>3 DEF MessagesRead
  <2> QED BY <2>4
<1> HIDE DEF T
<1>3. n \in T
  BY <1>1, <1>2, UpTo
<1> QED BY <1>3 DEF T

LEMMA MessagesReadFacts ==
  ASSUME NEW c, NEW is_snapshot, NEW msgs, NEW n \in Nat, NEW read,
         MessagesRead(c, is_snapshot, msgs, n, read)
  PROVE  /\ read[0] = c
         /\ \A k \in 1 .. n : read[k] = OnMessage(read[k - 1], is_snapshot, msgs[k])
<1>1. \A k \in 0 .. n : read[k] = IF k = 0 THEN c ELSE OnMessage(read[k - 1], is_snapshot, msgs[k])
  BY DEF MessagesRead
<1>2. read[0] = c
  BY <1>1
<1>3. ASSUME NEW k \in 1 .. n PROVE read[k] = OnMessage(read[k - 1], is_snapshot, msgs[k])
  BY <1>1
<1> QED BY <1>2, <1>3

LEMMA OnMessagesRead ==
  ASSUME NEW c, NEW is_snapshot, NEW msgs, Len(msgs) \in Nat
  PROVE  \E read : /\ MessagesRead(c, is_snapshot, msgs, Len(msgs), read)
                   /\ OnMessages(c, is_snapshot, msgs) = read[Len(msgs)]
<1>1. \E read : MessagesRead(c, is_snapshot, msgs, Len(msgs), read)
  BY MessagesReadExists
<1> DEFINE r == CHOOSE read : MessagesRead(c, is_snapshot, msgs, Len(msgs), read)
<1>2. MessagesRead(c, is_snapshot, msgs, Len(msgs), r)
  BY <1>1
<1>3. OnMessages(c, is_snapshot, msgs) = r[Len(msgs)]
  BY DEF OnMessages, MessagesRead
<1> QED BY <1>2, <1>3

(***************************************************************************)
(* Types of updates, maps and books.                                       *)
(***************************************************************************)
IsUpdate(u) ==
  /\ u.type \in {"ADD", "MODIFY", "CANCEL", "TRADE", "CLEAR"} /\ u.ticker \in Tickers
  /\ u.type \in {"ADD", "MODIFY", "CANCEL"} => u.id \in Ids
  /\ u.type \in {"ADD", "MODIFY"} => u.qty \in Qtys

LEMMA AddFacts ==
  ASSUME NEW u \in Adds
  PROVE  u.type = "ADD" /\ u.ticker \in Tickers /\ u.id \in Ids /\ u.qty \in Qtys
<1>1. PICK o \in Orders, q \in Qtys : u = Add(o, q)
  BY DEF Adds
<1>2. o[1] \in Tickers /\ o[2] \in Ids
  BY DEF Orders
<1> QED BY <1>1, <1>2 DEF Add

LEMMA MarketUpdateFacts ==
  ASSUME NEW u \in MarketUpdates
  PROVE  IsUpdate(u) /\ u.type # "CLEAR"
<1>1. CASE u \in Adds
  BY <1>1, AddFacts DEF IsUpdate
<1>2. ASSUME NEW o \in Orders, NEW q \in Qtys, u = Modify(o, q)
      PROVE  IsUpdate(u) /\ u.type # "CLEAR"
  <2>1. o[1] \in Tickers /\ o[2] \in Ids
    BY DEF Orders
  <2> QED BY <1>2, <2>1 DEF Modify, IsUpdate
<1>3. ASSUME NEW o \in Orders, u = Cancel(o) PROVE IsUpdate(u) /\ u.type # "CLEAR"
  <2>1. o[1] \in Tickers /\ o[2] \in Ids
    BY DEF Orders
  <2> QED BY <1>3, <2>1 DEF Cancel, IsUpdate
<1>4. ASSUME NEW t \in Tickers, u = Trade(t) PROVE IsUpdate(u) /\ u.type # "CLEAR"
  BY <1>4 DEF Trade, IsUpdate
<1> QED BY <1>1, <1>2, <1>3, <1>4 DEF MarketUpdates

LEMMA SnapshotUpdateFacts ==
  ASSUME NEW u \in SnapshotUpdates
  PROVE  ((IsStart(u) \/ IsEnd(u)) /\ u.last \in Nat) \/ IsUpdate(u)
<1>1. CASE u \in [type : {"SNAPSHOT_START", "SNAPSHOT_END"}, last : Nat]
  BY <1>1 DEF IsStart, IsEnd
<1>2. CASE u \in Adds
  BY <1>2, AddFacts DEF IsUpdate
<1>3. ASSUME NEW t \in Tickers, u = Clear(t) PROVE IsUpdate(u)
  BY <1>3 DEF Clear, IsUpdate
<1> QED BY <1>1, <1>2, <1>3 DEF SnapshotUpdates

LEMMA BookFacts ==
  ASSUME NEW b
  PROVE  b \in Books <=> b \in [DOMAIN b -> Qtys] /\ DOMAIN b \subseteq Orders
<1>1. ASSUME b \in Books PROVE b \in [DOMAIN b -> Qtys] /\ DOMAIN b \subseteq Orders
  <2>1. PICK D \in SUBSET Orders : b \in [D -> Qtys]
    BY <1>1 DEF Books
  <2> QED BY <2>1
<1>2. ASSUME b \in [DOMAIN b -> Qtys], DOMAIN b \subseteq Orders PROVE b \in Books
  BY <1>2 DEF Books
<1> QED BY <1>1, <1>2

LEMMA MapFacts ==
  ASSUME NEW S, NEW f
  PROVE  f \in Maps(S) <=> f \in [DOMAIN f -> S] /\ DOMAIN f \subseteq Nat
<1>1. ASSUME f \in Maps(S) PROVE f \in [DOMAIN f -> S] /\ DOMAIN f \subseteq Nat
  <2>1. PICK D \in SUBSET Nat : f \in [D -> S]
    BY <1>1 DEF Maps
  <2> QED BY <2>1
<1>2. ASSUME f \in [DOMAIN f -> S], DOMAIN f \subseteq Nat PROVE f \in Maps(S)
  BY <1>2 DEF Maps
<1> QED BY <1>1, <1>2

LEMMA EmptyFacts ==
  ASSUME NEW S
  PROVE  DOMAIN Empty = {} /\ Empty \in Maps(S) /\ Empty \in Books
<1>1. DOMAIN Empty = {}
  BY DEF Empty
<1>2. ASSUME NEW R PROVE Empty \in [DOMAIN Empty -> R]
  BY <1>1 DEF Empty
<1> QED BY <1>1, <1>2, BookFacts, MapFacts

LEMMA EmptyBook == ASSUME NEW b \in Books, DOMAIN b = {} PROVE b = Empty
<1>1. b \in [{} -> Qtys]
  BY BookFacts
<1>2. b \in Seq(Qtys) /\ Len(b) = 0
  BY <1>1
<1> QED BY <1>2, EmptySeq DEF Empty

LEMMA WithMap ==
  ASSUME NEW S, NEW f \in Maps(S), NEW n \in Nat, NEW v \in S
  PROVE  /\ With(f, n, v) \in Maps(S)
         /\ DOMAIN With(f, n, v) = DOMAIN f \cup {n} /\ With(f, n, v)[n] = v
         /\ \A k \in DOMAIN f : k # n => With(f, n, v)[k] = f[k]
<1> DEFINE g == With(f, n, v)
<1>1. f \in [DOMAIN f -> S] /\ DOMAIN f \subseteq Nat
  BY MapFacts
<1>2. /\ DOMAIN g = DOMAIN f \cup {n} /\ g[n] = v
      /\ \A k \in DOMAIN f : k # n => g[k] = f[k]
  BY DEF With
<1>3. g \in [DOMAIN g -> S]
  BY <1>1 DEF With
<1>4. DOMAIN g \subseteq Nat
  BY <1>1, <1>2
<1>5. g \in Maps(S)
  BY <1>3, <1>4, MapFacts
<1> QED BY <1>2, <1>5

LEMMA ApplyBook ==
  ASSUME NEW b \in Books, NEW u, IsUpdate(u)
  PROVE  Apply(b, u) \in Books
<1> DEFINE x == <<u.ticker, u.id>>
<1>1. b \in [DOMAIN b -> Qtys] /\ DOMAIN b \subseteq Orders
  BY BookFacts
<1>2. CASE u.type = "ADD"
  <2>1. Apply(b, u) = With(b, x, u.qty)
    BY <1>2 DEF Apply
  <2>2. x \in Orders /\ u.qty \in Qtys
    BY <1>2 DEF IsUpdate, Orders
  <2> HIDE DEF x
  <2>3. With(b, x, u.qty) \in [DOMAIN b \cup {x} -> Qtys]
    BY <1>1, <2>2 DEF With
  <2>4. DOMAIN With(b, x, u.qty) = DOMAIN b \cup {x}
    BY <2>3
  <2>5. DOMAIN b \cup {x} \subseteq Orders
    BY <1>1, <2>2
  <2> QED BY <2>1, <2>3, <2>4, <2>5, BookFacts
<1>3. CASE u.type = "MODIFY"
  <2>1. Apply(b, u) = [b EXCEPT ![x] = u.qty]
    BY <1>3 DEF Apply
  <2>2. u.qty \in Qtys
    BY <1>3 DEF IsUpdate
  <2> HIDE DEF x
  <2>3. [b EXCEPT ![x] = u.qty] \in [DOMAIN b -> Qtys]
    BY <1>1, <2>2
  <2> QED BY <1>1, <2>1, <2>3, BookFacts
<1>4. ASSUME NEW S PROVE Without(b, S) \in Books
  <2>1. Without(b, S) \in [DOMAIN b \ S -> Qtys]
    BY <1>1 DEF Without
  <2>2. DOMAIN Without(b, S) = DOMAIN b \ S
    BY <2>1
  <2>3. DOMAIN b \ S \subseteq Orders
    BY <1>1
  <2> QED BY <2>1, <2>2, <2>3, BookFacts
<1>5. CASE u.type = "CANCEL"
  BY <1>5, <1>4 DEF Apply
<1>6. CASE u.type = "CLEAR"
  BY <1>6, <1>4 DEF Apply
<1>7. CASE u.type = "TRADE"
  BY <1>7 DEF Apply
<1> QED BY <1>2, <1>3, <1>5, <1>6, <1>7 DEF IsUpdate

LEMMA ReplayBooks ==
  ASSUME NEW b \in Books, NEW L, Len(L) \in Nat, \A n \in 1 .. Len(L) : IsUpdate(L[n])
  PROVE  \A n \in 0 .. Len(L) : Replay(b, L)[n] \in Books
<1> DEFINE f == Replay(b, L)
           T == {n \in 0 .. Len(L) : f[n] \in Books}
<1>1. f[0] = b /\ \A n \in 1 .. Len(L) : f[n] = Apply(f[n - 1], L[n])
  BY ReplayFacts
<1> HIDE DEF f
<1>2. 0 \in T
  BY <1>1
<1>3. ASSUME NEW n \in 1 .. Len(L), n - 1 \in T PROVE n \in T
  <2>1. f[n - 1] \in Books /\ IsUpdate(L[n])
    BY <1>3
  <2>2. Apply(f[n - 1], L[n]) \in Books
    BY <2>1, ApplyBook
  <2> QED BY <2>2, <1>1
<1> HIDE DEF T
<1>4. \A n \in 0 .. Len(L) : n \in T
  <2>1. \A n \in 1 .. Len(L) : n - 1 \in T => n \in T
    BY <1>3
  <2> QED BY <2>1, <1>2, UpTo
<1> QED BY <1>4 DEF T, f

(***************************************************************************)
(* The consumer. Where the incrementals that wait have their first gap:    *)
(***************************************************************************)
LEMMA NextMissingFacts ==
  ASSUME NEW queued, NEW n \in Nat, DOMAIN queued \subseteq 1 .. n, NEW from \in 1 .. (n + 1)
  PROVE  LET next == NextMissing(queued, from)
         IN  /\ next \in from .. (n + 1) /\ next \notin DOMAIN queued
             /\ from .. (next - 1) \subseteq DOMAIN queued
<1> DEFINE D == DOMAIN queued
           T == {k \in Nat : k >= from /\ k \notin D}
           C == Cardinality(D)
           next == NextMissing(queued, from)
<1>1. D \subseteq 1 .. n
  OBVIOUS
<1>2. next = CHOOSE k \in from .. (from + C) : k \notin D /\ from .. (k - 1) \subseteq D
  BY DEF NextMissing
<1> HIDE DEF D, next
<1>3. IsFiniteSet(D) /\ C \in Nat
  <2>1. IsFiniteSet(1 .. n)
    BY FS_Interval
  <2> QED BY <1>1, <2>1, FS_Subset, FS_CardinalityType
<1>4. n + 1 \in T
  BY <1>1
<1>5. PICK k \in T : \A m \in T : k <= m
  <2>1. T \in SUBSET Nat /\ T # {}
    BY <1>4
  <2> HIDE DEF T
  <2> QED BY <2>1, LeastNatural
<1>6. k \in from .. (n + 1) /\ k \notin D
  BY <1>4, <1>5
<1>7. from .. (k - 1) \subseteq D
  <2> SUFFICES ASSUME NEW m \in from .. (k - 1), m \notin D PROVE FALSE
    OBVIOUS
  <2>1. m \in T
    OBVIOUS
  <2> QED BY <2>1, <1>5, <1>6
<1>8. k <= from + C
  <2>1. Cardinality(from .. (k - 1)) <= C
    BY <1>3, <1>7, FS_Subset
  <2>2. Cardinality(from .. (k - 1)) = IF from > k - 1 THEN 0 ELSE k - 1 - from + 1
    <3>1. from \in Int /\ k - 1 \in Int
      BY <1>6
    <3> QED BY <3>1, FS_Interval
  <2> HIDE DEF C
  <2> QED BY <2>1, <2>2, <1>3, <1>6
<1>9. k \in from .. (from + C)
  BY <1>3, <1>6, <1>8
<1>10. next \in from .. (from + C) /\ next \notin D /\ from .. (next - 1) \subseteq D
  BY <1>2, <1>6, <1>7, <1>9
<1>11. next <= n + 1
  <2> SUFFICES ASSUME next > n + 1 PROVE FALSE
    BY <1>3, <1>10
  <2>1. n + 1 \in from .. (next - 1)
    BY <1>3, <1>10
  <2> QED BY <2>1, <1>1, <1>10
<1>12. next \in from .. (n + 1)
  BY <1>3, <1>10, <1>11
<1> QED BY <1>10, <1>12 DEF D, next

\* checkSnapshotSync() with no more than the first messages of a snapshot.
LEMMA MinMaxFacts ==
  ASSUME NEW k \in Nat
  PROVE  Min(0 .. k) = 0 /\ Max(0 .. k) = k
<1>1. 0 \in 0 .. k /\ \A y \in 0 .. k : 0 =< y
  OBVIOUS
<1>2. \A x \in 0 .. k : (\A y \in 0 .. k : x =< y) => x = 0
  OBVIOUS
<1>3. k \in 0 .. k /\ \A y \in 0 .. k : k >= y
  OBVIOUS
<1>4. \A x \in 0 .. k : (\A y \in 0 .. k : x >= y) => x = k
  OBVIOUS
<1> QED BY <1>1, <1>2, <1>3, <1>4 DEF Min, Max

LEMMA SizeFacts ==
  ASSUME NEW k \in Nat
  PROVE  IsFiniteSet(0 .. (k - 1)) /\ Cardinality(0 .. (k - 1)) = k
<1>1. IsFiniteSet(0 .. (k - 1)) /\ Cardinality(0 .. (k - 1)) = IF 0 > k - 1 THEN 0 ELSE k - 1 - 0 + 1
  <2>1. 0 \in Int /\ k - 1 \in Int
    OBVIOUS
  <2> QED BY <2>1, FS_Interval
<1> QED BY <1>1

LEMMA CheckFirstOnes ==
  ASSUME NEW L, NEW c, FirstOnes(L, c.snapshot_queued_msgs_)
  PROVE  CheckSnapshotSync(c) = c
<1> DEFINE snapshot == c.snapshot_queued_msgs_
<1>1. PICK k \in Nat : /\ DOMAIN snapshot = 0 .. (k - 1)
                       /\ \A s \in 0 .. (k - 1) : /\ ~IsEnd(snapshot[s])
                                                  /\ IsStart(snapshot[s]) <=> s = 0
  BY DEF FirstOnes
<1> DEFINE seqs == DOMAIN snapshot
<1>2. CASE k = 0
  <2>1. seqs = {}
    BY <1>1, <1>2
  <2> QED BY <2>1 DEF CheckSnapshotSync
<1>3. CASE k > 0
  <2>1. Cardinality(seqs) = k /\ seqs # {} /\ seqs = 0 .. (Cardinality(seqs) - 1)
    <3>1. seqs = 0 .. (k - 1)
      BY <1>1
    <3>2. Cardinality(seqs) = k
      BY <3>1, SizeFacts
    <3>3. 0 \in seqs
      BY <3>1, <1>3
    <3> QED BY <3>1, <3>2, <3>3
  <2>2. Min(seqs) = 0 /\ Max(seqs) = k - 1
    <3>1. k - 1 \in Nat
      BY <1>3
    <3> QED BY <3>1, <1>1, MinMaxFacts
  <2>3. snapshot[0].type = "SNAPSHOT_START" /\ snapshot[k - 1].type # "SNAPSHOT_END"
    BY <1>1, <1>3 DEF IsStart, IsEnd
  <2> HIDE DEF snapshot
  <2>4. /\ ~(snapshot[Min(seqs)].type # "SNAPSHOT_START" \/ seqs # 0 .. (Cardinality(seqs) - 1))
        /\ snapshot[Max(seqs)].type # "SNAPSHOT_END"
    BY <2>1, <2>2, <2>3
  <2> QED BY <2>1, <2>4 DEF CheckSnapshotSync, snapshot
<1> QED BY <1>2, <1>3

\* And when a message is added to them.
LEMMA CheckNextOne ==
  ASSUME NEW L, NEW kept \in Maps(SnapshotUpdates), FirstOnes(L, kept),
         NEW m, SnapshotMessage(L, m), m.seq \notin DOMAIN kept,
         NEW c, c.snapshot_queued_msgs_ = With(kept, m.seq, m.update)
  PROVE  \/ /\ CheckSnapshotSync(c) = c
            /\ ~IsEnd(m.update) /\ DOMAIN kept = 0 .. (m.seq - 1)
            /\ FirstOnes(L, c.snapshot_queued_msgs_)
         \/ CheckSnapshotSync(c) = [c EXCEPT !.snapshot_queued_msgs_ = Empty]
         \/ /\ CheckSnapshotSync(c) = Synchronize(c)
            /\ IsEnd(m.update) /\ DOMAIN kept = 0 .. (m.seq - 1) /\ m.seq > 0
<1> DEFINE snapshot == c.snapshot_queued_msgs_
           seqs == DOMAIN snapshot
<1>1. PICK k \in Nat : /\ DOMAIN kept = 0 .. (k - 1)
                       /\ \A s \in 0 .. (k - 1) : /\ NotNewer(L, kept[s]) /\ ~IsEnd(kept[s])
                                                  /\ IsStart(kept[s]) <=> s = 0
  BY DEF FirstOnes
<1>2. m.seq \in Nat /\ m.update \in SnapshotUpdates
  BY DEF SnapshotMessage, Messages
<1>3. /\ seqs = (0 .. (k - 1)) \cup {m.seq} /\ snapshot[m.seq] = m.update
      /\ \A s \in 0 .. (k - 1) : s # m.seq => snapshot[s] = kept[s]
  <2> DEFINE g == With(kept, m.seq, m.update)
  <2>1. /\ DOMAIN g = DOMAIN kept \cup {m.seq} /\ g[m.seq] = m.update
        /\ \A s \in DOMAIN kept : s # m.seq => g[s] = kept[s]
    BY DEF With
  <2>2. snapshot = g
    OBVIOUS
  <2> HIDE DEF snapshot, g
  <2> QED BY <1>1, <2>1, <2>2
<1>4. Cardinality(seqs) = k + 1 /\ seqs # {}
  <2>1. IsFiniteSet(0 .. (k - 1)) /\ Cardinality(0 .. (k - 1)) = k /\ m.seq \notin 0 .. (k - 1)
    BY <1>1, SizeFacts
  <2>2. Cardinality((0 .. (k - 1)) \cup {m.seq}) = k + 1
    BY <2>1, FS_AddElement
  <2> QED BY <2>2, <1>3
<1> HIDE DEF snapshot
<1>5. CASE m.seq # k
  <2>1. seqs # 0 .. (Cardinality(seqs) - 1)
    <3> SUFFICES ASSUME seqs = 0 .. (Cardinality(seqs) - 1) PROVE FALSE
      OBVIOUS
    <3>1. seqs = 0 .. k
      BY <1>4
    <3>2. k \in seqs /\ k \notin 0 .. (k - 1)
      BY <3>1
    <3> QED BY <3>2, <1>3, <1>5
  <2> QED BY <2>1, <1>4 DEF CheckSnapshotSync, snapshot
<1>6. CASE m.seq = k
  <2>1. seqs = 0 .. k /\ seqs = 0 .. (Cardinality(seqs) - 1) /\ Min(seqs) = 0 /\ Max(seqs) = k
    <3>1. seqs = 0 .. k
      BY <1>3, <1>6
    <3>2. Cardinality(seqs) - 1 = k
      BY <1>4
    <3> HIDE DEF seqs
    <3> QED BY <3>1, <3>2, MinMaxFacts
  <2>2. CASE k = 0 /\ ~IsStart(m.update)
    <3>1. snapshot[Min(seqs)].type # "SNAPSHOT_START"
      BY <2>1, <2>2, <1>3, <1>6 DEF IsStart
    <3> QED BY <3>1, <1>4 DEF CheckSnapshotSync, snapshot
  <2>3. CASE (k = 0 /\ IsStart(m.update)) \/ k # 0
    <3>1. IsStart(snapshot[0])
      BY <2>3, <1>1, <1>3, <1>6
    <3>2. ~(snapshot[Min(seqs)].type # "SNAPSHOT_START" \/ seqs # 0 .. (Cardinality(seqs) - 1))
      BY <3>1, <2>1 DEF IsStart
    <3>3. CASE IsEnd(m.update)
      <4>1. snapshot[Max(seqs)].type = "SNAPSHOT_END"
        BY <3>3, <2>1, <1>3, <1>6 DEF IsEnd
      <4>2. CheckSnapshotSync(c) = Synchronize(c)
        BY <4>1, <3>2, <1>4 DEF CheckSnapshotSync, snapshot
      <4>3. k # 0
        BY <3>3, <2>3 DEF IsStart, IsEnd
      <4> QED BY <4>2, <4>3, <3>3, <1>1, <1>6
    <3>4. CASE ~IsEnd(m.update)
      <4>1. ASSUME NEW s \in 0 .. ((k + 1) - 1)
            PROVE  /\ NotNewer(L, snapshot[s]) /\ ~IsEnd(snapshot[s])
                   /\ IsStart(snapshot[s]) <=> s = 0
        <5>1. CASE s = k
          <6>1. snapshot[s] = m.update /\ NotNewer(L, m.update) /\ (IsStart(m.update) => m.seq = 0)
            BY <5>1, <1>3, <1>6 DEF SnapshotMessage
          <6> QED BY <6>1, <5>1, <3>4, <2>3, <1>6
        <5>2. CASE s # k
          <6>1. s \in 0 .. (k - 1) /\ s # m.seq
            BY <5>2, <1>6
          <6> QED BY <6>1, <1>1, <1>3
        <5> QED BY <5>1, <5>2
      <4>2. DOMAIN snapshot = 0 .. ((k + 1) - 1) /\ k + 1 \in Nat
        BY <2>1
      <4>3. FirstOnes(L, snapshot)
        BY <4>1, <4>2 DEF FirstOnes
      <4>4. CheckSnapshotSync(c) = c
        BY <4>3, CheckFirstOnes DEF snapshot
      <4> QED BY <4>3, <4>4, <3>4, <1>1, <1>6 DEF snapshot
    <3> QED BY <3>3, <3>4
  <2> QED BY <2>2, <2>3
<1> QED BY <1>5, <1>6

\* A consumer that stays in recovery, keeps a message of the snapshot, or recovers with it.
StaysIn(c, r) ==
  /\ r.in_recovery_ /\ r.incremental_queued_msgs_ = c.incremental_queued_msgs_
  /\ r.book = c.book
KeepsMessage(c, m, r) ==
  LET snapshot == c.snapshot_queued_msgs_
      new == r.snapshot_queued_msgs_
  IN  /\ ~IsEnd(m.update) /\ DOMAIN new = 0 .. m.seq /\ new[m.seq] = m.update
      /\ \/ m.seq = 0
         \/ /\ DOMAIN snapshot = 0 .. (m.seq - 1)
            /\ \A s \in 0 .. (m.seq - 1) : new[s] = snapshot[s]
Events(c, seq, from, next) ==
  [k \in 1 .. (seq - 1) |-> c.snapshot_queued_msgs_[k]]
    \o [k \in 1 .. (next - from) |-> c.incremental_queued_msgs_[from + k - 1]]
Recovers(L, c, m, r) ==
  LET from == m.update.last + 1
      next == r.next_exp_inc_seq_num_
      queued == c.incremental_queued_msgs_
  IN  /\ ~r.in_recovery_ /\ IsEnd(m.update) /\ m.seq > 0
      /\ DOMAIN c.snapshot_queued_msgs_ = 0 .. (m.seq - 1)
      /\ DOMAIN r.snapshot_queued_msgs_ = {}
      /\ from \in 1 .. (Len(L) + 1) /\ next \in from .. (Len(L) + 1)
      /\ from .. (next - 1) \subseteq DOMAIN queued
      /\ \A s \in DOMAIN queued : s < next
      /\ r.book = ApplyAll(c.book, Events(c, m.seq, from, next))

EventsAre(L, c, seq, from, next) ==
  LET e == Events(c, seq, from, next)
  IN  /\ Len(e) = (seq - 1) + (next - from)
      /\ \A k \in 1 .. (seq - 1) : e[k] = c.snapshot_queued_msgs_[k]
      /\ \A k \in 1 .. (next - from) : e[(seq - 1) + k] = L[from + k - 1]
      /\ \A k \in 1 .. Len(e) : IsUpdate(e[k])

LEMMA EventsFacts ==
  ASSUME NEW L \in Seq(MarketUpdates), NEW c, ConsumerOK(L, c), NEW seq \in Nat \ {0},
         DOMAIN c.snapshot_queued_msgs_ = 0 .. (seq - 1),
         NEW from \in Nat \ {0}, NEW next \in from .. (Len(L) + 1),
         from .. (next - 1) \subseteq DOMAIN c.incremental_queued_msgs_
  PROVE  EventsAre(L, c, seq, from, next)
<1> DEFINE snapshot == c.snapshot_queued_msgs_
           queued == c.incremental_queued_msgs_
           a == [k \in 1 .. (seq - 1) |-> snapshot[k]]
           b == [k \in 1 .. (next - from) |-> queued[from + k - 1]]
           e == a \o b
<1>1. /\ snapshot \in [DOMAIN snapshot -> SnapshotUpdates]
      /\ \A s \in DOMAIN queued : s \in 1 .. Len(L) /\ queued[s] = L[s]
      /\ Len(L) \in Nat /\ \A n \in 1 .. Len(L) : L[n] \in MarketUpdates
  <2>1. snapshot \in Maps(SnapshotUpdates)
    BY DEF ConsumerOK, Consumer
  <2>2. \A s \in DOMAIN queued : s \in 1 .. Len(L) /\ queued[s] = L[s]
    BY DEF ConsumerOK, QueuedFromLog
  <2>3. snapshot \in [DOMAIN snapshot -> SnapshotUpdates]
    BY <2>1, MapFacts
  <2>4. Len(L) \in Nat /\ \A n \in 1 .. Len(L) : L[n] \in MarketUpdates
    BY ElementOfSeq
  <2> QED BY <2>2, <2>3, <2>4
<1>2. \A k \in 1 .. (seq - 1) : snapshot[k] \in SnapshotUpdates /\ IsUpdate(snapshot[k])
  <2> SUFFICES ASSUME NEW k \in 1 .. (seq - 1)
               PROVE  snapshot[k] \in SnapshotUpdates /\ IsUpdate(snapshot[k])
    OBVIOUS
  <2>1. k \in DOMAIN snapshot /\ k # 0
    OBVIOUS
  <2>2. snapshot[k] \in SnapshotUpdates
    BY <2>1, <1>1
  <2>3. ~IsStart(snapshot[k]) /\ ~IsEnd(snapshot[k])
    BY <2>1 DEF ConsumerOK, FirstOnes
  <2> QED BY <2>2, <2>3, SnapshotUpdateFacts
<1>3. ASSUME NEW k \in 1 .. (next - from)
      PROVE  /\ queued[from + k - 1] = L[from + k - 1]
             /\ L[from + k - 1] \in MarketUpdates /\ IsUpdate(L[from + k - 1])
  <2>1. from + k - 1 \in from .. (next - 1)
    BY <1>1
  <2>2. queued[from + k - 1] = L[from + k - 1] /\ L[from + k - 1] \in MarketUpdates
    BY <2>1, <1>1
  <2> QED BY <2>2, MarketUpdateFacts
<1> DEFINE S == SnapshotUpdates \cup MarketUpdates
           i == seq - 1
           j == next - from
<1>4. i \in Nat /\ j \in Nat
  BY <1>1
<1>5. a \in Seq(S) /\ Len(a) = i /\ b \in Seq(S) /\ Len(b) = j
  <2>1. a \in [1 .. i -> S]
    BY <1>2
  <2>2. b \in [1 .. j -> S]
    BY <1>3
  <2> HIDE DEF a, b, S, i, j
  <2> QED BY <2>1, <2>2, <1>4
<1>6. /\ \A k \in 1 .. i : a[k] = snapshot[k]
      /\ \A k \in 1 .. j : b[k] = L[from + k - 1]
  BY <1>3
<1> HIDE DEF a, b, S, i, j
<1>7. /\ Len(e) = i + j
      /\ \A k \in 1 .. i + j : e[k] = IF k <= i THEN a[k] ELSE b[k - i]
  BY <1>5, ConcatProperties
<1>8. \A k \in 1 .. i : e[k] = snapshot[k]
  BY <1>4, <1>6, <1>7
<1>9. ASSUME NEW k \in 1 .. j PROVE e[i + k] = L[from + k - 1]
  <2>1. i + k \in 1 .. i + j /\ ~(i + k <= i) /\ (i + k) - i = k
    BY <1>4
  <2> QED BY <2>1, <1>6, <1>7
<1>10. ASSUME NEW k \in 1 .. (i + j) PROVE IsUpdate(e[k])
  <2>1. CASE k <= i
    <3>1. k \in 1 .. i
      BY <2>1, <1>4
    <3> QED BY <3>1, <1>2, <1>8 DEF i
  <2>2. CASE ~(k <= i)
    <3>1. k - i \in 1 .. j /\ k = i + (k - i)
      BY <2>2, <1>4
    <3>2. e[k] = L[from + (k - i) - 1]
      BY <3>1, <1>9
    <3> QED BY <3>1, <3>2, <1>3 DEF j
  <2> QED BY <2>1, <2>2
<1>11. e = Events(c, seq, from, next)
  BY DEF Events, a, b
<1> HIDE DEF e
<1> QED BY <1>7, <1>8, <1>9, <1>10, <1>11 DEF i, j, EventsAre

\* Synchronize() with the end of the snapshot and the number of its last update.
SynchronizeAt(c, end, last) ==
  LET snapshot == c.snapshot_queued_msgs_
      queued == c.incremental_queued_msgs_
      next == NextMissing(queued, last + 1)
      final_events == [k \in 1 .. (end - 1) |-> snapshot[k]]
                        \o [k \in 1 .. (next - (last + 1)) |-> queued[(last + 1) + k - 1]]
  IN  IF NoGap(queued, last + 1, next)
      THEN [in_recovery_ |-> FALSE, next_exp_inc_seq_num_ |-> next,
            snapshot_queued_msgs_ |-> Empty, incremental_queued_msgs_ |-> Empty,
            book |-> ApplyAll(c.book, final_events)]
      ELSE [c EXCEPT !.next_exp_inc_seq_num_ = next, !.snapshot_queued_msgs_ = Empty]

LEMMA SynchronizeFacts ==
  ASSUME NEW L \in Seq(MarketUpdates), NEW c, ConsumerOK(L, c), c.in_recovery_,
         NEW m, SnapshotMessage(L, m), IsEnd(m.update), m.seq > 0,
         DOMAIN c.snapshot_queued_msgs_ = 0 .. (m.seq - 1),
         NEW d, d = [c EXCEPT !.snapshot_queued_msgs_ = With(c.snapshot_queued_msgs_, m.seq, m.update)]
  PROVE  /\ ConsumerOK(L, Synchronize(d))
         /\ \/ Recovers(L, c, m, Synchronize(d))
            \/ StaysIn(c, Synchronize(d)) /\ DOMAIN Synchronize(d).snapshot_queued_msgs_ = {}
<1> DEFINE old == c.snapshot_queued_msgs_
           snapshot == With(old, m.seq, m.update)
           queued == c.incremental_queued_msgs_
           from == m.update.last + 1
           next == NextMissing(queued, from)
           events == [k \in 1 .. (m.seq - 1) |-> snapshot[k]]
                       \o [k \in 1 .. (next - from) |-> queued[from + k - 1]]
<1>1. c \in Consumer /\ m.seq \in Nat /\ m.update \in SnapshotUpdates /\ Len(L) \in Nat
  BY DEF ConsumerOK, SnapshotMessage, Messages
<1>2. /\ d.snapshot_queued_msgs_ = snapshot /\ d.incremental_queued_msgs_ = queued
      /\ d.in_recovery_ = c.in_recovery_ /\ d.book = c.book /\ d \in Consumer
  <2>1. snapshot \in Maps(SnapshotUpdates)
    <3>1. old \in Maps(SnapshotUpdates)
      BY <1>1 DEF Consumer
    <3> HIDE DEF old
    <3> QED BY <1>1, <3>1, WithMap
  <2> HIDE DEF snapshot
  <2>2. d = [c EXCEPT !.snapshot_queued_msgs_ = snapshot]
    BY DEF snapshot
  <2> QED BY <1>1, <2>1, <2>2 DEF Consumer
<1>3. /\ DOMAIN snapshot = 0 .. m.seq /\ snapshot[m.seq] = m.update
      /\ \A s \in 0 .. (m.seq - 1) : snapshot[s] = old[s]
  <2>1. /\ DOMAIN snapshot = DOMAIN old \cup {m.seq} /\ snapshot[m.seq] = m.update
        /\ \A s \in DOMAIN old : s # m.seq => snapshot[s] = old[s]
    BY DEF With
  <2> HIDE DEF snapshot
  <2> QED BY <2>1, <1>1
<1>4. from \in 1 .. (Len(L) + 1)
  <2>1. m.update.last \in Nat /\ m.update.last <= Len(L)
    BY <1>1, SnapshotUpdateFacts DEF SnapshotMessage, NotNewer, IsEnd, IsUpdate
  <2> QED BY <2>1, <1>1
<1>5. DOMAIN queued \subseteq 1 .. Len(L)
  BY DEF ConsumerOK, QueuedFromLog
<1>6. /\ next \in from .. (Len(L) + 1) /\ from .. (next - 1) \subseteq DOMAIN queued
  <2> HIDE DEF queued, from
  <2> QED BY <1>1, <1>4, <1>5, NextMissingFacts
<1>7. Max(DOMAIN snapshot) = m.seq
  BY <1>1, <1>3, MinMaxFacts
<1>8. events = Events(c, m.seq, from, next)
  <2>1. [k \in 1 .. (m.seq - 1) |-> snapshot[k]] = [k \in 1 .. (m.seq - 1) |-> old[k]]
    <3> HIDE DEF snapshot, old
    <3> QED BY <1>1, <1>3
  <2> HIDE DEF snapshot, from, next
  <2> QED BY <2>1 DEF Events
<1>9. Synchronize(d) =
        IF NoGap(queued, from, next)
        THEN [in_recovery_ |-> FALSE, next_exp_inc_seq_num_ |-> next,
              snapshot_queued_msgs_ |-> Empty, incremental_queued_msgs_ |-> Empty,
              book |-> ApplyAll(d.book, events)]
        ELSE [d EXCEPT !.next_exp_inc_seq_num_ = next, !.snapshot_queued_msgs_ = Empty]
  <2> DEFINE whole == d.snapshot_queued_msgs_
  <2>1. Synchronize(d) = SynchronizeAt(d, Max(DOMAIN whole), whole[Max(DOMAIN whole)].last)
    BY Zenon DEF Synchronize, SynchronizeAt
  <2>2. Max(DOMAIN whole) = m.seq /\ whole[m.seq].last = m.update.last
    BY <1>2, <1>3, <1>7
  <2>3. Synchronize(d) = SynchronizeAt(d, m.seq, m.update.last)
    BY <2>1, <2>2
  <2> DEFINE waiting == d.incremental_queued_msgs_
             missing == NextMissing(waiting, from)
             final == [k \in 1 .. (m.seq - 1) |-> whole[k]]
                        \o [k \in 1 .. (missing - from) |-> waiting[from + k - 1]]
  <2>4. SynchronizeAt(d, m.seq, m.update.last) =
          IF NoGap(waiting, from, missing)
          THEN [in_recovery_ |-> FALSE, next_exp_inc_seq_num_ |-> missing,
                snapshot_queued_msgs_ |-> Empty, incremental_queued_msgs_ |-> Empty,
                book |-> ApplyAll(d.book, final)]
          ELSE [d EXCEPT !.next_exp_inc_seq_num_ = missing, !.snapshot_queued_msgs_ = Empty]
    BY Zenon DEF SynchronizeAt
  <2>5. waiting = queued /\ missing = next
    BY <1>2
  <2>6. final = events
    <3> HIDE DEF snapshot, queued, whole, waiting, missing, next, from
    <3>1. whole = snapshot
      BY <1>2 DEF whole
    <3> QED BY <2>5, <3>1
  <2> HIDE DEF final, events, waiting, queued, missing, next, from
  <2> QED BY <2>3, <2>4, <2>5, <2>6
<1>10. ApplyAll(c.book, events) \in Books
  <2> DEFINE e == Events(c, m.seq, from, next)
  <2>1. Len(e) \in Nat /\ \A k \in 1 .. Len(e) : IsUpdate(e[k])
    <3>1. m.seq \in Nat \ {0} /\ from \in Nat \ {0}
      BY <1>1, <1>4
    <3> HIDE DEF from, next
    <3>2. /\ Len(e) = (m.seq - 1) + (next - from)
          /\ \A k \in 1 .. Len(e) : IsUpdate(e[k])
      <4>1. EventsAre(L, c, m.seq, from, next)
        BY <3>1, <1>6, EventsFacts
      <4> QED BY <4>1 DEF EventsAre
    <3> QED BY <3>1, <3>2, <1>1, <1>6
  <2>2. c.book \in Books
    BY <1>1 DEF Consumer
  <2> HIDE DEF e
  <2>3. Replay(c.book, e)[Len(e)] \in Books
    BY <2>1, <2>2, ReplayBooks
  <2> HIDE DEF events
  <2>4. events = e
    BY <1>8 DEF e
  <2> QED BY <2>3, <2>4 DEF ApplyAll
<1> DEFINE r == Synchronize(d)
           w == ApplyAll(c.book, events)
<1>11. /\ DOMAIN Empty = {} /\ Empty \in Maps(SnapshotUpdates) /\ Empty \in Maps(MarketUpdates)
       /\ QueuedFromLog(L, Empty) /\ FirstOnes(L, Empty)
  <2>1. DOMAIN Empty = {} /\ Empty \in Maps(SnapshotUpdates) /\ Empty \in Maps(MarketUpdates)
    BY EmptyFacts
  <2>2. 0 .. (0 - 1) = {}
    OBVIOUS
  <2>3. FirstOnes(L, Empty)
    BY <2>1, <2>2 DEF FirstOnes
  <2> QED BY <2>1, <2>3 DEF QueuedFromLog
<1>12. next \in 1 .. (Len(L) + 1) /\ next \in Nat
  <2> HIDE DEF next, from
  <2> QED BY <1>1, <1>4, <1>6
<1>13. CASE NoGap(queued, from, next)
  <2>1. r = [in_recovery_ |-> FALSE, next_exp_inc_seq_num_ |-> next,
             snapshot_queued_msgs_ |-> Empty, incremental_queued_msgs_ |-> Empty, book |-> w]
    BY <1>2, <1>9, <1>13
  <2>2. w \in Books
    BY <1>10
  <2> HIDE DEF r, next, w, from, queued, old
  <2>3. r \in Consumer
    BY <2>1, <2>2, <1>11, <1>12 DEF Consumer
  <2>4. /\ ~r.in_recovery_ /\ r.next_exp_inc_seq_num_ = next /\ r.snapshot_queued_msgs_ = Empty
        /\ r.incremental_queued_msgs_ = Empty /\ r.book = w
    BY <2>1
  <2>5. ConsumerOK(L, r)
    BY <2>3, <2>4, <1>11, <1>12 DEF ConsumerOK
  <2>6. \A s \in DOMAIN queued : s < next
    BY <1>13 DEF NoGap
  <2>7. r.book = ApplyAll(c.book, Events(c, m.seq, from, next))
    BY <2>4, <1>8 DEF w
  <2>8. /\ from = m.update.last + 1 /\ queued = c.incremental_queued_msgs_
        /\ from \in 1 .. (Len(L) + 1)
    BY <1>4 DEF from, queued
  <2>9. Recovers(L, c, m, r)
    <3> HIDE <2>1
    <3> QED BY <2>4, <2>6, <2>7, <2>8, <1>6, <1>11 DEF Recovers
  <2> QED BY <2>5, <2>9 DEF r
<1>14. CASE ~NoGap(queued, from, next)
  <2>1. r = [d EXCEPT !.next_exp_inc_seq_num_ = next, !.snapshot_queued_msgs_ = Empty]
    BY <1>9, <1>14
  <2> HIDE DEF r, next, from, snapshot
  <2> DEFINE none == Empty
  <2>2. none \in Maps(SnapshotUpdates) /\ r = [d EXCEPT !.next_exp_inc_seq_num_ = next, !.snapshot_queued_msgs_ = none]
    BY <2>1, <1>11
  <2> HIDE DEF none
  <2>3. /\ r \in Consumer /\ r.next_exp_inc_seq_num_ = next /\ r.snapshot_queued_msgs_ = none
        /\ r.incremental_queued_msgs_ = d.incremental_queued_msgs_ /\ r.book = d.book
        /\ r.in_recovery_ = d.in_recovery_
    BY <2>2, <1>2, <1>12 DEF Consumer
  <2>4. QueuedFromLog(L, queued) /\ FirstOnes(L, none) /\ DOMAIN none = {}
    BY <1>11 DEF ConsumerOK, none
  <2>5. ConsumerOK(L, r)
    BY <2>3, <2>4, <1>2, <1>12 DEF ConsumerOK
  <2>6. StaysIn(c, r) /\ DOMAIN r.snapshot_queued_msgs_ = {}
    BY <2>3, <2>4, <1>2 DEF StaysIn
  <2> QED BY <2>5, <2>6 DEF r
<1> QED BY <1>13, <1>14

LEMMA EmptyOK ==
  ASSUME NEW L
  PROVE  /\ DOMAIN Empty = {} /\ Empty \in Maps(SnapshotUpdates) /\ Empty \in Maps(MarketUpdates)
         /\ QueuedFromLog(L, Empty) /\ FirstOnes(L, Empty)
<1>1. DOMAIN Empty = {} /\ Empty \in Maps(SnapshotUpdates) /\ Empty \in Maps(MarketUpdates)
  BY EmptyFacts
<1>2. 0 .. (0 - 1) = {}
  OBVIOUS
<1>3. FirstOnes(L, Empty)
  BY <1>1, <1>2 DEF FirstOnes
<1> QED BY <1>1, <1>3 DEF QueuedFromLog

\* A message of a snapshot, for a consumer in recovery.
SnapshotRead(L, c, m, r) ==
  \/ Recovers(L, c, m, r)
  \/ StaysIn(c, r) /\ (DOMAIN r.snapshot_queued_msgs_ = {} \/ KeepsMessage(c, m, r))

LEMMA OnSnapshot ==
  ASSUME NEW L \in Seq(MarketUpdates), NEW c, ConsumerOK(L, c), c.in_recovery_,
         NEW m, SnapshotMessage(L, m)
  PROVE  /\ ConsumerOK(L, OnMessage(c, TRUE, m))
         /\ SnapshotRead(L, c, m, OnMessage(c, TRUE, m))
<1> DEFINE old == c.snapshot_queued_msgs_
           kept == IF m.seq \in DOMAIN old THEN Empty ELSE old
           d == [c EXCEPT !.snapshot_queued_msgs_ = With(kept, m.seq, m.update)]
           r == OnMessage(c, TRUE, m)
<1>1. r = CheckSnapshotSync(d)
  BY Zenon DEF OnMessage, QueueMessage
<1>2. /\ c \in Consumer /\ old \in Maps(SnapshotUpdates) /\ FirstOnes(L, old)
      /\ m.seq \in Nat /\ m.update \in SnapshotUpdates
  BY DEF ConsumerOK, Consumer, SnapshotMessage, Messages
<1>3. /\ kept \in Maps(SnapshotUpdates) /\ FirstOnes(L, kept) /\ m.seq \notin DOMAIN kept
      /\ DOMAIN kept = {} \/ kept = old
  <2> HIDE DEF old
  <2> QED BY <1>2, EmptyOK
<1> HIDE DEF kept, r
<1> DEFINE new == With(kept, m.seq, m.update)
<1>4. /\ new \in Maps(SnapshotUpdates) /\ DOMAIN new = DOMAIN kept \cup {m.seq}
      /\ new[m.seq] = m.update /\ \A k \in DOMAIN kept : k # m.seq => new[k] = kept[k]
  <2> HIDE DEF old
  <2>1. m.seq \in Nat /\ m.update \in SnapshotUpdates /\ kept \in Maps(SnapshotUpdates)
    BY <1>2, <1>3
  <2>2. With(kept, m.seq, m.update) \in Maps(SnapshotUpdates)
    BY <2>1, WithMap
  <2>3. /\ DOMAIN new = DOMAIN kept \cup {m.seq} /\ new[m.seq] = m.update
        /\ \A k \in DOMAIN kept : k # m.seq => new[k] = kept[k]
    BY DEF With
  <2> QED BY <2>2, <2>3
<1> HIDE DEF new
<1>5. d = [c EXCEPT !.snapshot_queued_msgs_ = new]
  BY DEF new
<1> HIDE DEF d
<1>6. /\ d \in Consumer /\ d.snapshot_queued_msgs_ = new
      /\ d.incremental_queued_msgs_ = c.incremental_queued_msgs_ /\ d.book = c.book
      /\ d.in_recovery_ = c.in_recovery_ /\ d.next_exp_inc_seq_num_ = c.next_exp_inc_seq_num_
  BY <1>2, <1>4, <1>5 DEF Consumer
<1>7. /\ c.next_exp_inc_seq_num_ \in 1 .. (Len(L) + 1)
      /\ QueuedFromLog(L, c.incremental_queued_msgs_)
  BY DEF ConsumerOK
<1>8. CASE r = d /\ ~IsEnd(m.update) /\ DOMAIN kept = 0 .. (m.seq - 1) /\ FirstOnes(L, new)
  <2>1. ConsumerOK(L, r)
    BY <1>6, <1>7, <1>8 DEF ConsumerOK
  <2>2. StaysIn(c, r)
    BY <1>6, <1>8 DEF StaysIn
  <2>3. DOMAIN new = 0 .. m.seq
    BY <1>2, <1>4, <1>8
  <2>4. \A s \in 0 .. (m.seq - 1) : new[s] = kept[s]
    BY <1>2, <1>4, <1>8
  <2>5. m.seq = 0 \/ kept = old
    <3>1. m.seq # 0 => 0 \in 0 .. (m.seq - 1)
      BY <1>2
    <3> HIDE DEF old
    <3> QED BY <3>1, <1>3, <1>8
  <2> HIDE DEF old
  <2>6. m.seq = 0 \/ (DOMAIN old = 0 .. (m.seq - 1) /\ \A s \in 0 .. (m.seq - 1) : new[s] = old[s])
    BY <2>4, <2>5, <1>8
  <2>7. KeepsMessage(c, m, r)
    <3>1. r.snapshot_queued_msgs_ = new /\ new[m.seq] = m.update /\ ~IsEnd(m.update)
      BY <1>4, <1>6, <1>8
    <3>2. c.snapshot_queued_msgs_ = old
      BY DEF old
    <3> QED BY <3>1, <3>2, <2>3, <2>6 DEF KeepsMessage
  <2> QED BY <2>1, <2>2, <2>7 DEF SnapshotRead, r
<1>9. CASE r = [d EXCEPT !.snapshot_queued_msgs_ = Empty]
  <2> DEFINE none == Empty
  <2>1. /\ r = [d EXCEPT !.snapshot_queued_msgs_ = none]
        /\ none \in Maps(SnapshotUpdates) /\ FirstOnes(L, none) /\ DOMAIN none = {}
    BY <1>9, EmptyOK
  <2> HIDE DEF none
  <2>2. /\ r \in Consumer /\ r.snapshot_queued_msgs_ = none
        /\ r.incremental_queued_msgs_ = c.incremental_queued_msgs_ /\ r.book = c.book
        /\ r.in_recovery_ = c.in_recovery_ /\ r.next_exp_inc_seq_num_ = c.next_exp_inc_seq_num_
    BY <2>1, <1>6 DEF Consumer
  <2>3. ConsumerOK(L, r)
    BY <2>1, <2>2, <1>7 DEF ConsumerOK
  <2>4. StaysIn(c, r) /\ DOMAIN r.snapshot_queued_msgs_ = {}
    BY <2>1, <2>2 DEF StaysIn
  <2> QED BY <2>3, <2>4 DEF SnapshotRead, r
<1>10. CASE r = Synchronize(d) /\ IsEnd(m.update) /\ DOMAIN kept = 0 .. (m.seq - 1) /\ m.seq > 0
  <2>1. 0 \in DOMAIN kept
    BY <1>2, <1>10
  <2>2. kept = old
    BY <2>1, <1>3
  <2>3. d = [c EXCEPT !.snapshot_queued_msgs_ = With(c.snapshot_queued_msgs_, m.seq, m.update)]
    BY <2>2, <1>5 DEF new
  <2>4. DOMAIN c.snapshot_queued_msgs_ = 0 .. (m.seq - 1)
    BY <2>2, <1>10
  <2>5. /\ ConsumerOK(L, Synchronize(d))
        /\ \/ Recovers(L, c, m, Synchronize(d))
           \/ StaysIn(c, Synchronize(d)) /\ DOMAIN Synchronize(d).snapshot_queued_msgs_ = {}
    BY <2>3, <2>4, <1>10, SynchronizeFacts
  <2>6. ConsumerOK(L, r) /\ SnapshotRead(L, c, m, r)
    BY <2>5, <1>10 DEF SnapshotRead
  <2> QED BY <2>6 DEF r
<1>11. \/ CheckSnapshotSync(d) = d /\ ~IsEnd(m.update) /\ DOMAIN kept = 0 .. (m.seq - 1) /\ FirstOnes(L, new)
       \/ CheckSnapshotSync(d) = [d EXCEPT !.snapshot_queued_msgs_ = Empty]
       \/ /\ CheckSnapshotSync(d) = Synchronize(d)
          /\ IsEnd(m.update) /\ DOMAIN kept = 0 .. (m.seq - 1) /\ m.seq > 0
  <2>1. d.snapshot_queued_msgs_ = With(kept, m.seq, m.update)
    BY <1>6 DEF new
  <2>2. \/ /\ CheckSnapshotSync(d) = d
           /\ ~IsEnd(m.update) /\ DOMAIN kept = 0 .. (m.seq - 1)
           /\ FirstOnes(L, d.snapshot_queued_msgs_)
        \/ CheckSnapshotSync(d) = [d EXCEPT !.snapshot_queued_msgs_ = Empty]
        \/ /\ CheckSnapshotSync(d) = Synchronize(d)
           /\ IsEnd(m.update) /\ DOMAIN kept = 0 .. (m.seq - 1) /\ m.seq > 0
    BY <2>1, <1>3, CheckNextOne
  <2> QED BY <2>2, <1>6
<1> QED BY <1>1, <1>8, <1>9, <1>10, <1>11

\* The client's book is the exchange's, as far as L goes.
Exact(L, c) ==
  ~c.in_recovery_ => c.book = Replay(Empty, L)[c.next_exp_inc_seq_num_ - 1]

\* Incremental messages: they end no recovery.
IncrementalRead(L, c, r) ==
  /\ c.in_recovery_ => r.in_recovery_
  /\ \/ r.snapshot_queued_msgs_ = c.snapshot_queued_msgs_
     \/ DOMAIN r.snapshot_queued_msgs_ = {}
  /\ Exact(L, c) => Exact(L, r)

LEMMA QueueIncremental ==
  ASSUME NEW L \in Seq(MarketUpdates), NEW c, ConsumerOK(L, c), c.in_recovery_,
         NEW m \in Messages(MarketUpdates), FromLog(L, m)
  PROVE  LET r == QueueMessage(c, FALSE, m)
         IN  /\ ConsumerOK(L, r) /\ r.in_recovery_
             /\ r.snapshot_queued_msgs_ = c.snapshot_queued_msgs_
<1> DEFINE old == c.incremental_queued_msgs_
           new == With(old, m.seq, m.update)
           d == [c EXCEPT !.incremental_queued_msgs_ = new]
<1>1. QueueMessage(c, FALSE, m) = CheckSnapshotSync(d)
  <2>1. c.incremental_queued_msgs_ = old
    OBVIOUS
  <2>2. QueueMessage(c, FALSE, m) =
          CheckSnapshotSync([c EXCEPT !.incremental_queued_msgs_ = With(@, m.seq, m.update)])
    BY DEF QueueMessage
  <2>3. [c EXCEPT !.incremental_queued_msgs_ = With(@, m.seq, m.update)] = d
    BY DEF ConsumerOK, Consumer
  <2> QED BY <2>2, <2>3
<1>2. c \in Consumer /\ m.seq \in Nat /\ m.update \in MarketUpdates /\ Len(L) \in Nat
  BY DEF ConsumerOK, Messages
<1>3. /\ c.next_exp_inc_seq_num_ \in 1 .. (Len(L) + 1) /\ QueuedFromLog(L, old)
      /\ FirstOnes(L, c.snapshot_queued_msgs_) /\ old \in Maps(MarketUpdates)
  BY DEF ConsumerOK, Consumer
<1> HIDE DEF old
<1>4. new \in Maps(MarketUpdates)
  BY <1>2, <1>3, WithMap
<1>5. /\ DOMAIN new = DOMAIN old \cup {m.seq} /\ new[m.seq] = m.update
      /\ \A k \in DOMAIN old : k # m.seq => new[k] = old[k]
  BY DEF With
<1> HIDE DEF new
<1>6. QueuedFromLog(L, new)
  BY <1>3, <1>5 DEF QueuedFromLog, FromLog
<1>7. /\ d \in Consumer /\ d.incremental_queued_msgs_ = new
      /\ d.snapshot_queued_msgs_ = c.snapshot_queued_msgs_
      /\ d.in_recovery_ = c.in_recovery_ /\ d.next_exp_inc_seq_num_ = c.next_exp_inc_seq_num_
  BY <1>2, <1>4 DEF Consumer
<1> HIDE DEF d
<1>8. CheckSnapshotSync(d) = d
  BY <1>3, <1>7, CheckFirstOnes
<1>9. ConsumerOK(L, d)
  BY <1>3, <1>6, <1>7 DEF ConsumerOK
<1> QED BY <1>1, <1>7, <1>8, <1>9

LEMMA OnIncremental ==
  ASSUME NEW L \in Seq(MarketUpdates), NEW c, ConsumerOK(L, c),
         NEW m \in Messages(MarketUpdates), FromLog(L, m)
  PROVE  /\ ConsumerOK(L, OnMessage(c, FALSE, m))
         /\ IncrementalRead(L, c, OnMessage(c, FALSE, m))
<1> DEFINE r == OnMessage(c, FALSE, m)
           next == c.next_exp_inc_seq_num_
<1>1. c \in Consumer /\ m.seq \in Nat /\ m.update \in MarketUpdates /\ Len(L) \in Nat
  BY DEF ConsumerOK, Messages
<1>2. /\ next \in 1 .. (Len(L) + 1) /\ QueuedFromLog(L, c.incremental_queued_msgs_)
      /\ FirstOnes(L, c.snapshot_queued_msgs_)
  BY DEF ConsumerOK
<1>3. CASE c.in_recovery_
  <2>1. r = QueueMessage(c, FALSE, m)
    BY <1>3 DEF OnMessage
  <2>2. /\ ConsumerOK(L, r) /\ r.in_recovery_
        /\ r.snapshot_queued_msgs_ = c.snapshot_queued_msgs_
    BY <2>1, <1>3, QueueIncremental
  <2> QED BY <2>2 DEF IncrementalRead, Exact
<1>4. CASE ~c.in_recovery_ /\ m.seq # next
  <2> DEFINE none == Empty
             d == [c EXCEPT !.in_recovery_ = TRUE, !.snapshot_queued_msgs_ = none,
                            !.incremental_queued_msgs_ = none]
  <2>1. /\ none \in Maps(SnapshotUpdates) /\ none \in Maps(MarketUpdates) /\ DOMAIN none = {}
        /\ QueuedFromLog(L, none) /\ FirstOnes(L, none)
    BY EmptyOK
  <2>2. StartSnapshotSync([c EXCEPT !.in_recovery_ = TRUE]) =
          [[c EXCEPT !.in_recovery_ = TRUE] EXCEPT !.snapshot_queued_msgs_ = none,
                                                   !.incremental_queued_msgs_ = none]
    BY DEF StartSnapshotSync
  <2> HIDE DEF none
  <2>3. StartSnapshotSync([c EXCEPT !.in_recovery_ = TRUE]) = d
    BY <2>2, <1>1 DEF Consumer
  <2>4. /\ d \in Consumer /\ d.in_recovery_ /\ d.snapshot_queued_msgs_ = none
        /\ d.incremental_queued_msgs_ = none /\ d.next_exp_inc_seq_num_ = next
    BY <2>1, <1>1 DEF Consumer
  <2> HIDE DEF d
  <2>5. ConsumerOK(L, d)
    BY <2>1, <2>4, <1>2 DEF ConsumerOK
  <2>6. r = QueueMessage(d, FALSE, m)
    BY <2>3, <1>4 DEF OnMessage
  <2>7. ConsumerOK(L, r) /\ r.in_recovery_ /\ r.snapshot_queued_msgs_ = none
    <3> DEFINE q == QueueMessage(d, FALSE, m)
    <3>1. /\ ConsumerOK(L, q) /\ q.in_recovery_
          /\ q.snapshot_queued_msgs_ = d.snapshot_queued_msgs_
      BY <2>4, <2>5, QueueIncremental
    <3> HIDE DEF q, r
    <3>2. r = q
      BY <2>6 DEF q
    <3> QED BY <3>1, <3>2, <2>4
  <2> QED BY <2>1, <2>7 DEF IncrementalRead, Exact
<1>5. CASE ~c.in_recovery_ /\ m.seq = next
  <2> DEFINE b == Apply(c.book, m.update)
             d == [c EXCEPT !.next_exp_inc_seq_num_ = next + 1, !.book = b]
  <2>1. OnMessage(c, FALSE, m) = [c EXCEPT !.next_exp_inc_seq_num_ = @ + 1, !.book = Apply(@, m.update)]
    BY <1>5 DEF OnMessage
  <2>2. r = d
    BY <2>1, <1>1 DEF Consumer
  <2>3. next \in 1 .. Len(L) /\ m.update = L[next] /\ IsUpdate(m.update)
    BY <1>1, <1>5, MarketUpdateFacts DEF FromLog
  <2>4. c.book \in Books
    BY <1>1 DEF Consumer
  <2>5. b \in Books
    BY <2>3, <2>4, ApplyBook
  <2> HIDE DEF r, b
  <2>6. /\ r \in Consumer /\ ~r.in_recovery_ /\ r.next_exp_inc_seq_num_ = next + 1 /\ r.book = b
        /\ r.snapshot_queued_msgs_ = c.snapshot_queued_msgs_
        /\ r.incremental_queued_msgs_ = c.incremental_queued_msgs_
    <3> DEFINE n == next + 1
    <3>1. n \in Nat /\ r = [c EXCEPT !.next_exp_inc_seq_num_ = n, !.book = b]
      BY <2>2, <2>3
    <3> HIDE DEF n, d
    <3>2. /\ r \in Consumer /\ r.next_exp_inc_seq_num_ = n /\ r.book = b
          /\ r.in_recovery_ = c.in_recovery_
          /\ r.snapshot_queued_msgs_ = c.snapshot_queued_msgs_
          /\ r.incremental_queued_msgs_ = c.incremental_queued_msgs_
      BY <3>1, <2>5, <1>1 DEF Consumer
    <3> QED BY <3>2, <1>5 DEF n
  <2> HIDE DEF d
  <2>7. next + 1 \in 1 .. (Len(L) + 1)
    BY <2>3, <1>1
  <2>8. ConsumerOK(L, r)
    BY <2>6, <2>7, <1>2 DEF ConsumerOK
  <2>9. ASSUME Exact(L, c) PROVE Exact(L, r)
    <3>1. c.book = Replay(Empty, L)[next - 1]
      BY <2>9, <1>5 DEF Exact
    <3>2. Replay(Empty, L)[next] = Apply(Replay(Empty, L)[next - 1], L[next])
      BY <2>3, <1>1, ReplayFacts
    <3>3. r.book = Replay(Empty, L)[next] /\ (next + 1) - 1 = next
      BY <3>1, <3>2, <2>3, <2>6 DEF b
    <3> HIDE DEF next
    <3> QED BY <3>3, <2>6 DEF Exact
  <2> QED BY <2>6, <2>8, <2>9, <1>5 DEF IncrementalRead, r
<1> QED BY <1>3, <1>4, <1>5

(***************************************************************************)
(* Whole datagrams.                                                        *)
(***************************************************************************)
LEMMA OnIncrementals ==
  ASSUME NEW L \in Seq(MarketUpdates), NEW c, ConsumerOK(L, c),
         NEW d \in Seq(Messages(MarketUpdates)), \A k \in 1 .. Len(d) : FromLog(L, d[k])
  PROVE  /\ ConsumerOK(L, OnMessages(c, FALSE, d))
         /\ IncrementalRead(L, c, OnMessages(c, FALSE, d))
<1> DEFINE n == Len(d)
<1>1. n \in Nat /\ \A k \in 1 .. n : d[k] \in Messages(MarketUpdates) /\ FromLog(L, d[k])
  BY ElementOfSeq
<1> DEFINE is_snapshot == FALSE
<1> HIDE DEF is_snapshot
<1>2. PICK read : /\ MessagesRead(c, is_snapshot, d, n, read)
                  /\ OnMessages(c, is_snapshot, d) = read[n]
  BY <1>1, OnMessagesRead
<1>3. read[0] = c /\ \A k \in 1 .. n : read[k] = OnMessage(read[k - 1], is_snapshot, d[k])
  BY <1>1, <1>2, MessagesReadFacts
<1> HIDE DEF n
<1> DEFINE T == {k \in 0 .. n : ConsumerOK(L, read[k]) /\ IncrementalRead(L, c, read[k])}
<1>4. 0 \in T
  BY <1>1, <1>3 DEF IncrementalRead
<1>5. ASSUME NEW k \in 1 .. n, k - 1 \in T PROVE k \in T
  <2> DEFINE a == read[k - 1]
             b == read[k]
  <2>1. ConsumerOK(L, a) /\ IncrementalRead(L, c, a)
    BY <1>5
  <2>2. b = OnMessage(a, FALSE, d[k]) /\ d[k] \in Messages(MarketUpdates) /\ FromLog(L, d[k])
    BY <1>1, <1>3 DEF is_snapshot
  <2> HIDE DEF a, b
  <2>3. ConsumerOK(L, b) /\ IncrementalRead(L, a, b)
    BY <2>1, <2>2, OnIncremental
  <2>4. IncrementalRead(L, c, b)
    BY <2>1, <2>3 DEF IncrementalRead
  <2> QED BY <2>3, <2>4, <1>1 DEF b
<1> HIDE DEF T
<1>6. n \in T
  <2>1. \A k \in 1 .. n : k - 1 \in T => k \in T
    BY <1>5
  <2>2. \A k \in 0 .. n : k \in T
    BY <1>1, <1>4, <2>1, UpTo
  <2> QED BY <1>1, <2>2
<1> QED BY <1>2, <1>6 DEF T, is_snapshot

\* What reading a snapshot datagram d makes of c, message by message.
StillWaits(c, r) ==
  /\ r.in_recovery_ /\ r.incremental_queued_msgs_ = c.incremental_queued_msgs_
  /\ r.book = c.book
SnapshotLoop(L, c, d, read) ==
  /\ read[0] = c
  /\ \A k \in 0 .. (Len(d) - 1) : ConsumerOK(L, read[k]) /\ StillWaits(c, read[k])
  /\ \A k \in 1 .. Len(d) : ConsumerOK(L, read[k]) /\ SnapshotRead(L, read[k - 1], d[k], read[k])

LEMMA OnSnapshots ==
  ASSUME NEW L \in Seq(MarketUpdates), NEW c, ConsumerOK(L, c), c.in_recovery_,
         NEW d \in Seq(Messages(SnapshotUpdates)), SnapshotDatagram(L, d)
  PROVE  \E read : SnapshotLoop(L, c, d, read) /\ OnMessages(c, TRUE, d) = read[Len(d)]
<1> DEFINE n == Len(d)
<1>1. /\ n \in Nat
      /\ \A k \in 1 .. n : SnapshotMessage(L, d[k]) /\ (k < n => ~IsEnd(d[k].update))
  BY DEF SnapshotDatagram
<1> DEFINE is_snapshot == TRUE
<1> HIDE DEF is_snapshot
<1>2. PICK read : /\ MessagesRead(c, is_snapshot, d, n, read)
                  /\ OnMessages(c, is_snapshot, d) = read[n]
  BY <1>1, OnMessagesRead
<1>3. read[0] = c /\ \A k \in 1 .. n : read[k] = OnMessage(read[k - 1], is_snapshot, d[k])
  BY <1>1, <1>2, MessagesReadFacts
<1> DEFINE T == {k \in 0 .. n : /\ ConsumerOK(L, read[k]) /\ (k < n => StillWaits(c, read[k]))
                                /\ k > 0 => SnapshotRead(L, read[k - 1], d[k], read[k])}
<1> HIDE DEF n
<1>4. 0 \in T
  <2>1. ConsumerOK(L, read[0]) /\ StillWaits(c, read[0])
    BY <1>3 DEF StillWaits
  <2>2. 0 \in 0 .. n /\ ~(0 > 0)
    BY <1>1
  <2> QED BY <2>1, <2>2
<1>5. ASSUME NEW k \in 1 .. n, k - 1 \in T PROVE k \in T
  <2> DEFINE a == read[k - 1]
             b == read[k]
  <2>1. ConsumerOK(L, a) /\ StillWaits(c, a)
    BY <1>1, <1>5
  <2>2. b = OnMessage(a, TRUE, d[k]) /\ SnapshotMessage(L, d[k]) /\ (k < n => ~IsEnd(d[k].update))
    BY <1>1, <1>3 DEF is_snapshot
  <2>3. ConsumerOK(L, b) /\ SnapshotRead(L, a, d[k], b)
    <3> HIDE DEF a, b
    <3>1. a.in_recovery_
      BY <2>1 DEF StillWaits
    <3> QED BY <3>1, <2>1, <2>2, OnSnapshot
  <2>4. ASSUME k < n PROVE StillWaits(c, b)
    <3> HIDE DEF a, b
    <3>1. ~IsEnd(d[k].update)
      BY <2>2, <2>4
    <3>2. StaysIn(a, b)
      BY <3>1, <2>3 DEF SnapshotRead, Recovers
    <3> QED BY <3>2, <2>1 DEF StaysIn, StillWaits
  <2> QED BY <2>3, <2>4, <1>1
<1> HIDE DEF T
<1>6. \A k \in 0 .. n : k \in T
  <2>1. \A k \in 1 .. n : k - 1 \in T => k \in T
    BY <1>5
  <2> QED BY <1>1, <1>4, <2>1, UpTo
<1>7. ASSUME NEW k \in 0 .. (n - 1) PROVE ConsumerOK(L, read[k]) /\ StillWaits(c, read[k])
  <2>1. k \in 0 .. n /\ k < n
    BY <1>1
  <2> QED BY <2>1, <1>6 DEF T
<1>8. ASSUME NEW k \in 1 .. n
      PROVE  ConsumerOK(L, read[k]) /\ SnapshotRead(L, read[k - 1], d[k], read[k])
  <2>1. k \in 0 .. n /\ k > 0
    BY <1>1
  <2> QED BY <2>1, <1>6 DEF T
<1>9. SnapshotLoop(L, c, d, read)
  BY <1>3, <1>7, <1>8 DEF SnapshotLoop, n
<1> QED BY <1>2, <1>9 DEF n, is_snapshot

\* A recovery that ends has lost none of the incrementals.
LEMMA RecoveryEndsWithAll ==
  ASSUME NEW L \in Seq(MarketUpdates), NEW c, ConsumerOK(L, c), c.in_recovery_,
         NEW d \in Seq(Messages(SnapshotUpdates)), SnapshotDatagram(L, d)
  PROVE  LET r == OnMessages(c, TRUE, d)
         IN  /\ ConsumerOK(L, r)
             /\ ~r.in_recovery_ => /\ DOMAIN r.snapshot_queued_msgs_ = {}
                                   /\ \A s \in DOMAIN c.incremental_queued_msgs_ :
                                        s < r.next_exp_inc_seq_num_
<1> DEFINE r == OnMessages(c, TRUE, d)
           n == Len(d)
<1>1. PICK read : SnapshotLoop(L, c, d, read) /\ r = read[n]
  BY OnSnapshots
<1>2. n \in Nat
  OBVIOUS
<1> HIDE DEF r, n
<1>3. CASE n = 0
  BY <1>1, <1>3 DEF SnapshotLoop, r
<1>4. CASE n # 0
  <2> DEFINE a == read[n - 1]
  <2>1. n \in 1 .. n /\ n - 1 \in 0 .. (n - 1)
    BY <1>2, <1>4
  <2>2. ConsumerOK(L, r) /\ SnapshotRead(L, a, d[n], r) /\ StillWaits(c, a)
    BY <2>1, <1>1 DEF SnapshotLoop, n
  <2> HIDE DEF a
  <2>3. ASSUME ~r.in_recovery_, NEW s \in DOMAIN c.incremental_queued_msgs_
        PROVE  s < r.next_exp_inc_seq_num_
    <3>1. Recovers(L, a, d[n], r)
      BY <2>2, <2>3 DEF SnapshotRead, StaysIn
    <3>2. a.incremental_queued_msgs_ = c.incremental_queued_msgs_
      BY <2>2 DEF StillWaits
    <3> QED BY <3>1, <3>2 DEF Recovers
  <2>4. ~r.in_recovery_ => DOMAIN r.snapshot_queued_msgs_ = {}
    BY <2>2 DEF SnapshotRead, StaysIn, Recovers
  <2> QED BY <2>2, <2>3, <2>4 DEF r
<1> QED BY <1>3, <1>4

(***************************************************************************)
(* What publishSnapshot() sends: every update of it has a place.           *)
(***************************************************************************)
LEMMA FiniteImage ==
  ASSUME NEW S, IsFiniteSet(S), NEW T, NEW f \in [S -> T], \A t \in T : \E s \in S : f[s] = t
  PROVE  IsFiniteSet(T)
<1>1. f \in Surjection(S, T)
  BY DEF Surjection
<1> QED BY <1>1, FS_Surjection

LEMMA TickersFinite == IsFiniteSet(Tickers) /\ IsFiniteSet(Orders)
<1>1. IsFiniteSet(Tickers)
  BY FeedAssumption, FS_Interval DEF Tickers
<1>2. IsFiniteSet(Ids)
  BY FeedAssumption
<1> QED BY <1>1, <1>2, FS_Product DEF Orders

\* An update of the contents of a snapshot of orders.
IsContent(orders, u) ==
  \/ u.type = "CLEAR" /\ u.ticker \in Tickers /\ u = Clear(u.ticker)
  \/ /\ u.type = "ADD" /\ <<u.ticker, u.id>> \in DOMAIN orders /\ u.ticker \in Tickers /\ u.id \in Ids
     /\ u.qty = orders[<<u.ticker, u.id>>] /\ u = Add(<<u.ticker, u.id>>, orders[<<u.ticker, u.id>>])

LEMMA ContentFacts ==
  ASSUME NEW orders \in Books, NEW u \in Contents(orders)
  PROVE  IsContent(orders, u) /\ u \in SnapshotUpdates /\ IsUpdate(u) /\ ~IsStart(u) /\ ~IsEnd(u)
<1>1. orders \in [DOMAIN orders -> Qtys] /\ DOMAIN orders \subseteq Orders
  BY BookFacts
<1>2. ASSUME NEW t \in Tickers, u = Clear(t)
      PROVE  IsContent(orders, u) /\ u \in SnapshotUpdates
  <2>1. u.type = "CLEAR" /\ u.ticker = t
    BY <1>2 DEF Clear
  <2> QED BY <2>1, <1>2 DEF IsContent, SnapshotUpdates
<1>3. ASSUME NEW o \in DOMAIN orders, u = Add(o, orders[o])
      PROVE  IsContent(orders, u) /\ u \in SnapshotUpdates
  <2>1. u.type = "ADD" /\ u.ticker = o[1] /\ u.id = o[2] /\ u.qty = orders[o]
    BY <1>3 DEF Add
  <2>2. o \in Orders /\ orders[o] \in Qtys
    BY <1>1
  <2>3. o[1] \in Tickers /\ o[2] \in Ids /\ o = <<o[1], o[2]>>
    BY <2>2 DEF Orders
  <2>4. o = <<u.ticker, u.id>>
    BY <2>1, <2>3
  <2>5. u \in SnapshotUpdates
    BY <2>2, <1>3 DEF SnapshotUpdates, Adds
  <2> QED BY <2>1, <2>3, <2>4, <2>5, <1>3 DEF IsContent
<1>4. IsContent(orders, u) /\ u \in SnapshotUpdates
  BY <1>2, <1>3 DEF Contents
<1>5. ~IsStart(u) /\ ~IsEnd(u)
  BY <1>4 DEF IsContent, IsStart, IsEnd
<1> QED BY <1>4, <1>5, SnapshotUpdateFacts

LEMMA ContentsFinite ==
  ASSUME NEW orders \in Books
  PROVE  IsFiniteSet(Contents(orders)) /\ Cardinality(Contents(orders)) \in Nat
<1> DEFINE A == {Clear(t) : t \in Tickers}
           B == {Add(o, orders[o]) : o \in DOMAIN orders}
<1>1. IsFiniteSet(A)
  <2> DEFINE f == [t \in Tickers |-> Clear(t)]
  <2>1. f \in [Tickers -> A] /\ \A a \in A : \E t \in Tickers : f[t] = a
    OBVIOUS
  <2> HIDE DEF f, A
  <2> QED BY <2>1, TickersFinite, FiniteImage
<1>2. IsFiniteSet(B)
  <2> DEFINE f == [o \in DOMAIN orders |-> Add(o, orders[o])]
  <2>1. f \in [DOMAIN orders -> B] /\ \A a \in B : \E t \in DOMAIN orders : f[t] = a
    OBVIOUS
  <2>2. DOMAIN orders \subseteq Orders
    BY BookFacts
  <2>3. IsFiniteSet(DOMAIN orders)
    BY <2>2, TickersFinite, FS_Subset
  <2> HIDE DEF f, B
  <2> QED BY <2>1, <2>3, FiniteImage
<1>3. Contents(orders) = A \cup B
  BY DEF Contents
<1> HIDE DEF A, B
<1>4. IsFiniteSet(A \cup B)
  BY <1>1, <1>2, FS_Union
<1> QED BY <1>3, <1>4, FS_CardinalityType

LEMMA PrecedesOrder ==
  ASSUME NEW orders \in Books
  PROVE  /\ \A u \in Contents(orders) : ~Precedes(u, u)
         /\ \A u, v \in Contents(orders) : u # v => Precedes(u, v) \/ Precedes(v, u)
         /\ \A u, v, w \in Contents(orders) : Precedes(u, v) /\ Precedes(v, w) => Precedes(u, w)
<1>1. ASSUME NEW u \in Contents(orders)
      PROVE  /\ u.ticker \in Int /\ (u.type = "ADD" => u.id \in Int)
             /\ IsContent(orders, u)
  <2>1. IsContent(orders, u)
    BY ContentFacts
  <2> QED BY <2>1, FeedAssumption DEF IsContent, Tickers
<1>2. ASSUME NEW u \in Contents(orders) PROVE ~Precedes(u, u)
  BY <1>1 DEF Precedes
<1>3. ASSUME NEW u \in Contents(orders), NEW v \in Contents(orders), u # v
      PROVE  Precedes(u, v) \/ Precedes(v, u)
  <2>1. CASE u.ticker # v.ticker
    BY <2>1, <1>1 DEF Precedes
  <2>2. CASE u.ticker = v.ticker
    <3>1. IsContent(orders, u) /\ IsContent(orders, v)
      BY <1>1
    <3>2. u.type = "ADD" \/ v.type = "ADD"
      BY <3>1, <2>2, <1>3 DEF IsContent
    <3>3. u.type = "ADD" /\ v.type = "ADD" => u.id # v.id
      BY <3>1, <2>2, <1>3 DEF IsContent
    <3> QED BY <3>2, <3>3, <2>2, <1>1 DEF Precedes
  <2> QED BY <2>1, <2>2
<1>4. ASSUME NEW u \in Contents(orders), NEW v \in Contents(orders), NEW w \in Contents(orders),
             Precedes(u, v), Precedes(v, w)
      PROVE  Precedes(u, w)
  BY <1>1, <1>4 DEF Precedes
<1> QED BY <1>2, <1>3, <1>4

LEMMA RankFacts ==
  ASSUME NEW orders \in Books
  PROVE  LET U == Contents(orders)
         IN  /\ \A u \in U : Rank(U, u) \in 0 .. (Cardinality(U) - 1)
             /\ \A u, v \in U : Precedes(u, v) => Rank(U, u) < Rank(U, v)
             /\ \A u, v \in U : Rank(U, u) = Rank(U, v) => u = v
<1> DEFINE U == Contents(orders)
           Before(u) == {v \in U : Precedes(v, u)}
<1>1. IsFiniteSet(U) /\ Cardinality(U) \in Nat
  BY ContentsFinite
<1>2. /\ \A u \in U : ~Precedes(u, u)
      /\ \A u, v \in U : u # v => Precedes(u, v) \/ Precedes(v, u)
      /\ \A u, v, w \in U : Precedes(u, v) /\ Precedes(v, w) => Precedes(u, w)
  BY PrecedesOrder
<1> HIDE DEF U
<1>3. ASSUME NEW u \in U
      PROVE  Rank(U, u) = Cardinality(Before(u)) /\ Rank(U, u) \in Nat /\ IsFiniteSet(Before(u))
  <2>1. Before(u) \in SUBSET U
    OBVIOUS
  <2>2. IsFiniteSet(Before(u))
    BY <2>1, <1>1, FS_Subset
  <2> QED BY <2>2, FS_CardinalityType DEF Rank
<1>4. ASSUME NEW u \in U PROVE Rank(U, u) \in 0 .. (Cardinality(U) - 1)
  <2> DEFINE B == Before(u)
  <2>1. B \in SUBSET U /\ u \notin B
    BY <1>2
  <2> HIDE DEF B
  <2>2. Cardinality(B) <= Cardinality(U) /\ (Cardinality(U) = Cardinality(B) => U = B)
    BY <2>1, <1>1, FS_Subset
  <2>3. Cardinality(U) # Cardinality(B)
    BY <2>1, <2>2
  <2>4. Rank(U, u) = Cardinality(B) /\ Rank(U, u) \in Nat
    BY <1>3 DEF B
  <2> QED BY <2>2, <2>3, <2>4, <1>1
<1>5. ASSUME NEW u \in U, NEW v \in U, Precedes(u, v) PROVE Rank(U, u) < Rank(U, v)
  <2> DEFINE A == Before(u)
             B == Before(v)
  <2>1. A \in SUBSET B /\ u \notin A /\ u \in B
    BY <1>2, <1>5
  <2>2. IsFiniteSet(B)
    BY <1>3
  <2> HIDE DEF A, B
  <2>3. Cardinality(A) <= Cardinality(B) /\ (Cardinality(B) = Cardinality(A) => B = A)
    BY <2>1, <2>2, FS_Subset
  <2>4. Cardinality(A) # Cardinality(B)
    BY <2>1, <2>3
  <2>5. /\ Rank(U, u) = Cardinality(A) /\ Rank(U, u) \in Nat
        /\ Rank(U, v) = Cardinality(B) /\ Rank(U, v) \in Nat
    BY <1>3 DEF A, B
  <2> QED BY <2>3, <2>4, <2>5
<1>6. ASSUME NEW u \in U, NEW v \in U, Rank(U, u) = Rank(U, v), u # v PROVE FALSE
  <2>1. Rank(U, u) \in Nat /\ Rank(U, v) \in Nat
    BY <1>3
  <2>2. Precedes(u, v) \/ Precedes(v, u)
    BY <1>2, <1>6
  <2>3. Rank(U, u) < Rank(U, v) \/ Rank(U, v) < Rank(U, u)
    BY <2>2, <1>5
  <2> QED BY <2>1, <2>3, <1>6
<1> QED BY <1>4, <1>5, <1>6 DEF U

\* So every number is the rank of one update, and InOrder lists all of them by rank.
LEMMA InOrderFacts ==
  ASSUME NEW orders \in Books
  PROVE  LET U == Contents(orders)
         IN  \A k \in 1 .. Cardinality(U) :
               InOrder(U)[k] \in U /\ Rank(U, InOrder(U)[k]) = k - 1
<1> DEFINE U == Contents(orders)
           n == Cardinality(U)
           N == 0 .. (n - 1)
           f == [u \in U |-> Rank(U, u)]
<1>1. IsFiniteSet(U) /\ n \in Nat
  BY ContentsFinite
<1>2. /\ \A u \in U : Rank(U, u) \in N
      /\ \A u, v \in U : Rank(U, u) = Rank(U, v) => u = v
  BY RankFacts
<1> HIDE DEF U
<1>3. f \in [U -> N] /\ \A u, v \in U : f[u] = f[v] => u = v
  BY <1>2
<1>4. IsFiniteSet(N) /\ Cardinality(N) = n
  <2> HIDE DEF n
  <2> QED BY <1>1, SizeFacts
<1>5. f \in Injection(U, N)
  <2> HIDE DEF f, N
  <2>1. DOMAIN f = U
    BY <1>3
  <2> QED BY <1>3, <2>1 DEF Injection, IsInjective
<1>6. f \in Surjection(U, N)
  <2>1. Cardinality(U) = Cardinality(N)
    BY <1>4
  <2> HIDE DEF f, N, n
  <2> QED BY <1>4, <1>5, <2>1, FS_Injection
<1>7. ASSUME NEW k \in 1 .. n PROVE InOrder(U)[k] \in U /\ Rank(U, InOrder(U)[k]) = k - 1
  <2>1. k - 1 \in N
    BY <1>1
  <2>2. PICK u \in U : f[u] = k - 1
    <3> HIDE DEF f, N
    <3> QED BY <2>1, <1>6 DEF Surjection
  <2>3. Rank(U, u) = k - 1
    BY <2>2
  <2>4. InOrder(U)[k] = CHOOSE x \in U : Rank(U, x) = k - 1
    BY DEF InOrder
  <2> HIDE DEF f, N, n
  <2> QED BY <2>3, <2>4
<1> QED BY <1>7 DEF U

\* The messages of a snapshot.
SnapshotShape(orders, last, msgs) ==
  LET n == Cardinality(Contents(orders))
  IN  /\ n \in Nat /\ msgs \in Seq(Messages(SnapshotUpdates)) /\ Len(msgs) = n + 2
      /\ \A k \in 1 .. (n + 2) : msgs[k].seq = k - 1
      /\ IsStart(msgs[1].update) /\ msgs[1].update.last = last
      /\ \A k \in 1 .. n : msgs[k + 1].update = InOrder(Contents(orders))[k]
      /\ IsEnd(msgs[n + 2].update) /\ msgs[n + 2].update.last = last

LEMMA SnapshotMsgsShape ==
  ASSUME NEW orders \in Books, NEW last \in Nat
  PROVE  SnapshotShape(orders, last, SnapshotMsgs(orders, last))
<1> DEFINE n == Cardinality(Contents(orders))
           a == <<[type |-> "SNAPSHOT_START", last |-> last]>>
           b == InOrder(Contents(orders))
           c == <<EndOfCycle(orders, last)>>
           updates == a \o b \o c
           msgs == [k \in 1 .. Len(updates) |-> [seq |-> k - 1, update |-> updates[k]]]
           S == SnapshotUpdates
<1>1. n \in Nat
  BY ContentsFinite
<1>2. SnapshotMsgs(orders, last) = msgs
  BY DEF SnapshotMsgs
<1>3. /\ a \in Seq(S) /\ Len(a) = 1 /\ IsStart(a[1]) /\ a[1].last = last
      /\ c \in Seq(S) /\ Len(c) = 1 /\ IsEnd(c[1]) /\ c[1].last = last
  <2>1. /\ [type |-> "SNAPSHOT_START", last |-> last] \in S
        /\ EndOfCycle(orders, last) \in S
    BY DEF SnapshotUpdates, EndOfCycle
  <2>2. IsStart(a[1]) /\ a[1].last = last /\ IsEnd(c[1]) /\ c[1].last = last
    BY DEF IsStart, IsEnd, EndOfCycle
  <2> HIDE DEF S
  <2> QED BY <2>1, <2>2
<1>4. b \in Seq(S) /\ Len(b) = n
  <2>1. \A k \in 1 .. n : b[k] \in S
    BY InOrderFacts, ContentFacts
  <2>2. b = [k \in 1 .. n |-> b[k]]
    BY DEF InOrder
  <2> HIDE DEF b, n, S
  <2>3. b \in [1 .. n -> S]
    BY <2>1, <2>2
  <2> QED BY <2>3, <1>1
<1> HIDE DEF a, b, c, S, n
<1>5. /\ (a \o b) \in Seq(S) /\ Len(a \o b) = n + 1
      /\ \A k \in 1 .. (n + 1) : (a \o b)[k] = IF k <= 1 THEN a[k] ELSE b[k - 1]
  <2>1. /\ (a \o b) \in Seq(S) /\ Len(a \o b) = Len(a) + Len(b)
        /\ \A k \in 1 .. Len(a) + Len(b) : (a \o b)[k] = IF k <= Len(a) THEN a[k] ELSE b[k - Len(a)]
    BY <1>3, <1>4, ConcatProperties
  <2>2. Len(a) + Len(b) = n + 1
    BY <1>1, <1>3, <1>4
  <2> QED BY <2>1, <2>2, <1>3
<1> DEFINE ab == a \o b
<1> HIDE DEF ab
<1>6. /\ (ab \o c) \in Seq(S) /\ Len(ab \o c) = n + 2
      /\ \A k \in 1 .. (n + 2) : (ab \o c)[k] = IF k <= n + 1 THEN ab[k] ELSE c[k - (n + 1)]
  <2>0. ab \in Seq(S) /\ Len(ab) = n + 1
    BY <1>5 DEF ab
  <2>1. /\ (ab \o c) \in Seq(S) /\ Len(ab \o c) = Len(ab) + Len(c)
        /\ \A k \in 1 .. Len(ab) + Len(c) : (ab \o c)[k] = IF k <= Len(ab) THEN ab[k] ELSE c[k - Len(ab)]
    BY <1>3, <2>0, ConcatProperties
  <2>2. Len(ab) + Len(c) = n + 2
    BY <1>1, <1>3, <2>0
  <2> QED BY <2>0, <2>1, <2>2
<1>7. /\ updates \in Seq(S) /\ Len(updates) = n + 2
      /\ updates[1] = a[1] /\ updates[n + 2] = c[1]
      /\ \A k \in 1 .. n : updates[k + 1] = b[k]
  <2>1. updates = ab \o c
    BY DEF ab
  <2> HIDE DEF updates
  <2>2. \A k \in 1 .. (n + 1) : ab[k] = IF k <= 1 THEN a[k] ELSE b[k - 1]
    BY <1>5 DEF ab
  <2>3. updates[1] = a[1]
    BY <2>1, <2>2, <1>1, <1>6
  <2>4. updates[n + 2] = c[1]
    <3>1. n + 2 \in 1 .. (n + 2) /\ ~(n + 2 <= n + 1) /\ (n + 2) - (n + 1) = 1
      BY <1>1
    <3> QED BY <3>1, <2>1, <1>6
  <2>5. ASSUME NEW k \in 1 .. n PROVE updates[k + 1] = b[k]
    <3>1. /\ k + 1 \in 1 .. (n + 2) /\ k + 1 <= n + 1 /\ k + 1 \in 1 .. (n + 1)
          /\ ~(k + 1 <= 1) /\ (k + 1) - 1 = k
      BY <1>1
    <3> QED BY <3>1, <2>1, <2>2, <1>6
  <2> QED BY <2>1, <2>3, <2>4, <2>5, <1>6
<1> HIDE DEF updates
<1>8. \A k \in 1 .. (n + 2) : /\ msgs[k] = [seq |-> k - 1, update |-> updates[k]]
                              /\ msgs[k] \in Messages(S) /\ msgs[k].seq = k - 1
                              /\ msgs[k].update = updates[k]
  <2> SUFFICES ASSUME NEW k \in 1 .. (n + 2)
               PROVE  /\ msgs[k] = [seq |-> k - 1, update |-> updates[k]]
                      /\ msgs[k] \in Messages(S) /\ msgs[k].seq = k - 1
                      /\ msgs[k].update = updates[k]
    OBVIOUS
  <2>1. msgs[k] = [seq |-> k - 1, update |-> updates[k]]
    BY <1>7
  <2>2. updates[k] \in S /\ k - 1 \in Nat
    BY <1>1, <1>7, ElementOfSeq
  <2> HIDE DEF msgs
  <2> QED BY <2>1, <2>2 DEF Messages
<1>9. msgs \in Seq(Messages(S)) /\ Len(msgs) = n + 2
  <2>1. msgs \in [1 .. (n + 2) -> Messages(S)]
    <3>1. msgs = [k \in 1 .. (n + 2) |-> msgs[k]]
      BY <1>7
    <3> HIDE DEF msgs
    <3> QED BY <3>1, <1>8
  <2>2. n + 2 \in Nat
    BY <1>1
  <2> HIDE DEF msgs
  <2> QED BY <2>1, <2>2
<1> HIDE DEF msgs
<1>10. 1 \in 1 .. (n + 2) /\ n + 2 \in 1 .. (n + 2) /\ \A k \in 1 .. n : k + 1 \in 1 .. (n + 2)
  BY <1>1
<1>11. /\ msgs[1].update = a[1] /\ msgs[n + 2].update = c[1]
       /\ \A k \in 1 .. n : msgs[k + 1].update = b[k]
  BY <1>7, <1>8, <1>10
<1>12. SnapshotShape(orders, last, msgs)
  BY <1>1, <1>3, <1>8, <1>9, <1>11 DEF SnapshotShape, n, b, S
<1> QED BY <1>2, <1>12

LEMMA DatagramEndFacts ==
  ASSUME NEW orders \in Books, NEW last \in Nat, NEW msgs, SnapshotShape(orders, last, msgs),
         NEW from \in 1 .. Len(msgs)
  PROVE  DatagramEnd(msgs, from) \in from .. Len(msgs)
<1> DEFINE S == {k \in from .. Len(msgs) : msgs[k].update.type \in {"ADD", "SNAPSHOT_END"}}
           n == Len(msgs)
<1>1. n \in Nat /\ IsEnd(msgs[n].update)
  BY DEF SnapshotShape
<1>2. n \in S /\ S \in SUBSET Nat
  BY <1>1 DEF IsEnd
<1>3. DatagramEnd(msgs, from) = CHOOSE x \in S : \A y \in S : x =< y
  BY DEF DatagramEnd, Min
<1>4. S \subseteq from .. Len(msgs)
  OBVIOUS
<1> HIDE DEF S
<1>5. \E x \in S : \A y \in S : x <= y
  BY <1>2, LeastNatural
<1>6. DatagramEnd(msgs, from) \in S
  BY <1>3, <1>5
<1> QED BY <1>4, <1>6

\* A part of a snapshot is as SnapshotDatagram says.
PartOf(L, msgs, p, q, d) ==
  /\ d \in Seq(Messages(SnapshotUpdates)) /\ Len(d) = q - p
  /\ \A k \in 1 .. (q - p) : d[k] = msgs[p + k]
  /\ SnapshotDatagram(L, d)

LEMMA DatagramFacts ==
  ASSUME NEW L, NEW orders \in Books, NEW last \in 0 .. Len(L), Len(L) \in Nat,
         NEW msgs, SnapshotShape(orders, last, msgs),
         NEW p \in 0 .. Len(msgs), NEW q \in p .. Len(msgs)
  PROVE  PartOf(L, msgs, p, q, SubSeq(msgs, p + 1, q))
<1> DEFINE d == SubSeq(msgs, p + 1, q)
           n == Len(msgs) - 2
           S == Messages(SnapshotUpdates)
<1>1. /\ n \in Nat /\ msgs \in Seq(S) /\ Len(msgs) = n + 2 /\ n = Cardinality(Contents(orders))
      /\ \A k \in 1 .. (n + 2) : msgs[k].seq = k - 1
      /\ IsStart(msgs[1].update) /\ msgs[1].update.last = last
      /\ \A k \in 1 .. n : msgs[k + 1].update = InOrder(Contents(orders))[k]
      /\ IsEnd(msgs[n + 2].update) /\ msgs[n + 2].update.last = last
  BY DEF SnapshotShape
<1>2. ASSUME NEW k \in 1 .. (n + 2)
      PROVE  SnapshotMessage(L, msgs[k]) /\ (k < n + 2 => ~IsEnd(msgs[k].update))
  <2>1. msgs[k] \in S
    BY <1>1, ElementOfSeq
  <2>2. CASE k = 1
    BY <2>1, <2>2, <1>1 DEF SnapshotMessage, NotNewer, IsStart, IsEnd
  <2>3. CASE k = n + 2
    BY <2>1, <2>3, <1>1 DEF SnapshotMessage, NotNewer, IsStart, IsEnd
  <2>4. CASE k # 1 /\ k # n + 2
    <3> HIDE DEF n
    <3>1. k - 1 \in 1 .. n /\ (k - 1) + 1 = k
      BY <2>4, <1>1
    <3>2. msgs[k].update = InOrder(Contents(orders))[k - 1]
      BY <3>1, <1>1
    <3>3. InOrder(Contents(orders))[k - 1] \in Contents(orders)
      BY <3>1, <1>1, InOrderFacts
    <3>4. ~IsStart(msgs[k].update) /\ ~IsEnd(msgs[k].update)
      BY <3>2, <3>3, ContentFacts
    <3> QED BY <2>1, <3>4 DEF SnapshotMessage, NotNewer
  <2> QED BY <2>2, <2>3, <2>4
<1>3. /\ d \in Seq(S) /\ Len(d) = q - p /\ \A k \in 1 .. (q - p) : d[k] = msgs[p + k]
  <2> DEFINE i == p + 1
  <2>1. i \in Int /\ q \in Int /\ \A k \in i .. q : k \in 1 .. Len(msgs)
    BY <1>1
  <2>2. \A k \in i .. q : msgs[k] \in S
    BY <2>1, <1>1, ElementOfSeq
  <2> HIDE DEF i, S
  <2>3. /\ SubSeq(msgs, i, q) \in Seq(S)
        /\ Len(SubSeq(msgs, i, q)) = IF i <= q THEN q - i + 1 ELSE 0
        /\ \A k \in 1 .. (q - i + 1) : SubSeq(msgs, i, q)[k] = msgs[i + k - 1]
    BY <2>1, <2>2, SubSeqProperties
  <2>4. /\ (IF i <= q THEN q - i + 1 ELSE 0) = q - p /\ q - i + 1 = q - p
        /\ \A k \in 1 .. (q - p) : i + k - 1 = p + k
    BY <1>1 DEF i
  <2>5. SubSeq(msgs, i, q) = d
    BY DEF i
  <2> HIDE DEF d
  <2> QED BY <2>3, <2>4, <2>5
<1> HIDE DEF d
<1>4. SnapshotDatagram(L, d)
  <2> SUFFICES ASSUME NEW k \in 1 .. Len(d)
               PROVE  SnapshotMessage(L, d[k]) /\ (k < Len(d) => ~IsEnd(d[k].update))
    BY DEF SnapshotDatagram
  <2>1. d[k] = msgs[p + k] /\ p + k \in 1 .. (n + 2) /\ (k < Len(d) => p + k < n + 2)
    BY <1>1, <1>3
  <2> HIDE DEF n
  <2> QED BY <2>1, <1>2
<1> QED BY <1>3, <1>4 DEF d, PartOf

(***************************************************************************)
(* Applied to any book, the contents of a snapshot leave its orders: the   *)
(* clear of a ticker comes before its orders.                              *)
(***************************************************************************)
Shown(orders, k, b) ==
  LET U == Contents(orders)
  IN  \A x \in Orders : Rank(U, Clear(x[1])) < k =>
        /\ x \in DOMAIN b <=> x \in DOMAIN orders /\ Rank(U, Add(x, orders[x])) < k
        /\ x \in DOMAIN b => b[x] = orders[x]

LEMMA ShownStep ==
  ASSUME NEW orders \in Books, NEW k \in 1 .. Cardinality(Contents(orders)),
         NEW b \in Books, Shown(orders, k - 1, b)
  PROVE  Shown(orders, k, Apply(b, InOrder(Contents(orders))[k]))
<1> DEFINE U == Contents(orders)
           u == InOrder(U)[k]
           r == Apply(b, u)
<1>1. u \in U /\ Rank(U, u) = k - 1
  BY InOrderFacts
<1>2. IsContent(orders, u)
  BY <1>1, ContentFacts
<1>3. /\ \A v \in U : Rank(U, v) \in Int
      /\ \A v, w \in U : Precedes(v, w) => Rank(U, v) < Rank(U, w)
      /\ \A v, w \in U : Rank(U, v) = Rank(U, w) => v = w
  BY RankFacts
<1>4. ASSUME NEW v \in U PROVE Rank(U, v) < k <=> (Rank(U, v) < k - 1 \/ v = u)
  <2>1. Rank(U, v) \in Int /\ (Rank(U, v) = k - 1 <=> v = u)
    BY <1>1, <1>3
  <2>2. k \in Int
    BY ContentsFinite
  <2> HIDE DEF U, u
  <2> QED BY <2>1, <2>2
<1>5. /\ \A x \in Orders : Clear(x[1]) \in U
      /\ \A x \in DOMAIN orders : Add(x, orders[x]) \in U
  BY DEF Contents, Orders
<1>6. DOMAIN orders \subseteq Orders /\ DOMAIN b \subseteq Orders
  BY BookFacts
<1> HIDE DEF U, u, r
<1> SUFFICES ASSUME NEW x \in Orders, Rank(U, Clear(x[1])) < k
             PROVE  /\ x \in DOMAIN r <=> x \in DOMAIN orders /\ Rank(U, Add(x, orders[x])) < k
                    /\ x \in DOMAIN r => r[x] = orders[x]
  BY DEF Shown, U, u, r
<1>7. x[1] \in Tickers /\ x[2] \in Ids /\ x = <<x[1], x[2]>> /\ Clear(x[1]) \in U
  <2>1. x[1] \in Tickers /\ x[2] \in Ids /\ x = <<x[1], x[2]>>
    BY DEF Orders
  <2> QED BY <2>1, <1>5
<1>8. Rank(U, Clear(x[1])) < k - 1 =>
        /\ x \in DOMAIN b <=> x \in DOMAIN orders /\ Rank(U, Add(x, orders[x])) < k - 1
        /\ x \in DOMAIN b => b[x] = orders[x]
  BY DEF Shown, U
<1>9. CASE u.type = "CLEAR"
  <2> DEFINE t == u.ticker
  <2>1. t \in Tickers /\ u = Clear(t)
    BY <1>2, <1>9 DEF IsContent
  <2>2. r = Without(b, {t} \X Ids)
    BY <1>9 DEF Apply, r
  <2>3. x \in DOMAIN r <=> x \in DOMAIN b /\ x[1] # t
    <3> HIDE DEF t
    <3>1. x \in {t} \X Ids <=> x[1] = t
      BY <1>7
    <3> QED BY <3>1, <2>2 DEF Without
  <2>4. x \in DOMAIN r => r[x] = b[x]
    <3> HIDE DEF t
    <3> QED BY <2>2 DEF Without
  <2> HIDE DEF t
  <2>5. ASSUME x \in DOMAIN orders
        PROVE  Add(x, orders[x]) \in U /\ Add(x, orders[x]) # u
    <3>1. Add(x, orders[x]).type # u.type
      BY <1>9 DEF Add
    <3> QED BY <2>5, <3>1, <1>5
  <2>6. CASE x[1] = t
    <3>1. x \notin DOMAIN r
      BY <2>3, <2>6
    <3>2. ASSUME x \in DOMAIN orders PROVE ~(Rank(U, Add(x, orders[x])) < k)
      <4> DEFINE v == Add(x, orders[x])
      <4>1. v \in U
        BY <2>5, <3>2
      <4>2. v.type = "ADD" /\ v.ticker = x[1]
        BY DEF Add
      <4>3. u.type = "CLEAR" /\ u.ticker = t
        BY <2>1 DEF Clear
      <4> HIDE DEF v
      <4>4. Precedes(u, v)
        BY <4>2, <4>3, <2>6 DEF Precedes
      <4>5. k - 1 < Rank(U, v) /\ Rank(U, v) \in Int
        BY <4>1, <4>4, <1>1, <1>3
      <4>6. k \in Int
        BY ContentsFinite
      <4> QED BY <4>5, <4>6 DEF v
    <3> QED BY <3>1, <3>2
  <2>7. CASE x[1] # t
    <3>1. Clear(x[1]) # u
      <4>1. Clear(x[1]).ticker = x[1] /\ Clear(t).ticker = t
        BY DEF Clear
      <4> QED BY <4>1, <2>1, <2>7
    <3>2. Rank(U, Clear(x[1])) < k - 1
      BY <3>1, <1>4, <1>7
    <3>3. x \in DOMAIN orders => (Rank(U, Add(x, orders[x])) < k <=> Rank(U, Add(x, orders[x])) < k - 1)
      BY <2>5, <1>4
    <3> QED BY <3>2, <3>3, <2>3, <2>4, <2>7, <1>8
  <2> QED BY <2>6, <2>7
<1>10. CASE u.type = "ADD"
  <2> DEFINE y == <<u.ticker, u.id>>
  <2>1. y \in DOMAIN orders /\ u.qty = orders[y] /\ u = Add(y, orders[y])
    BY <1>2, <1>10 DEF IsContent
  <2>2. r = With(b, y, u.qty)
    BY <1>10 DEF Apply, r
  <2>3. y[1] = u.ticker /\ y[2] = u.id
    OBVIOUS
  <2> HIDE DEF y
  <2>4. /\ x \in DOMAIN r <=> x \in DOMAIN b \/ x = y
        /\ x \in DOMAIN r => r[x] = IF x = y THEN orders[y] ELSE b[x]
    BY <2>1, <2>2 DEF With
  <2>5. Clear(x[1]) # u
    <3>1. Clear(x[1]).type # u.type
      BY <1>10 DEF Clear
    <3> QED BY <3>1
  <2>6. Rank(U, Clear(x[1])) < k - 1
    BY <2>5, <1>4, <1>7
  <2>7. CASE x = y
    <3>1. Rank(U, Add(x, orders[x])) < k
      BY <2>1, <2>7, <1>1, <1>4
    <3> QED BY <3>1, <2>1, <2>4, <2>7
  <2>8. CASE x # y
    <3>1. ASSUME x \in DOMAIN orders
          PROVE  Add(x, orders[x]) # u /\ Add(x, orders[x]) \in U
      <4>1. Add(x, orders[x]).ticker = x[1] /\ Add(x, orders[x]).id = x[2]
        BY DEF Add
      <4>2. y \in Orders
        BY <2>1, <1>6
      <4>3. y = <<y[1], y[2]>>
        BY <4>2 DEF Orders
      <4>4. ~(x[1] = u.ticker /\ x[2] = u.id)
        BY <4>3, <2>3, <2>8, <1>7
      <4> QED BY <4>1, <4>4, <3>1, <1>5
    <3>2. x \in DOMAIN orders => (Rank(U, Add(x, orders[x])) < k <=> Rank(U, Add(x, orders[x])) < k - 1)
      BY <3>1, <1>4
    <3> QED BY <3>2, <2>4, <2>6, <2>8, <1>8
  <2> QED BY <2>7, <2>8
<1> QED BY <1>2, <1>9, <1>10 DEF IsContent

LEMMA SnapshotReplay ==
  ASSUME NEW orders \in Books, NEW b \in Books, NEW e, Len(e) \in Nat,
         NEW n, n = Cardinality(Contents(orders)), n <= Len(e),
         \A k \in 1 .. n : e[k] = InOrder(Contents(orders))[k]
  PROVE  Replay(b, e)[n] = orders
<1> DEFINE U == Contents(orders)
           f == Replay(b, e)
           T == {k \in 0 .. n : f[k] \in Books /\ Shown(orders, k, f[k])}
<1>1. n \in Nat /\ \A u \in U : Rank(U, u) \in 0 .. (n - 1)
  BY ContentsFinite, RankFacts
<1>2. f[0] = b /\ \A k \in 1 .. n : f[k] = Apply(f[k - 1], e[k])
  <2>1. f[0] = b /\ \A k \in 1 .. Len(e) : f[k] = Apply(f[k - 1], e[k])
    BY ReplayFacts
  <2>2. \A k \in 1 .. n : k \in 1 .. Len(e)
    BY <1>1
  <2> HIDE DEF f
  <2> QED BY <2>1, <2>2
<1> HIDE DEF f
<1>3. /\ \A x \in Orders : Clear(x[1]) \in U
      /\ \A x \in DOMAIN orders : Add(x, orders[x]) \in U
  BY DEF Contents, Orders
<1>4. 0 \in T
  <2>1. ASSUME NEW x \in Orders PROVE ~(Rank(U, Clear(x[1])) < 0)
    <3>1. Clear(x[1]) \in U
      BY <1>3
    <3>2. Rank(U, Clear(x[1])) \in 0 .. (n - 1)
      BY <3>1, <1>1
    <3> QED BY <3>2, <1>1
  <2>2. Shown(orders, 0, f[0])
    BY <2>1 DEF Shown
  <2> QED BY <2>2, <1>1, <1>2
<1>5. ASSUME NEW k \in 1 .. n, k - 1 \in T PROVE k \in T
  <2> DEFINE g == f[k - 1]
             u == InOrder(U)[k]
  <2>1. g \in Books /\ Shown(orders, k - 1, g)
    BY <1>5
  <2>2. f[k] = Apply(g, u)
    BY <1>2
  <2>3. u \in U
    BY InOrderFacts
  <2>4. IsUpdate(u)
    BY <2>3, ContentFacts
  <2> HIDE DEF g
  <2>5. Apply(g, u) \in Books
    BY <2>1, <2>4, ApplyBook
  <2>6. Shown(orders, k, Apply(g, u))
    BY <2>1, ShownStep
  <2> QED BY <2>2, <2>5, <2>6, <1>1
<1> HIDE DEF T
<1>6. n \in T
  <2>1. \A k \in 1 .. n : k - 1 \in T => k \in T
    BY <1>5
  <2>2. \A k \in 0 .. n : k \in T
    BY <1>1, <1>4, <2>1, UpTo
  <2>3. n \in 0 .. n
    BY <1>1
  <2> QED BY <2>2, <2>3
<1> DEFINE r == f[n]
<1>7. r \in Books /\ Shown(orders, n, r)
  BY <1>6 DEF T
<1> HIDE DEF r
<1>8. /\ r \in [DOMAIN r -> Qtys] /\ DOMAIN r \subseteq Orders
      /\ orders \in [DOMAIN orders -> Qtys] /\ DOMAIN orders \subseteq Orders
  BY <1>7, BookFacts
<1>9. ASSUME NEW u \in U PROVE Rank(U, u) < n
  BY <1>1
<1>10. ASSUME NEW x \in Orders
       PROVE  (x \in DOMAIN r <=> x \in DOMAIN orders) /\ (x \in DOMAIN r => r[x] = orders[x])
  <2>1. Rank(U, Clear(x[1])) < n /\ (x \in DOMAIN orders => Rank(U, Add(x, orders[x])) < n)
    BY <1>3, <1>9
  <2> QED BY <2>1, <1>7 DEF Shown
<1>11. DOMAIN r = DOMAIN orders /\ \A x \in DOMAIN r : r[x] = orders[x]
  BY <1>8, <1>10
<1>12. r = orders
  <2>1. r = [x \in DOMAIN r |-> r[x]] /\ orders = [x \in DOMAIN orders |-> orders[x]]
    BY <1>8
  <2> QED BY <2>1, <1>11
<1> QED BY <1>12 DEF r, f

LEMMA LogBooks ==
  ASSUME NEW L \in Seq(MarketUpdates)
  PROVE  \A n \in 0 .. Len(L) : Replay(Empty, L)[n] \in Books
<1>1. Len(L) \in Nat /\ Empty \in Books
  BY EmptyFacts
<1>2. \A n \in 1 .. Len(L) : IsUpdate(L[n])
  BY ElementOfSeq, MarketUpdateFacts
<1> DEFINE none == Empty
<1> HIDE DEF none
<1>3. none \in Books
  BY <1>1 DEF none
<1>4. \A n \in 0 .. Len(L) : Replay(none, L)[n] \in Books
  BY <1>1, <1>2, <1>3, ReplayBooks
<1> QED BY <1>4 DEF none

LEMMA RecoveryIsExact ==
  ASSUME NEW L \in Seq(MarketUpdates), NEW last \in 0 .. Len(L),
         NEW orders, orders = Replay(Empty, L)[last],
         NEW msgs, SnapshotShape(orders, last, msgs),
         NEW c, ConsumerOK(L, c), NEW m, m = msgs[Len(msgs)],
         FirstOf(msgs, c.snapshot_queued_msgs_, Len(msgs) - 1),
         NEW r, Recovers(L, c, m, r)
  PROVE  r.book = Replay(Empty, L)[r.next_exp_inc_seq_num_ - 1]
<1> DEFINE n == Cardinality(Contents(orders))
           queue == c.snapshot_queued_msgs_
           from == last + 1
           next == r.next_exp_inc_seq_num_
           seq == n + 1
           e == Events(c, seq, from, next)
           j == next - from
<1>1. /\ n \in Nat /\ Len(msgs) = n + 2 /\ \A k \in 1 .. (n + 2) : msgs[k].seq = k - 1
      /\ \A k \in 1 .. n : msgs[k + 1].update = InOrder(Contents(orders))[k]
      /\ msgs[n + 2].update.last = last /\ Len(L) \in Nat
  BY DEF SnapshotShape
<1>2. m.seq = n + 1 /\ m.update.last = last
  <2>1. n + 2 \in 1 .. (n + 2) /\ (n + 2) - 1 = n + 1 /\ m = msgs[n + 2]
    BY <1>1
  <2> HIDE DEF n
  <2> QED BY <2>1, <1>1
<1>3. orders \in Books /\ c.book \in Books
  BY LogBooks DEF ConsumerOK, Consumer
<1>4. /\ DOMAIN queue = 0 .. (seq - 1)
      /\ from \in 1 .. (Len(L) + 1) /\ next \in from .. (Len(L) + 1)
      /\ from .. (next - 1) \subseteq DOMAIN c.incremental_queued_msgs_
      /\ r.book = ApplyAll(c.book, e)
  BY <1>2 DEF Recovers
<1>5. ASSUME NEW k \in 1 .. n PROVE queue[k] = InOrder(Contents(orders))[k]
  <2>1. 0 \in DOMAIN queue /\ k \in DOMAIN queue
    BY <1>1, <1>4
  <2>2. queue[k] = msgs[k + 1].update
    BY <2>1 DEF FirstOf
  <2> QED BY <2>2, <1>1
<1>6. /\ Len(e) = n + j /\ \A k \in 1 .. n : e[k] = queue[k]
      /\ \A k \in 1 .. j : e[n + k] = L[from + k - 1]
  <2> HIDE DEF n
  <2>1. seq \in Nat \ {0} /\ from \in Nat \ {0} /\ seq - 1 = n
    BY <1>1
  <2> HIDE DEF seq, from, next
  <2>2. /\ DOMAIN c.snapshot_queued_msgs_ = 0 .. (seq - 1) /\ next \in from .. (Len(L) + 1)
        /\ from .. (next - 1) \subseteq DOMAIN c.incremental_queued_msgs_
    BY <1>4
  <2>3. /\ Len(Events(c, seq, from, next)) = (seq - 1) + (next - from)
        /\ \A k \in 1 .. (seq - 1) : Events(c, seq, from, next)[k] = c.snapshot_queued_msgs_[k]
        /\ \A k \in 1 .. (next - from) : Events(c, seq, from, next)[(seq - 1) + k] = L[from + k - 1]
    <3>1. EventsAre(L, c, seq, from, next)
      BY <2>1, <2>2, EventsFacts
    <3> QED BY <3>1 DEF EventsAre
  <2> QED BY <2>1, <2>3
<1>7. j \in Nat /\ last + j = next - 1 /\ last + j <= Len(L) /\ \A k \in 1 .. j : from + k - 1 = last + k
  <2>1. /\ last \in Nat /\ Len(L) \in Nat /\ from = last + 1 /\ j = next - from
        /\ next \in from .. (Len(L) + 1)
    BY <1>1, <1>4
  <2> HIDE DEF n, next, from, j
  <2> QED BY <2>1
<1> HIDE DEF e, j, next, from, seq, queue
<1>8. Len(e) \in Nat /\ n <= Len(e) /\ n + j <= Len(e)
  BY <1>1, <1>6, <1>7
<1>9. Replay(c.book, e)[n] = orders
  <2>1. \A k \in 1 .. n : e[k] = InOrder(Contents(orders))[k]
    BY <1>5, <1>6
  <2> QED BY <2>1, <1>3, <1>8, SnapshotReplay
<1>10. Replay(c.book, e)[n + j] = Replay(Empty, L)[last + j]
  <2> HIDE DEF n
  <2> DEFINE none == Empty
             b == c.book
  <2>1. /\ Replay(b, e)[n] = Replay(none, L)[last]
        /\ SameUpdates(e, n, L, last, j)
    BY <1>6, <1>7, <1>9 DEF SameUpdates
  <2>2. last \in Nat /\ n \in Nat /\ j \in Nat /\ Len(L) \in Nat /\ last + j <= Len(L)
    BY <1>1, <1>7
  <2> HIDE DEF none, b
  <2>3. Replay(b, e)[n + j] = Replay(none, L)[last + j]
    BY <2>1, <2>2, <1>8, ReplaySame DEF SameBook
  <2> QED BY <2>3 DEF none, b
<1>11. r.book = Replay(c.book, e)[n + j]
  BY <1>4, <1>6 DEF ApplyAll
<1> QED BY <1>7, <1>10, <1>11 DEF next

LEMMA OnlyLastEnds ==
  ASSUME NEW orders \in Books, NEW last \in Nat, NEW msgs, SnapshotShape(orders, last, msgs),
         NEW k \in 1 .. Len(msgs), IsEnd(msgs[k].update)
  PROVE  k = Len(msgs)
<1> DEFINE n == Cardinality(Contents(orders))
<1>1. /\ n \in Nat /\ Len(msgs) = n + 2 /\ IsStart(msgs[1].update)
      /\ \A i \in 1 .. n : msgs[i + 1].update = InOrder(Contents(orders))[i]
  BY DEF SnapshotShape
<1> SUFFICES ASSUME k # Len(msgs) PROVE FALSE
  OBVIOUS
<1>2. k # 1
  BY <1>1 DEF IsStart, IsEnd
<1>3. k - 1 \in 1 .. n /\ (k - 1) + 1 = k
  <2> HIDE DEF n
  <2> QED BY <1>1, <1>2
<1>4. msgs[k].update \in Contents(orders)
  BY <1>1, <1>3, InOrderFacts
<1> QED BY <1>4, ContentFacts

\* Reading the next part of a snapshot, after its first p messages.
LEMMA SnapshotPart ==
  ASSUME NEW L \in Seq(MarketUpdates), NEW last \in 0 .. Len(L),
         NEW orders, orders = Replay(Empty, L)[last],
         NEW msgs, SnapshotShape(orders, last, msgs),
         NEW p \in 0 .. Len(msgs), NEW q \in p .. Len(msgs),
         NEW c, ConsumerOK(L, c), c.in_recovery_, FirstOf(msgs, c.snapshot_queued_msgs_, p),
         NEW d, d = SubSeq(msgs, p + 1, q)
  PROVE  /\ FirstOf(msgs, OnMessages(c, TRUE, d).snapshot_queued_msgs_, q)
         /\ Exact(L, OnMessages(c, TRUE, d))
<1> DEFINE r == OnMessages(c, TRUE, d)
           n == q - p
<1>1. orders \in Books /\ Len(L) \in Nat /\ Len(msgs) \in Nat /\ last \in Nat
  BY LogBooks DEF SnapshotShape
<1>2. /\ d \in Seq(Messages(SnapshotUpdates)) /\ Len(d) = n
      /\ \A k \in 1 .. n : d[k] = msgs[p + k]
      /\ SnapshotDatagram(L, d)
  <2>1. PartOf(L, msgs, p, q, SubSeq(msgs, p + 1, q))
    BY <1>1, DatagramFacts
  <2>2. PartOf(L, msgs, p, q, d)
    BY <2>1
  <2> QED BY <2>2 DEF PartOf
<1>3. PICK read : SnapshotLoop(L, c, d, read) /\ r = read[Len(d)]
  BY <1>2, OnSnapshots
<1>4. n \in Nat /\ p + n = q /\ p \in Nat
  BY <1>1
<1> HIDE DEF r, n
<1>5. /\ read[0] = c /\ r = read[n]
      /\ \A k \in 0 .. (n - 1) : ConsumerOK(L, read[k]) /\ StillWaits(c, read[k])
      /\ \A k \in 1 .. n : SnapshotRead(L, read[k - 1], d[k], read[k])
  BY <1>2, <1>3 DEF SnapshotLoop
<1> DEFINE T == {k \in 0 .. n : FirstOf(msgs, read[k].snapshot_queued_msgs_, p + k)}
<1>6. 0 \in T
  <2>1. p + 0 = p /\ 0 \in 0 .. n
    BY <1>4
  <2> QED BY <2>1, <1>5
<1>7. \A k \in 1 .. n : d[k].seq = (p + k) - 1 /\ d[k].update = msgs[p + k].update
  <2> SUFFICES ASSUME NEW k \in 1 .. n
               PROVE  d[k].seq = (p + k) - 1 /\ d[k].update = msgs[p + k].update
    OBVIOUS
  <2>1. p + k \in 1 .. Len(msgs)
    BY <1>1, <1>4
  <2>2. msgs[p + k].seq = (p + k) - 1
    BY <2>1 DEF SnapshotShape
  <2> QED BY <2>2, <1>2
<1>8. ASSUME NEW k \in 1 .. n, k - 1 \in T PROVE k \in T
  <2> DEFINE a == read[k - 1]
             b == read[k]
             m == d[k]
             old == a.snapshot_queued_msgs_
             new == b.snapshot_queued_msgs_
             i == p + k
  <2>1. SnapshotRead(L, a, m, b)
    BY <1>5
  <2>2. m.seq = i - 1 /\ m.update = msgs[i].update
    BY <1>7
  <2>3. i \in Nat \ {0} /\ p + (k - 1) = i - 1
    BY <1>4
  <2>4. FirstOf(msgs, old, i - 1)
    BY <1>8, <2>3
  <2>5. FirstOf(msgs, new, i)
    <3> HIDE DEF i, m, a, b
    <3>1. CASE DOMAIN new = {}
      BY <3>1 DEF FirstOf
    <3>2. CASE KeepsMessage(a, m, b)
      <4>1. /\ DOMAIN new = 0 .. (i - 1) /\ new[i - 1] = m.update
            /\ \/ i - 1 = 0
               \/ DOMAIN old = 0 .. ((i - 1) - 1) /\ \A s \in 0 .. ((i - 1) - 1) : new[s] = old[s]
        BY <3>2, <2>2 DEF KeepsMessage
      <4> HIDE DEF new, old
      <4>2. ASSUME NEW s \in 0 .. (i - 1) PROVE new[s] = msgs[s + 1].update
        <5>1. CASE s = i - 1
          <6>1. s + 1 = i
            BY <5>1, <2>3
          <6> QED BY <6>1, <5>1, <4>1, <2>2
        <5>2. CASE s # i - 1
          <6>1. s \in 0 .. ((i - 1) - 1) /\ i - 1 # 0
            BY <5>2, <2>3
          <6>2. s \in DOMAIN old /\ new[s] = old[s]
            BY <6>1, <4>1
          <6>3. old[s] = msgs[s + 1].update
            BY <6>2, <2>4 DEF FirstOf
          <6> QED BY <6>2, <6>3
        <5> QED BY <5>1, <5>2
      <4> QED BY <4>1, <4>2 DEF FirstOf
    <3> QED BY <3>1, <3>2, <2>1 DEF SnapshotRead, Recovers
  <2> QED BY <2>5, <1>4
<1> HIDE DEF T
<1>9. \A k \in 0 .. n : k \in T
  <2>1. \A k \in 1 .. n : k - 1 \in T => k \in T
    BY <1>8
  <2> QED BY <1>4, <1>6, <2>1, UpTo
<1>10. FirstOf(msgs, r.snapshot_queued_msgs_, q)
  <2>1. n \in T
    BY <1>4, <1>9
  <2> QED BY <2>1, <1>4, <1>5 DEF T
<1>11. ASSUME ~r.in_recovery_
       PROVE  r.book = Replay(Empty, L)[r.next_exp_inc_seq_num_ - 1]
  <2> DEFINE a == read[n - 1]
             m == d[n]
  <2>1. n # 0
    BY <1>5, <1>11
  <2>2. n \in 1 .. n /\ n - 1 \in 0 .. (n - 1) /\ n - 1 \in 0 .. n /\ p + (n - 1) = q - 1 /\ q \in 1 .. Len(msgs)
    BY <2>1, <1>1, <1>4
  <2>3. SnapshotRead(L, a, m, r) /\ ConsumerOK(L, a)
    BY <2>2, <1>5
  <2>4. FirstOf(msgs, a.snapshot_queued_msgs_, q - 1)
    BY <2>2, <1>9 DEF T
  <2>5. m = msgs[q]
    BY <2>2, <1>2, <1>4
  <2> HIDE DEF a, m
  <2>6. Recovers(L, a, m, r)
    BY <2>3, <1>11 DEF SnapshotRead, StaysIn
  <2>7. q = Len(msgs)
    <3>1. IsEnd(msgs[q].update)
      BY <2>5, <2>6 DEF Recovers
    <3> QED BY <3>1, <2>2, <1>1, OnlyLastEnds
  <2>8. FirstOf(msgs, a.snapshot_queued_msgs_, Len(msgs) - 1) /\ m = msgs[Len(msgs)]
    BY <2>4, <2>5, <2>7
  <2> QED BY <2>3, <2>6, <2>8, RecoveryIsExact
<1>12. Exact(L, r)
  BY <1>11 DEF Exact
<1> QED BY <1>10, <1>12 DEF r

(***************************************************************************)
(* What holds of a log holds of it when an update is added.                *)
(***************************************************************************)
LEMMA LogGrows ==
  ASSUME NEW L \in Seq(MarketUpdates), NEW u \in MarketUpdates, NEW M, M = Append(L, u)
  PROVE  /\ M \in Seq(MarketUpdates) /\ Len(L) \in Nat /\ Len(M) = Len(L) + 1
         /\ \A n \in 1 .. Len(L) : M[n] = L[n]
         /\ \A n \in 0 .. Len(L) : Replay(Empty, M)[n] = Replay(Empty, L)[n]
<1>1. /\ M \in Seq(MarketUpdates) /\ Len(L) \in Nat /\ Len(M) = Len(L) + 1
      /\ \A n \in 1 .. Len(L) : M[n] = L[n]
  OBVIOUS
<1> DEFINE none == Empty
<1> HIDE DEF none
<1>2. ASSUME NEW n \in 0 .. Len(L) PROVE Replay(none, M)[n] = Replay(none, L)[n]
  <2>1. Replay(none, M)[0] = Replay(none, L)[0]
    BY <1>1, ReplayFacts
  <2>2. \A k \in 1 .. n : k \in 1 .. Len(L) /\ 0 + k = k
    BY <1>1
  <2>3. SameUpdates(M, 0, L, 0, n)
    BY <1>1, <2>2 DEF SameUpdates
  <2>4. n \in Nat /\ 0 + n = n /\ 0 + n <= Len(M) /\ 0 + n <= Len(L) /\ Len(M) \in Nat
    BY <1>1
  <2>5. SameBook(none, M, 0, none, L, 0, n)
    BY <1>1, <2>1, <2>3, <2>4, ReplaySame
  <2> QED BY <2>4, <2>5 DEF SameBook
<1> QED BY <1>1, <1>2 DEF none

LEMMA GrowKeeps ==
  ASSUME NEW L \in Seq(MarketUpdates), NEW u \in MarketUpdates, NEW M, M = Append(L, u)
  PROVE  /\ \A net : IncrementalNet(L, net) => IncrementalNet(M, net)
         /\ \A net : SnapshotNet(L, net) => SnapshotNet(M, net)
         /\ \A c : ConsumerOK(L, c) => ConsumerOK(M, c)
<1>1. /\ M \in Seq(MarketUpdates) /\ Len(L) \in Nat /\ Len(M) = Len(L) + 1
      /\ \A n \in 1 .. Len(L) : M[n] = L[n]
  BY LogGrows
<1>2. ASSUME NEW m, FromLog(L, m) PROVE FromLog(M, m)
  BY <1>1, <1>2 DEF FromLog
<1>3. ASSUME NEW v, v \in SnapshotUpdates, NotNewer(L, v) PROVE NotNewer(M, v)
  <2>1. IsStart(v) \/ IsEnd(v) => v.last \in Nat
    BY <1>3, SnapshotUpdateFacts DEF IsUpdate, IsStart, IsEnd
  <2> QED BY <2>1, <1>1, <1>3 DEF NotNewer
<1>4. ASSUME NEW m, SnapshotMessage(L, m) PROVE SnapshotMessage(M, m)
  <2>1. m.update \in SnapshotUpdates
    BY <1>4 DEF SnapshotMessage, Messages
  <2> QED BY <2>1, <1>3, <1>4 DEF SnapshotMessage
<1>5. ASSUME NEW d, SnapshotDatagram(L, d) PROVE SnapshotDatagram(M, d)
  BY <1>4, <1>5 DEF SnapshotDatagram
<1>6. ASSUME NEW net, IncrementalNet(L, net) PROVE IncrementalNet(M, net)
  BY <1>2, <1>6 DEF IncrementalNet
<1>7. ASSUME NEW net, SnapshotNet(L, net) PROVE SnapshotNet(M, net)
  BY <1>5, <1>7 DEF SnapshotNet
<1>8. ASSUME NEW c, ConsumerOK(L, c) PROVE ConsumerOK(M, c)
  <2> DEFINE snapshot == c.snapshot_queued_msgs_
             queued == c.incremental_queued_msgs_
  <2>1. /\ c \in Consumer /\ c.next_exp_inc_seq_num_ \in 1 .. (Len(L) + 1)
        /\ QueuedFromLog(L, queued) /\ FirstOnes(L, snapshot)
    BY <1>8 DEF ConsumerOK
  <2>2. snapshot \in [DOMAIN snapshot -> SnapshotUpdates]
    <3>1. snapshot \in Maps(SnapshotUpdates)
      BY <2>1 DEF Consumer
    <3> QED BY <3>1, MapFacts
  <2> HIDE DEF snapshot, queued
  <2>3. QueuedFromLog(M, queued)
    BY <2>1, <1>1 DEF QueuedFromLog
  <2>4. FirstOnes(M, snapshot)
    <3>1. PICK k \in Nat : /\ DOMAIN snapshot = 0 .. (k - 1)
                           /\ \A s \in 0 .. (k - 1) : /\ NotNewer(L, snapshot[s]) /\ ~IsEnd(snapshot[s])
                                                      /\ IsStart(snapshot[s]) <=> s = 0
      BY <2>1 DEF FirstOnes
    <3>2. ASSUME NEW s \in 0 .. (k - 1) PROVE NotNewer(M, snapshot[s])
      <4>1. snapshot[s] \in SnapshotUpdates
        BY <3>1, <2>2
      <4> QED BY <4>1, <3>1, <1>3
    <3> QED BY <3>1, <3>2 DEF FirstOnes
  <2>5. c.next_exp_inc_seq_num_ \in 1 .. (Len(M) + 1)
    BY <2>1, <1>1
  <2> QED BY <2>1, <2>3, <2>4, <2>5 DEF ConsumerOK, snapshot, queued
<1> QED BY <1>6, <1>7, <1>8

\* Datagrams that are put into the network and taken out of it.
LEMMA IncrementalNetFacts ==
  ASSUME NEW L, NEW net, IncrementalNet(L, net)
  PROVE  /\ \A d \in Seq(Messages(MarketUpdates)) :
              (\A k \in 1 .. Len(d) : FromLog(L, d[k])) => IncrementalNet(L, Append(net, d))
         /\ net # << >> => /\ IncrementalNet(L, Tail(net)) /\ Head(net) \in Seq(Messages(MarketUpdates))
                           /\ \A k \in 1 .. Len(Head(net)) : FromLog(L, Head(net)[k])
<1> DEFINE S == Seq(Messages(MarketUpdates))
<1>1. net \in Seq(S) /\ \A i \in 1 .. Len(net) : \A k \in 1 .. Len(net[i]) : FromLog(L, net[i][k])
  BY DEF IncrementalNet
<1>2. ASSUME NEW d \in S, \A k \in 1 .. Len(d) : FromLog(L, d[k])
      PROVE  IncrementalNet(L, Append(net, d))
  <2> DEFINE new == Append(net, d)
  <2>1. /\ new \in Seq(S) /\ Len(new) = Len(net) + 1 /\ new[Len(net) + 1] = d
        /\ \A i \in 1 .. Len(net) : new[i] = net[i]
    <3> HIDE DEF S
    <3> QED BY <1>1
  <2> HIDE DEF new
  <2>2. ASSUME NEW i \in 1 .. Len(new), NEW k \in 1 .. Len(new[i]) PROVE FromLog(L, new[i][k])
    <3>1. i \in 1 .. Len(net) \/ i = Len(net) + 1
      BY <2>1, <1>1
    <3> QED BY <3>1, <2>1, <1>1, <1>2
  <2> QED BY <2>1, <2>2 DEF IncrementalNet, new
<1>3. ASSUME net # << >>
      PROVE  /\ IncrementalNet(L, Tail(net)) /\ Head(net) \in S
             /\ \A k \in 1 .. Len(Head(net)) : FromLog(L, Head(net)[k])
  <2> DEFINE new == Tail(net)
  <2>1. /\ new \in Seq(S) /\ Len(new) = Len(net) - 1 /\ Head(net) = net[1] /\ net[1] \in S
        /\ \A i \in 1 .. Len(new) : new[i] = net[i + 1]
        /\ Len(net) \in Nat \ {0}
    <3> HIDE DEF S
    <3> QED BY <1>1, <1>3
  <2> HIDE DEF new
  <2>2. ASSUME NEW i \in 1 .. Len(new), NEW k \in 1 .. Len(new[i]) PROVE FromLog(L, new[i][k])
    <3>1. i + 1 \in 1 .. Len(net)
      BY <2>1
    <3> QED BY <3>1, <2>1, <1>1
  <2>3. ASSUME NEW k \in 1 .. Len(net[1]) PROVE FromLog(L, net[1][k])
    <3>1. 1 \in 1 .. Len(net)
      BY <2>1
    <3> QED BY <3>1, <1>1
  <2> QED BY <2>1, <2>2, <2>3 DEF IncrementalNet, new
<1> QED BY <1>2, <1>3

LEMMA SnapshotNetFacts ==
  ASSUME NEW L, NEW net, SnapshotNet(L, net)
  PROVE  /\ \A d \in Seq(Messages(SnapshotUpdates)) :
              SnapshotDatagram(L, d) => SnapshotNet(L, Append(net, d))
         /\ net # << >> => /\ SnapshotNet(L, Tail(net)) /\ SnapshotDatagram(L, Head(net))
                           /\ Head(net) \in Seq(Messages(SnapshotUpdates))
<1> DEFINE S == Seq(Messages(SnapshotUpdates))
<1>1. net \in Seq(S) /\ \A i \in 1 .. Len(net) : SnapshotDatagram(L, net[i])
  BY DEF SnapshotNet
<1>2. ASSUME NEW d \in S, SnapshotDatagram(L, d) PROVE SnapshotNet(L, Append(net, d))
  <2> DEFINE new == Append(net, d)
  <2>1. /\ new \in Seq(S) /\ Len(new) = Len(net) + 1 /\ new[Len(net) + 1] = d
        /\ \A i \in 1 .. Len(net) : new[i] = net[i]
    <3> HIDE DEF S
    <3> QED BY <1>1
  <2> HIDE DEF new
  <2>2. ASSUME NEW i \in 1 .. Len(new) PROVE SnapshotDatagram(L, new[i])
    <3>1. i \in 1 .. Len(net) \/ i = Len(net) + 1
      BY <2>1, <1>1
    <3> QED BY <3>1, <2>1, <1>1, <1>2
  <2> QED BY <2>1, <2>2 DEF SnapshotNet, new
<1>3. ASSUME net # << >>
      PROVE  SnapshotNet(L, Tail(net)) /\ SnapshotDatagram(L, Head(net)) /\ Head(net) \in S
  <2> DEFINE new == Tail(net)
  <2>1. /\ new \in Seq(S) /\ Len(new) = Len(net) - 1 /\ Head(net) = net[1] /\ net[1] \in S
        /\ \A i \in 1 .. Len(new) : new[i] = net[i + 1]
        /\ Len(net) \in Nat \ {0}
    <3> HIDE DEF S
    <3> QED BY <1>1, <1>3
  <2> HIDE DEF new
  <2>2. ASSUME NEW i \in 1 .. Len(new) PROVE SnapshotDatagram(L, new[i])
    <3>1. i + 1 \in 1 .. Len(net)
      BY <2>1
    <3> QED BY <3>1, <2>1, <1>1
  <2>3. SnapshotDatagram(L, net[1])
    <3>1. 1 \in 1 .. Len(net)
      BY <2>1
    <3> QED BY <3>1, <1>1
  <2> QED BY <2>1, <2>2, <2>3 DEF SnapshotNet, new
<1> QED BY <1>2, <1>3

(***************************************************************************)
(* The invariant.                                                          *)
(***************************************************************************)
LEMMA BookAtFacts ==
  ASSUME LogTypes
  PROVE  /\ Len(log) \in Nat /\ BookAt(0) = Empty /\ ticker_orders_ \in Books
         /\ \A n \in 0 .. Len(log) : BookAt(n) \in Books
         /\ \A n \in 1 .. Len(log) : BookAt(n) = Apply(BookAt(n - 1), log[n])
<1>1. log \in Seq(MarketUpdates) /\ Len(log) \in Nat
  BY DEF LogTypes
<1>2. \A n \in 0 .. Len(log) : BookAt(n) \in Books
  BY <1>1, LogBooks DEF BookAt
<1>3. /\ Replay(Empty, log)[0] = Empty
      /\ \A n \in 1 .. Len(log) : Replay(Empty, log)[n] = Apply(Replay(Empty, log)[n - 1], log[n])
  <2> DEFINE none == Empty
  <2> HIDE DEF none
  <2>1. /\ Replay(none, log)[0] = none
        /\ \A n \in 1 .. Len(log) : Replay(none, log)[n] = Apply(Replay(none, log)[n - 1], log[n])
    BY <1>1, ReplayFacts
  <2> QED BY <2>1 DEF none
<1>4. ticker_orders_ \in Books
  BY <1>2 DEF LogTypes
<1> QED BY <1>1, <1>2, <1>3, <1>4 DEF BookAt

LEMMA ShapeNow ==
  ASSUME LogTypes
  PROVE  LET msgs == SnapshotMsgs(ticker_orders_, last_inc_seq_num_)
         IN  SnapshotShape(ticker_orders_, last_inc_seq_num_, msgs) /\ Len(msgs) \in Nat \ {0}
<1>1. ticker_orders_ \in Books /\ last_inc_seq_num_ \in Nat
  BY BookAtFacts DEF LogTypes
<1>2. SnapshotShape(ticker_orders_, last_inc_seq_num_, SnapshotMsgs(ticker_orders_, last_inc_seq_num_))
  BY <1>1, SnapshotMsgsShape
<1> QED BY <1>2 DEF SnapshotShape

LEMMA InitInv == Init => Inv
<1> SUFFICES ASSUME Init PROVE Inv
  OBVIOUS
<1>1. LogTypes
  <2>1. log = << >> /\ flushed = 0 /\ ticker_orders_ = Empty /\ last_inc_seq_num_ = 0
    BY DEF Init
  <2>2. log \in Seq(MarketUpdates) /\ Len(log) = 0 /\ MaxUpdates \in Nat
    BY <2>1, BoundAssumption
  <2>3. Replay(Empty, log)[0] = Empty
    <3> DEFINE none == Empty
    <3> HIDE DEF none
    <3>1. Len(log) \in Nat
      BY <2>2
    <3>2. Replay(none, log)[0] = none
      BY <3>1, ReplayFacts
    <3> QED BY <3>2 DEF none
  <2> QED BY <2>1, <2>2, <2>3 DEF LogTypes, BookAt
<1>2. CycleOK
  <2>1. cycle = 0 /\ Len(SnapshotMsgs(ticker_orders_, last_inc_seq_num_)) \in Nat
    BY <1>1, ShapeNow DEF Init
  <2> QED BY <2>1 DEF CycleOK
<1>3. IncrementalNet(log, inc_net) /\ SnapshotNet(log, snap_net)
  BY DEF Init, IncrementalNet, SnapshotNet
<1>4. ConsumerOK(log, cons) /\ DOMAIN cons.snapshot_queued_msgs_ = {}
  <2> DEFINE none == Empty
  <2>1. /\ DOMAIN none = {} /\ none \in Maps(SnapshotUpdates) /\ none \in Maps(MarketUpdates)
        /\ QueuedFromLog(log, none) /\ FirstOnes(log, none) /\ none \in Books
    BY EmptyOK, EmptyFacts
  <2>2. cons = [in_recovery_ |-> FALSE, next_exp_inc_seq_num_ |-> 1,
                snapshot_queued_msgs_ |-> none, incremental_queued_msgs_ |-> none, book |-> none]
    BY DEF Init
  <2>3. 1 \in 1 .. (Len(log) + 1)
    BY DEF Init
  <2> HIDE DEF none
  <2>4. /\ cons \in Consumer /\ cons.snapshot_queued_msgs_ = none
        /\ cons.incremental_queued_msgs_ = none /\ cons.next_exp_inc_seq_num_ = 1
    BY <2>1, <2>2 DEF Consumer
  <2> QED BY <2>1, <2>3, <2>4 DEF ConsumerOK
<1>5. NoSnapshot(cons, snap_net)
  BY <1>4 DEF Init, NoSnapshot
<1> QED BY <1>1, <1>2, <1>3, <1>4, <1>5 DEF Inv

LEMMA UpdatesAreTyped == ASSUME LogTypes PROVE Updates \subseteq MarketUpdates
<1> DEFINE book == BookAt(Len(log))
<1>1. book \in Books
  BY BookAtFacts
<1>2. DOMAIN book \subseteq Orders
  BY <1>1, BookFacts
<1> HIDE DEF book
<1> DEFINE A == {Add(o, q) : o \in Orders \ Used, q \in Qtys}
           M == UNION {{Modify(o, q) : q \in {x \in Qtys : x < book[o]}} : o \in DOMAIN book}
           C == {Cancel(o) : o \in DOMAIN book}
           T == {Trade(t) : t \in Tickers}
<1>3. Updates = A \cup M \cup C \cup T
  BY DEF Updates, book
<1>4. ASSUME NEW u \in Updates PROVE u \in MarketUpdates
  <2>1. CASE u \in A
    BY <2>1 DEF MarketUpdates, Adds
  <2>2. CASE u \in M
    <3>1. PICK o \in DOMAIN book, q \in Qtys : u = Modify(o, q)
      BY <2>2
    <3> QED BY <3>1, <1>2 DEF MarketUpdates
  <2>3. CASE u \in C
    BY <2>3, <1>2 DEF MarketUpdates
  <2>4. CASE u \in T
    BY <2>4 DEF MarketUpdates
  <2> HIDE DEF A, M, C, T
  <2> QED BY <2>1, <2>2, <2>3, <2>4, <1>3
<1> QED BY <1>4

LEMMA PublishUpdateKeeps ==
  ASSUME Inv, Len(log) < MaxUpdates, NEW u \in Updates, PublishUpdate(u)
  PROVE  Inv'
<1>1. /\ log \in Seq(MarketUpdates) /\ u \in MarketUpdates /\ log' = Append(log, u)
      /\ UNCHANGED <<flushed, inc_net, ticker_orders_, last_inc_seq_num_, cycle, snap_net, cons>>
  BY UpdatesAreTyped DEF Inv, LogTypes, PublishUpdate
<1>2. /\ log' \in Seq(MarketUpdates) /\ Len(log) \in Nat /\ Len(log') = Len(log) + 1
      /\ \A n \in 0 .. Len(log) : Replay(Empty, log')[n] = Replay(Empty, log)[n]
  BY <1>1, LogGrows
<1>3. LogTypes'
  <2>1. /\ flushed \in 0 .. Len(log) /\ last_inc_seq_num_ \in 0 .. Len(log)
        /\ ticker_orders_ = Replay(Empty, log)[last_inc_seq_num_] /\ MaxUpdates \in Nat
    BY BoundAssumption DEF Inv, LogTypes, BookAt
  <2>2. /\ flushed' \in 0 .. Len(log') /\ last_inc_seq_num_' \in 0 .. Len(log')
        /\ Len(log') <= MaxUpdates
    BY <1>1, <1>2, <2>1
  <2>3. ticker_orders_' = Replay(Empty, log')[last_inc_seq_num_']
    BY <1>1, <1>2, <2>1
  <2> QED BY <1>2, <2>2, <2>3 DEF LogTypes, BookAt
<1>4. CycleOK'
  BY <1>1 DEF Inv, CycleOK
<1>5. IncrementalNet(log', inc_net') /\ SnapshotNet(log', snap_net') /\ ConsumerOK(log', cons')
  <2>1. IncrementalNet(log, inc_net) /\ SnapshotNet(log, snap_net) /\ ConsumerOK(log, cons)
    BY DEF Inv
  <2>2. IncrementalNet(log', inc_net) /\ SnapshotNet(log', snap_net) /\ ConsumerOK(log', cons)
    BY <1>1, <2>1, GrowKeeps
  <2> QED BY <1>1, <2>2
<1>6. NoSnapshot(cons', snap_net')
  BY <1>1 DEF Inv, NoSnapshot
<1> QED BY <1>3, <1>4, <1>5, <1>6 DEF Inv

LEMMA FlushIncrementalKeeps == ASSUME Inv, FlushIncremental PROVE Inv'
<1> DEFINE d == [k \in 1 .. (Len(log) - flushed) |-> [seq |-> flushed + k, update |-> log[flushed + k]]]
           n == Len(log) - flushed
<1>1. /\ flushed < Len(log) /\ flushed' = Len(log)
      /\ UNCHANGED <<log, ticker_orders_, last_inc_seq_num_, cycle, snap_net, cons>>
      /\ inc_net' = inc_net \/ inc_net' = Append(inc_net, d)
  BY DEF FlushIncremental, EmptyBuffer
<1>2. log \in Seq(MarketUpdates) /\ Len(log) \in Nat /\ flushed \in 0 .. Len(log)
  BY DEF Inv, LogTypes
<1>3. n \in Nat
  BY <1>2
<1>4. ASSUME NEW k \in 1 .. n PROVE d[k] \in Messages(MarketUpdates) /\ FromLog(log, d[k])
  <2>1. flushed + k \in 1 .. Len(log)
    BY <1>2
  <2>2. log[flushed + k] \in MarketUpdates
    BY <2>1, <1>2, ElementOfSeq
  <2>3. d[k] = [seq |-> flushed + k, update |-> log[flushed + k]]
    OBVIOUS
  <2> HIDE DEF d, n
  <2> QED BY <2>1, <2>2, <2>3 DEF Messages, FromLog
<1>5. d \in Seq(Messages(MarketUpdates)) /\ Len(d) = n
  <2>1. d \in [1 .. n -> Messages(MarketUpdates)]
    BY <1>4
  <2> HIDE DEF d, n
  <2> QED BY <2>1, <1>3
<1> HIDE DEF d, n
<1>6. IncrementalNet(log, Append(inc_net, d)) /\ IncrementalNet(log, inc_net)
  <2>1. IncrementalNet(log, inc_net)
    BY DEF Inv
  <2> QED BY <2>1, <1>4, <1>5, IncrementalNetFacts
<1>7. IncrementalNet(log', inc_net')
  BY <1>1, <1>6
<1>8. LogTypes' /\ CycleOK' /\ SnapshotNet(log', snap_net') /\ ConsumerOK(log', cons') /\ NoSnapshot(cons', snap_net')
  <2>1. LogTypes'
    BY <1>1, <1>2 DEF Inv, LogTypes, BookAt
  <2> QED BY <2>1, <1>1 DEF Inv, CycleOK, NoSnapshot
<1> QED BY <1>7, <1>8 DEF Inv

LEMMA MisdeliverKeeps == ASSUME Inv, Misdeliver PROVE Inv'
<1>1. /\ inc_net # << >>
      /\ inc_net' = Append(Tail(inc_net), Head(inc_net)) \/ inc_net' = Append(inc_net, Head(inc_net))
      /\ UNCHANGED <<log, flushed, ticker_orders_, last_inc_seq_num_, cycle, snap_net, cons>>
  BY DEF Misdeliver
<1> DEFINE rest == Tail(inc_net)
           d == Head(inc_net)
<1>2. IncrementalNet(log, inc_net)
  BY DEF Inv
<1>3. /\ IncrementalNet(log, rest) /\ d \in Seq(Messages(MarketUpdates))
      /\ \A k \in 1 .. Len(d) : FromLog(log, d[k])
  BY <1>1, <1>2, IncrementalNetFacts
<1> HIDE DEF rest, d
<1>4. IncrementalNet(log, Append(rest, d)) /\ IncrementalNet(log, Append(inc_net, d))
  BY <1>2, <1>3, IncrementalNetFacts
<1>5. IncrementalNet(log', inc_net')
  BY <1>1, <1>4 DEF rest, d
<1>6. LogTypes' /\ CycleOK' /\ SnapshotNet(log', snap_net') /\ ConsumerOK(log', cons') /\ NoSnapshot(cons', snap_net')
  BY <1>1 DEF Inv, LogTypes, BookAt, CycleOK, NoSnapshot
<1> QED BY <1>5, <1>6 DEF Inv

LEMMA AddToSnapshotKeeps == ASSUME Inv, AddToSnapshot PROVE Inv'
<1> DEFINE n == last_inc_seq_num_
<1>1. /\ cycle = 0 /\ n < Len(log) /\ last_inc_seq_num_' = n + 1
      /\ ticker_orders_' = Apply(ticker_orders_, log[n + 1])
      /\ UNCHANGED <<log, flushed, inc_net, cycle, snap_net, cons>>
  BY DEF AddToSnapshot, TakeUpdate
<1>2. LogTypes /\ n \in 0 .. Len(log) /\ Len(log) \in Nat /\ ticker_orders_ = BookAt(n)
  BY DEF Inv, LogTypes
<1>3. BookAt(n + 1) = Apply(BookAt(n), log[n + 1])
  <2>1. n + 1 \in 1 .. Len(log) /\ (n + 1) - 1 = n
    BY <1>1, <1>2
  <2>2. BookAt(n + 1) = Apply(BookAt((n + 1) - 1), log[n + 1])
    BY <2>1, <1>2, BookAtFacts
  <2> QED BY <2>1, <2>2
<1>4. /\ last_inc_seq_num_' \in 0 .. Len(log) /\ last_inc_seq_num_' \in Nat
      /\ ticker_orders_' = Replay(Empty, log)[n + 1]
  BY <1>1, <1>2, <1>3 DEF BookAt
<1>5. LogTypes'
  BY <1>1, <1>2, <1>4 DEF LogTypes, BookAt
<1>6. CycleOK'
  <2>1. ticker_orders_' \in Books
    <3>1. BookAt(n + 1) \in Books
      BY <1>1, <1>2, <1>4, BookAtFacts
    <3> QED BY <3>1, <1>4 DEF BookAt
  <2>2. SnapshotShape(ticker_orders_', last_inc_seq_num_', SnapshotMsgs(ticker_orders_', last_inc_seq_num_'))
    BY <1>4, <2>1, SnapshotMsgsShape
  <2>3. Len(SnapshotMsgs(ticker_orders_', last_inc_seq_num_')) \in Nat /\ cycle' = 0
    BY <2>2, <1>1 DEF SnapshotShape
  <2> QED BY <2>3 DEF CycleOK
<1>7. /\ IncrementalNet(log', inc_net') /\ SnapshotNet(log', snap_net')
      /\ ConsumerOK(log', cons') /\ NoSnapshot(cons', snap_net')
  BY <1>1 DEF Inv, NoSnapshot
<1> QED BY <1>5, <1>6, <1>7 DEF Inv

LEMMA PublishSnapshotKeeps == ASSUME Inv, PublishSnapshot PROVE Inv'
<1>1. /\ cycle' = 1
      /\ UNCHANGED <<log, flushed, inc_net, ticker_orders_, last_inc_seq_num_, snap_net, cons>>
  BY DEF PublishSnapshot, StartCycle
<1>2. Len(SnapshotMsgs(ticker_orders_, last_inc_seq_num_)) \in Nat \ {0}
  BY ShapeNow DEF Inv
<1>3. CycleOK'
  BY <1>1, <1>2 DEF CycleOK
<1>4. /\ LogTypes' /\ IncrementalNet(log', inc_net') /\ SnapshotNet(log', snap_net')
      /\ ConsumerOK(log', cons') /\ NoSnapshot(cons', snap_net')
  BY <1>1 DEF Inv, LogTypes, BookAt, NoSnapshot
<1> QED BY <1>3, <1>4 DEF Inv

\* The datagram that SendSnapshot sends, and how far it goes.
Sends(msgs, from, end) ==
  /\ from \in 1 .. Len(msgs) /\ end \in from .. Len(msgs)
  /\ cycle = from /\ cycle' = (IF end = Len(msgs) THEN 0 ELSE end + 1)
  /\ \/ cons.in_recovery_ /\ snap_net' = Append(snap_net, SubSeq(msgs, from, end))
     \/ cons.in_recovery_ /\ (tearing \/ torn < MaxTorn) /\ snap_net' = snap_net
     \/ ~cons.in_recovery_ /\ snap_net' = snap_net

LEMMA SendSnapshotSends ==
  ASSUME Inv, SendSnapshot
  PROVE  \E end : Sends(SnapshotMsgs(ticker_orders_, last_inc_seq_num_), cycle, end)
<1> DEFINE msgs == SnapshotMsgs(ticker_orders_, last_inc_seq_num_)
           end == DatagramEnd(msgs, cycle)
<1>1. /\ cycle # 0 /\ cycle' = (IF end = Len(msgs) THEN 0 ELSE end + 1)
      /\ \/ cons.in_recovery_ /\ snap_net' = Append(snap_net, SubSeq(msgs, cycle, end))
         \/ cons.in_recovery_ /\ (tearing \/ torn < MaxTorn) /\ snap_net' = snap_net
         \/ ~cons.in_recovery_ /\ snap_net' = snap_net
  BY DEF SendSnapshot, ContinueCycle
<1>2. LogTypes
  BY DEF Inv
<1>3. SnapshotShape(ticker_orders_, last_inc_seq_num_, msgs) /\ Len(msgs) \in Nat
  BY <1>2, ShapeNow
<1>4. cycle \in 1 .. Len(msgs)
  <2>1. cycle \in 0 .. Len(msgs)
    BY DEF Inv, CycleOK
  <2> HIDE DEF msgs
  <2> QED BY <1>1, <1>3, <2>1
<1>5. ticker_orders_ \in Books /\ last_inc_seq_num_ \in Nat
  BY <1>2, BookAtFacts DEF LogTypes
<1>6. end \in cycle .. Len(msgs)
  <2> HIDE DEF msgs
  <2> QED BY <1>3, <1>4, <1>5, DatagramEndFacts
<1> HIDE DEF end, msgs
<1>7. Sends(msgs, cycle, end)
  BY <1>1, <1>4, <1>6 DEF Sends
<1> QED BY <1>7 DEF msgs

LEMMA SendSnapshotKeeps == ASSUME Inv, SendSnapshot PROVE Inv'
<1> DEFINE msgs == SnapshotMsgs(ticker_orders_, last_inc_seq_num_)
<1>1. PICK end : Sends(msgs, cycle, end)
  BY SendSnapshotSends
<1>2. UNCHANGED <<log, flushed, inc_net, ticker_orders_, last_inc_seq_num_, cons>>
  BY DEF SendSnapshot
<1>3. SnapshotShape(ticker_orders_, last_inc_seq_num_, msgs) /\ Len(msgs) \in Nat
  BY ShapeNow DEF Inv
<1>4. /\ ticker_orders_ \in Books /\ Len(log) \in Nat /\ last_inc_seq_num_ \in 0 .. Len(log)
      /\ last_inc_seq_num_ \in Nat
  BY BookAtFacts DEF Inv, LogTypes
<1>5. CycleOK'
  <2>1. cycle' \in 0 .. Len(msgs)
    <3> HIDE DEF msgs
    <3> QED BY <1>1, <1>3 DEF Sends
  <2> QED BY <2>1, <1>2 DEF CycleOK
<1> DEFINE p == cycle - 1
<1>6. PartOf(log, msgs, p, end, SubSeq(msgs, p + 1, end))
  <2> HIDE DEF msgs
  <2>1. p \in 0 .. Len(msgs) /\ end \in p .. Len(msgs)
    BY <1>1, <1>3 DEF Sends
  <2> HIDE DEF p
  <2> QED BY <1>3, <1>4, <2>1, DatagramFacts
<1>7. p + 1 = cycle
  <2> HIDE DEF msgs
  <2> QED BY <1>1, <1>3 DEF Sends
<1> DEFINE e == SubSeq(msgs, cycle, end)
<1>8. e \in Seq(Messages(SnapshotUpdates)) /\ SnapshotDatagram(log, e)
  <2> HIDE DEF msgs, p
  <2>1. PartOf(log, msgs, p, end, e)
    BY <1>6, <1>7
  <2> HIDE DEF e
  <2> QED BY <2>1 DEF PartOf
<1>9. (snap_net' = Append(snap_net, e) /\ cons.in_recovery_) \/ snap_net' = snap_net
  <2> HIDE DEF msgs
  <2> QED BY <1>1 DEF Sends
<1> HIDE DEF e
<1>10. SnapshotNet(log', snap_net')
  <2>1. SnapshotNet(log, snap_net)
    BY DEF Inv
  <2>2. SnapshotNet(log, Append(snap_net, e))
    BY <1>8, <2>1, SnapshotNetFacts
  <2> QED BY <1>2, <1>9, <2>1, <2>2
<1>11. LogTypes' /\ IncrementalNet(log', inc_net') /\ ConsumerOK(log', cons') /\ NoSnapshot(cons', snap_net')
  BY <1>2, <1>9 DEF Inv, LogTypes, BookAt, NoSnapshot
<1> QED BY <1>5, <1>10, <1>11 DEF Inv

LEMMA ReceiveIncrementalKeeps ==
  ASSUME Inv, ReceiveIncremental
  PROVE  Inv' /\ IncrementalRead(log, cons, cons')
<1> DEFINE d == Head(inc_net)
<1>1. /\ inc_net # << >> /\ inc_net' = Tail(inc_net) /\ cons' = OnMessages(cons, FALSE, d)
      /\ snap_net' = IF cons'.in_recovery_ THEN snap_net ELSE << >>
      /\ UNCHANGED <<log, flushed, ticker_orders_, last_inc_seq_num_, cycle>>
  BY DEF ReceiveIncremental, ReadIncremental, RecvCallback
<1>2. /\ IncrementalNet(log, inc_net) /\ log \in Seq(MarketUpdates) /\ ConsumerOK(log, cons)
      /\ SnapshotNet(log, snap_net) /\ NoSnapshot(cons, snap_net)
  BY DEF Inv, LogTypes
<1>3. /\ IncrementalNet(log, Tail(inc_net)) /\ d \in Seq(Messages(MarketUpdates))
      /\ \A k \in 1 .. Len(d) : FromLog(log, d[k])
  BY <1>1, <1>2, IncrementalNetFacts
<1> HIDE DEF d
<1>4. ConsumerOK(log, cons') /\ IncrementalRead(log, cons, cons')
  <2>1. ConsumerOK(log, OnMessages(cons, FALSE, d)) /\ IncrementalRead(log, cons, OnMessages(cons, FALSE, d))
    BY <1>2, <1>3, OnIncrementals
  <2> QED BY <1>1, <2>1
<1>5. SnapshotNet(log, snap_net')
  <2>1. SnapshotNet(log, << >>)
    BY DEF SnapshotNet
  <2> QED BY <2>1, <1>1, <1>2
<1>6. NoSnapshot(cons', snap_net')
  BY <1>1, <1>2, <1>4 DEF NoSnapshot, IncrementalRead
<1>7. LogTypes' /\ CycleOK'
  BY <1>1 DEF Inv, LogTypes, BookAt, CycleOK
<1> QED BY <1>1, <1>3, <1>4, <1>5, <1>6, <1>7 DEF Inv

LEMMA ReceiveSnapshotKeeps ==
  ASSUME Inv, ReceiveSnapshot
  PROVE  /\ Inv' /\ cons.in_recovery_
         /\ ~cons'.in_recovery_ => \A s \in DOMAIN cons.incremental_queued_msgs_ :
                                     s < cons'.next_exp_inc_seq_num_
<1> DEFINE d == Head(snap_net)
<1>1. /\ snap_net # << >> /\ cons' = OnMessages(cons, TRUE, d)
      /\ snap_net' = IF cons'.in_recovery_ THEN Tail(snap_net) ELSE << >>
      /\ UNCHANGED <<log, flushed, inc_net, ticker_orders_, last_inc_seq_num_, cycle>>
  BY DEF ReceiveSnapshot, ReadSnapshot, RecvCallback
<1>2. /\ IncrementalNet(log, inc_net) /\ log \in Seq(MarketUpdates) /\ ConsumerOK(log, cons)
      /\ SnapshotNet(log, snap_net) /\ NoSnapshot(cons, snap_net)
  BY DEF Inv, LogTypes
<1>3. cons.in_recovery_
  BY <1>1, <1>2 DEF NoSnapshot
<1>4. /\ SnapshotNet(log, Tail(snap_net)) /\ d \in Seq(Messages(SnapshotUpdates))
      /\ SnapshotDatagram(log, d)
  BY <1>1, <1>2, SnapshotNetFacts
<1> HIDE DEF d
<1>5. /\ ConsumerOK(log, cons')
      /\ ~cons'.in_recovery_ => /\ DOMAIN cons'.snapshot_queued_msgs_ = {}
                                /\ \A s \in DOMAIN cons.incremental_queued_msgs_ :
                                     s < cons'.next_exp_inc_seq_num_
  <2> DEFINE r == OnMessages(cons, TRUE, d)
  <2>1. /\ ConsumerOK(log, r)
        /\ ~r.in_recovery_ => /\ DOMAIN r.snapshot_queued_msgs_ = {}
                              /\ \A s \in DOMAIN cons.incremental_queued_msgs_ :
                                   s < r.next_exp_inc_seq_num_
    BY <1>2, <1>3, <1>4, RecoveryEndsWithAll
  <2>2. cons' = r
    BY <1>1
  <2> HIDE DEF r
  <2> QED BY <2>1, <2>2
<1>6. SnapshotNet(log, snap_net')
  <2>1. SnapshotNet(log, << >>)
    BY DEF SnapshotNet
  <2> QED BY <2>1, <1>1, <1>4
<1>7. NoSnapshot(cons', snap_net')
  BY <1>1, <1>5 DEF NoSnapshot
<1>8. LogTypes' /\ CycleOK'
  BY <1>1 DEF Inv, LogTypes, BookAt, CycleOK
<1> QED BY <1>1, <1>2, <1>3, <1>5, <1>6, <1>7, <1>8 DEF Inv

LEMMA StepInv == ASSUME Inv, [Next]_vars PROVE Inv'
<1>1. CASE UNCHANGED vars
  BY <1>1 DEF Inv, LogTypes, BookAt, CycleOK, NoSnapshot, vars
<1>2. ASSUME Len(log) < MaxUpdates, NEW u \in Updates, PublishUpdate(u) PROVE Inv'
  BY <1>2, PublishUpdateKeeps
<1>3. CASE FlushIncremental
  BY <1>3, FlushIncrementalKeeps
<1>4. CASE Misdeliver
  BY <1>4, MisdeliverKeeps
<1>5. CASE AddToSnapshot
  BY <1>5, AddToSnapshotKeeps
<1>6. CASE PublishSnapshot
  BY <1>6, PublishSnapshotKeeps
<1>7. CASE SendSnapshot
  BY <1>7, SendSnapshotKeeps
<1>8. CASE ReceiveIncremental
  BY <1>8, ReceiveIncrementalKeeps
<1>9. CASE ReceiveSnapshot
  BY <1>9, ReceiveSnapshotKeeps
<1> QED BY <1>1, <1>2, <1>3, <1>4, <1>5, <1>6, <1>7, <1>8, <1>9 DEF Next

LEMMA InvTypeOK == ASSUME Inv PROVE TypeOK
<1>1. /\ log \in Seq(MarketUpdates) /\ Len(log) \in Nat /\ Len(log) <= MaxUpdates /\ MaxUpdates \in Nat
      /\ flushed \in 0 .. Len(log) /\ last_inc_seq_num_ \in 0 .. Len(log)
  BY BoundAssumption DEF Inv, LogTypes
<1>2. ticker_orders_ \in Books
  BY BookAtFacts DEF Inv
<1>3. /\ cons \in Consumer /\ cons.next_exp_inc_seq_num_ \in 1 .. (Len(log) + 1)
      /\ \A s \in DOMAIN cons.incremental_queued_msgs_ : s \in 1 .. Len(log)
  BY DEF Inv, ConsumerOK, QueuedFromLog
<1>4. cons.book \in Books /\ cons.in_recovery_ \in BOOLEAN
  BY <1>3 DEF Consumer
<1>5. DOMAIN ticker_orders_ \subseteq Orders /\ DOMAIN cons.book \subseteq Orders
  BY <1>2, <1>4, BookFacts
<1>6. cons.next_exp_inc_seq_num_ \in Numbers
  BY <1>1, <1>3 DEF Numbers
<1>7. ASSUME NEW s \in DOMAIN cons.incremental_queued_msgs_ PROVE s \in Numbers
  <2>1. s \in 1 .. Len(log)
    BY <1>3
  <2> QED BY <1>1, <2>1 DEF Numbers
<1> QED BY <1>1, <1>4, <1>5, <1>6, <1>7 DEF TypeOK

LEMMA SpecInv == Spec => []Inv
<1>1. Init => Inv
  BY InitInv
<1>2. Inv /\ [Next]_vars => Inv'
  BY StepInv
<1> QED BY <1>1, <1>2, PTL DEF Spec

\* The type invariant of the publisher, the synthesizer and the consumer: no number runs
\* ahead of the updates, and the books have only orders.
THEOREM FeedTypeCorrect == Spec => []TypeOK
<1>1. Inv => TypeOK
  BY InvTypeOK
<1> QED BY <1>1, SpecInv, PTL

LEMMA StepKeepsQueued ==
  ASSUME Inv, [Next]_vars, cons.in_recovery_, ~cons'.in_recovery_
  PROVE  \A s \in DOMAIN cons.incremental_queued_msgs_ : s < cons'.next_exp_inc_seq_num_
<1>1. cons' # cons
  OBVIOUS
<1>2. CASE ReceiveIncremental
  <2>1. IncrementalRead(log, cons, cons')
    BY <1>2, ReceiveIncrementalKeeps
  <2> QED BY <2>1 DEF IncrementalRead
<1>3. CASE ReceiveSnapshot
  BY <1>3, ReceiveSnapshotKeeps
<1>4. ASSUME ~ReceiveIncremental, ~ReceiveSnapshot PROVE cons' = cons
  BY <1>4 DEF Next, vars, PublishUpdate, FlushIncremental, Misdeliver, AddToSnapshot,
              PublishSnapshot, SendSnapshot
<1> QED BY <1>1, <1>2, <1>3, <1>4

\* checkSnapshotSync() leaves the recovery only if none of the incrementals it has queued is
\* ahead of the number it goes on with, whatever is lost, late, repeated or torn.
THEOREM FeedKeepsQueued == Spec => RecoveryKeepsQueued
<1> DEFINE Kept == cons.in_recovery_ /\ ~cons'.in_recovery_ =>
                     \A s \in DOMAIN cons.incremental_queued_msgs_ : s < cons'.next_exp_inc_seq_num_
<1>1. Inv /\ [Next]_vars => [Kept]_vars
  BY StepKeepsQueued
<1>2. RecoveryKeepsQueued <=> [][Kept]_vars
  BY PTL DEF RecoveryKeepsQueued
<1> HIDE DEF Kept
<1> QED BY <1>1, <1>2, SpecInv, PTL DEF Spec

(***************************************************************************)
(* When no snapshot cycle is torn: the datagrams under way.                *)
(***************************************************************************)
LEMMA SnapshotHasShape ==
  ASSUME NEW L \in Seq(MarketUpdates), NEW n \in 0 .. Len(L)
  PROVE  /\ SnapshotShape(Replay(Empty, L)[n], n, Snapshot(L, n))
         /\ Len(Snapshot(L, n)) \in Nat \ {0}
<1>1. Replay(Empty, L)[n] \in Books /\ n \in Nat
  BY LogBooks
<1>2. SnapshotShape(Replay(Empty, L)[n], n, Snapshot(L, n))
  BY <1>1, SnapshotMsgsShape DEF Snapshot
<1> QED BY <1>2 DEF SnapshotShape

LEMMA SequelAlone ==
  ASSUME NEW msgs, Len(msgs) \in Nat, NEW queue, DOMAIN queue = {}, NEW end \in 0 .. Len(msgs),
         NEW net, net = << >>
  PROVE  \E pos : Sequel(msgs, queue, net, pos, end)
<1> DEFINE pos == [i \in 1 .. 1 |-> end]
<1>1. Len(net) = 0 /\ 0 + 1 = 1
  OBVIOUS
<1>2. pos \in [1 .. (0 + 1) -> 0 .. Len(msgs)] /\ pos[0 + 1] = end
  OBVIOUS
<1> HIDE DEF pos
<1>3. Sequel(msgs, queue, net, pos, end)
  BY <1>1, <1>2 DEF Sequel, FirstOf
<1> QED BY <1>3

LEMMA SequelAppend ==
  ASSUME NEW msgs, Len(msgs) \in Nat, NEW queue, NEW S, NEW net \in Seq(S), NEW pos, NEW end,
         Sequel(msgs, queue, net, pos, end), NEW q \in end .. Len(msgs),
         SubSeq(msgs, end + 1, q) \in S
  PROVE  \E new : Sequel(msgs, queue, Append(net, SubSeq(msgs, end + 1, q)), new, q)
<1> DEFINE d == SubSeq(msgs, end + 1, q)
           n == Len(net)
           more == Append(net, d)
           new == [i \in 1 .. (n + 2) |-> IF i <= n + 1 THEN pos[i] ELSE q]
<1>1. /\ n \in Nat /\ pos \in [1 .. (n + 1) -> 0 .. Len(msgs)] /\ pos[n + 1] = end
      /\ \A i \in 1 .. n : pos[i] <= pos[i + 1] /\ net[i] = SubSeq(msgs, pos[i] + 1, pos[i + 1])
      /\ FirstOf(msgs, queue, pos[1])
  BY DEF Sequel
<1>2. end \in 0 .. Len(msgs) /\ q \in 0 .. Len(msgs) /\ end <= q
  <2>1. n + 1 \in 1 .. (n + 1)
    BY <1>1
  <2>2. end \in 0 .. Len(msgs)
    BY <2>1, <1>1
  <2> QED BY <2>2
<1>3. d \in S
  OBVIOUS
<1> HIDE DEF d
<1>4. /\ Len(more) = n + 1 /\ more[n + 1] = d /\ \A i \in 1 .. n : more[i] = net[i]
  BY <1>3
<1> HIDE DEF more, n
<1>5. /\ \A i \in 1 .. (n + 1) : new[i] = pos[i] /\ new[i] \in 0 .. Len(msgs)
      /\ new[n + 2] = q
  BY <1>1
<1>6. new \in [1 .. (n + 2) -> 0 .. Len(msgs)]
  BY <1>1, <1>2
<1> HIDE DEF new
<1>7. ASSUME NEW i \in 1 .. (n + 1)
      PROVE  new[i] <= new[i + 1] /\ more[i] = SubSeq(msgs, new[i] + 1, new[i + 1])
  <2>1. CASE i = n + 1
    <3>1. i + 1 = n + 2 /\ i \in 1 .. (n + 1)
      BY <2>1, <1>1
    <3>2. new[i] = end /\ new[i + 1] = q /\ more[i] = d
      BY <2>1, <3>1, <1>1, <1>4, <1>5
    <3> QED BY <3>2, <1>2 DEF d
  <2>2. CASE i # n + 1
    <3>1. i \in 1 .. n /\ i + 1 \in 1 .. (n + 1)
      BY <2>2, <1>1
    <3>2. new[i] = pos[i] /\ new[i + 1] = pos[i + 1] /\ more[i] = net[i]
      BY <3>1, <1>4, <1>5
    <3> QED BY <3>1, <3>2, <1>1
  <2> QED BY <2>1, <2>2
<1>8. 1 \in 1 .. (n + 1) /\ (n + 1) + 1 = n + 2
  BY <1>1
<1>9. FirstOf(msgs, queue, new[1])
  BY <1>1, <1>5, <1>8
<1>10. Sequel(msgs, queue, more, new, q)
  BY <1>4, <1>5, <1>6, <1>7, <1>8, <1>9 DEF Sequel
<1> QED BY <1>10 DEF more, d

LEMMA SequelTail ==
  ASSUME NEW msgs, Len(msgs) \in Nat, NEW queue, NEW S, NEW net \in Seq(S), NEW pos, NEW end,
         Sequel(msgs, queue, net, pos, end), net # << >>,
         NEW other, FirstOf(msgs, other, pos[2])
  PROVE  \E new : Sequel(msgs, other, Tail(net), new, end)
<1> DEFINE n == Len(net)
           rest == Tail(net)
           new == [i \in 1 .. n |-> pos[i + 1]]
<1>1. /\ n \in Nat \ {0} /\ Len(rest) = n - 1 /\ \A i \in 1 .. (n - 1) : rest[i] = net[i + 1]
  OBVIOUS
<1>2. /\ pos \in [1 .. (n + 1) -> 0 .. Len(msgs)] /\ pos[n + 1] = end
      /\ \A i \in 1 .. n : pos[i] <= pos[i + 1] /\ net[i] = SubSeq(msgs, pos[i] + 1, pos[i + 1])
  BY DEF Sequel
<1> HIDE DEF n, rest
<1>3. \A i \in 1 .. n : new[i] = pos[i + 1] /\ new[i] \in 0 .. Len(msgs)
  BY <1>1, <1>2
<1>4. new \in [1 .. n -> 0 .. Len(msgs)]
  BY <1>3
<1> HIDE DEF new
<1>5. ASSUME NEW i \in 1 .. (n - 1)
      PROVE  new[i] <= new[i + 1] /\ rest[i] = SubSeq(msgs, new[i] + 1, new[i + 1])
  <2>1. i \in 1 .. n /\ i + 1 \in 1 .. n
    BY <1>1
  <2>2. new[i] = pos[i + 1] /\ new[i + 1] = pos[(i + 1) + 1] /\ rest[i] = net[i + 1]
    BY <2>1, <1>1, <1>3
  <2> QED BY <2>1, <2>2, <1>2
<1>6. 1 \in 1 .. n /\ n \in 1 .. n /\ (n - 1) + 1 = n /\ 1 + 1 = 2
  BY <1>1
<1>7. new[1] = pos[2] /\ new[n] = end
  BY <1>2, <1>3, <1>6
<1>8. Sequel(msgs, other, rest, new, end)
  BY <1>1, <1>4, <1>5, <1>6, <1>7 DEF Sequel
<1> QED BY <1>8 DEF rest

\* What a snapshot cycle leaves when it has been sent and received: nothing.
LEMMA NothingLeft ==
  ASSUME NEW L \in Seq(MarketUpdates), NEW n \in 0 .. Len(L), NEW c, ConsumerOK(L, c),
         NEW last, NEW net, net = << >>, OfSnapshot(L, n, 0, last, c.snapshot_queued_msgs_, net)
  PROVE  DOMAIN c.snapshot_queued_msgs_ = {}
<1> DEFINE msgs == Snapshot(L, n)
           queue == c.snapshot_queued_msgs_
           m == Len(msgs)
<1>1. PICK pos : Sequel(msgs, queue, net, pos, m)
  BY DEF OfSnapshot, SentSoFar
<1>2. SnapshotShape(Replay(Empty, L)[n], n, msgs) /\ m \in Nat \ {0}
  BY SnapshotHasShape
<1>3. pos[1] = m
  <2>1. Len(net) = 0 /\ 0 + 1 = 1
    OBVIOUS
  <2> HIDE DEF msgs, m
  <2> QED BY <1>1, <2>1 DEF Sequel
<1>4. FirstOf(msgs, queue, m)
  <2> HIDE DEF m
  <2> QED BY <1>1, <1>3 DEF Sequel
<1>5. FirstOnes(L, queue)
  BY DEF ConsumerOK
<1> SUFFICES ASSUME DOMAIN queue # {} PROVE FALSE
  OBVIOUS
<1> HIDE DEF queue
<1>6. IsEnd(msgs[m].update)
  BY <1>2 DEF SnapshotShape
<1> HIDE DEF msgs, m
<1>7. m - 1 \in DOMAIN queue /\ queue[m - 1] = msgs[m].update
  <2>1. m - 1 \in 0 .. (m - 1) /\ (m - 1) + 1 = m
    BY <1>2
  <2> QED BY <2>1, <1>4 DEF FirstOf
<1>8. ~IsEnd(queue[m - 1])
  BY <1>5, <1>7 DEF FirstOnes
<1> QED BY <1>6, <1>7, <1>8

LEMMA InitExact == Init => ExactInv
<1> SUFFICES ASSUME Init PROVE ExactInv
  OBVIOUS
<1>1. Inv
  BY InitInv
<1>2. NothingTorn
  BY DEF Init, NothingTorn
<1>3. ClientBookIsExact
  <2>1. cons.book = Empty /\ cons.next_exp_inc_seq_num_ - 1 = 0
    BY DEF Init
  <2>2. BookAt(0) = Empty
    BY <1>1, BookAtFacts DEF Inv
  <2> QED BY <2>1, <2>2 DEF ClientBookIsExact
<1>4. OneSnapshot
  <2> DEFINE queue == cons.snapshot_queued_msgs_
             msgs == Snapshot(log, 0)
  <2>1. log \in Seq(MarketUpdates) /\ 0 \in 0 .. Len(log) /\ cycle = 0 /\ snap_net = << >>
    BY <1>1 DEF Init, Inv, LogTypes
  <2>2. DOMAIN queue = {}
    BY EmptyFacts DEF Init
  <2>3. Len(msgs) \in Nat /\ Len(msgs) \in 0 .. Len(msgs)
    BY <2>1, SnapshotHasShape
  <2>4. \E pos : Sequel(msgs, queue, snap_net, pos, Len(msgs))
    <3> HIDE DEF msgs, queue
    <3> QED BY <2>1, <2>2, <2>3, SequelAlone
  <2>5. OfSnapshot(log, 0, cycle, last_inc_seq_num_, queue, snap_net)
    BY <2>1, <2>4 DEF OfSnapshot, SentSoFar
  <2> QED BY <2>5 DEF OneSnapshot
<1> QED BY <1>2, <1>3, <1>4 DEF ExactInv

LEMMA PublishUpdateExact ==
  ASSUME Inv, ExactInv, NEW u \in Updates, PublishUpdate(u)
  PROVE  ExactInv'
<1>1. /\ log \in Seq(MarketUpdates) /\ u \in MarketUpdates /\ log' = Append(log, u)
      /\ UNCHANGED <<last_inc_seq_num_, cycle, snap_net, cons, torn, tearing>>
  BY UpdatesAreTyped DEF Inv, LogTypes, PublishUpdate, network
<1>2. /\ Len(log) \in Nat /\ Len(log') = Len(log) + 1
      /\ \A n \in 0 .. Len(log) : Replay(Empty, log')[n] = Replay(Empty, log)[n]
  BY <1>1, LogGrows
<1>3. NothingTorn'
  BY <1>1 DEF ExactInv, NothingTorn
<1>4. ClientBookIsExact'
  <2> DEFINE k == cons.next_exp_inc_seq_num_ - 1
  <2>1. k \in 0 .. Len(log)
    BY <1>2 DEF Inv, ConsumerOK
  <2>2. ~cons.in_recovery_ => cons.book = Replay(Empty, log)[k]
    BY DEF ExactInv, ClientBookIsExact, BookAt
  <2> HIDE DEF k
  <2>3. ~cons.in_recovery_ => cons.book = Replay(Empty, log')[k]
    BY <2>1, <2>2, <1>2
  <2> QED BY <2>3, <1>1 DEF ClientBookIsExact, BookAt, k
<1>5. OneSnapshot'
  <2> DEFINE queue == cons.snapshot_queued_msgs_
  <2>1. PICK n : OfSnapshot(log, n, cycle, last_inc_seq_num_, queue, snap_net)
    BY DEF ExactInv, OneSnapshot
  <2>2. n \in 0 .. Len(log)
    BY <2>1 DEF OfSnapshot
  <2>3. Snapshot(log', n) = Snapshot(log, n) /\ n \in 0 .. Len(log')
    BY <2>2, <1>2 DEF Snapshot
  <2> HIDE DEF queue
  <2>4. OfSnapshot(log', n, cycle, last_inc_seq_num_, queue, snap_net)
    BY <2>1, <2>3 DEF OfSnapshot
  <2> QED BY <2>4, <1>1 DEF OneSnapshot, queue
<1> QED BY <1>3, <1>4, <1>5 DEF ExactInv

\* Steps that neither the consumer nor the snapshot socket notices.
LEMMA ElsewhereExact ==
  ASSUME ExactInv,
         UNCHANGED <<log, last_inc_seq_num_, cycle, snap_net, cons, torn, tearing>>
  PROVE  ExactInv'
BY DEF ExactInv, NothingTorn, OneSnapshot, ClientBookIsExact, BookAt

LEMMA AddToSnapshotExact == ASSUME Inv, ExactInv, AddToSnapshot PROVE ExactInv'
<1>1. cycle = 0 /\ UNCHANGED <<log, cycle, snap_net, cons, torn, tearing>>
  BY DEF AddToSnapshot, TakeUpdate, network
<1>2. NothingTorn' /\ ClientBookIsExact'
  BY <1>1 DEF ExactInv, NothingTorn, ClientBookIsExact, BookAt
<1>3. OneSnapshot'
  <2>1. PICK n : OfSnapshot(log, n, cycle, last_inc_seq_num_, cons.snapshot_queued_msgs_, snap_net)
    BY DEF ExactInv, OneSnapshot
  <2>2. OfSnapshot(log, n, cycle, last_inc_seq_num_', cons.snapshot_queued_msgs_, snap_net)
    BY <2>1, <1>1 DEF OfSnapshot
  <2> QED BY <2>2, <1>1 DEF OneSnapshot
<1> QED BY <1>2, <1>3 DEF ExactInv

LEMMA PublishSnapshotExact == ASSUME Inv, ExactInv, PublishSnapshot PROVE ExactInv'
<1> DEFINE queue == cons.snapshot_queued_msgs_
           l == last_inc_seq_num_
           msgs == Snapshot(log, l)
<1>1. /\ cycle = 0 /\ snap_net = << >> /\ cycle' = 1 /\ tearing' = FALSE
      /\ UNCHANGED <<log, last_inc_seq_num_, snap_net, cons, torn>>
  BY DEF PublishSnapshot, StartCycle
<1>2. NothingTorn' /\ ClientBookIsExact'
  BY <1>1 DEF ExactInv, NothingTorn, ClientBookIsExact, BookAt
<1>3. log \in Seq(MarketUpdates) /\ l \in 0 .. Len(log) /\ ConsumerOK(log, cons)
  BY DEF Inv, LogTypes
<1>4. PICK n : OfSnapshot(log, n, cycle, l, queue, snap_net)
  BY DEF ExactInv, OneSnapshot
<1>5. DOMAIN queue = {}
  <2>1. n \in 0 .. Len(log)
    BY <1>4 DEF OfSnapshot
  <2>2. OfSnapshot(log, n, 0, l, queue, snap_net)
    BY <1>1, <1>4
  <2> HIDE DEF l
  <2> QED BY <2>1, <2>2, <1>1, <1>3, NothingLeft
<1>6. Len(msgs) \in Nat /\ 0 \in 0 .. Len(msgs)
  BY <1>3, SnapshotHasShape
<1>7. \E pos : Sequel(msgs, queue, snap_net, pos, 0)
  <2> HIDE DEF msgs, queue
  <2> QED BY <1>1, <1>5, <1>6, SequelAlone
<1>8. SentSoFar(msgs, 1) = 0
  BY DEF SentSoFar
<1>9. OfSnapshot(log, l, 1, l, queue, snap_net)
  BY <1>3, <1>7, <1>8 DEF OfSnapshot
<1>10. OneSnapshot'
  BY <1>1, <1>9 DEF OneSnapshot
<1> QED BY <1>2, <1>10 DEF ExactInv

LEMMA SendSnapshotExact == ASSUME MaxTorn = 0, Inv, ExactInv, SendSnapshot PROVE ExactInv'
<1> DEFINE queue == cons.snapshot_queued_msgs_
           l == last_inc_seq_num_
           msgs == Snapshot(log, l)
           S == Seq(Messages(SnapshotUpdates))
<1>1. /\ log \in Seq(MarketUpdates) /\ Len(log) \in Nat /\ l \in 0 .. Len(log) /\ l \in Nat
      /\ ticker_orders_ = Replay(Empty, log)[l] /\ ticker_orders_ \in Books
  BY BookAtFacts DEF Inv, LogTypes, BookAt
<1>2. msgs = SnapshotMsgs(ticker_orders_, l)
  BY <1>1 DEF Snapshot
<1>3. SnapshotShape(ticker_orders_, l, msgs) /\ Len(msgs) \in Nat
  BY <1>1, SnapshotHasShape
<1> HIDE DEF msgs
<1>4. PICK q : Sends(msgs, cycle, q)
  BY <1>2, SendSnapshotSends
<1>5. /\ UNCHANGED <<log, last_inc_seq_num_, cons>>
      /\ (torn' = torn /\ tearing' = tearing) \/ tearing \/ torn < MaxTorn
  BY DEF SendSnapshot
<1>6. torn = 0 /\ ~tearing /\ ~(tearing \/ torn < MaxTorn)
  BY DEF ExactInv, NothingTorn
<1>7. NothingTorn' /\ ClientBookIsExact'
  BY <1>5, <1>6 DEF ExactInv, NothingTorn, ClientBookIsExact, BookAt
<1>8. /\ cycle \in 1 .. Len(msgs) /\ q \in cycle .. Len(msgs)
      /\ cycle' = (IF q = Len(msgs) THEN 0 ELSE q + 1)
      /\ \/ snap_net' = Append(snap_net, SubSeq(msgs, cycle, q))
         \/ ~cons.in_recovery_ /\ snap_net' = snap_net
  BY <1>4, <1>6 DEF Sends
<1> DEFINE p == cycle - 1
<1>9. p \in 0 .. Len(msgs) /\ q \in p .. Len(msgs) /\ p + 1 = cycle /\ cycle # 0 /\ q \in 0 .. Len(msgs)
  BY <1>3, <1>8
<1>10. SentSoFar(msgs, cycle) = p /\ SentSoFar(msgs, cycle') = q
  <2>1. SentSoFar(msgs, cycle) = p
    BY <1>9 DEF SentSoFar
  <2>2. CASE q = Len(msgs)
    BY <2>1, <2>2, <1>8 DEF SentSoFar
  <2>3. CASE q # Len(msgs)
    <3>1. cycle' = q + 1 /\ q + 1 # 0 /\ (q + 1) - 1 = q
      BY <2>3, <1>3, <1>8, <1>9
    <3> QED BY <2>1, <3>1 DEF SentSoFar
  <2> QED BY <2>2, <2>3
<1>11. PICK pos : Sequel(msgs, queue, snap_net, pos, p)
  <2>1. PICK n : OfSnapshot(log, n, cycle, l, queue, snap_net)
    BY DEF ExactInv, OneSnapshot
  <2>2. n = l
    BY <2>1, <1>9 DEF OfSnapshot
  <2>3. OfSnapshot(log, l, cycle, l, queue, snap_net)
    BY <2>1, <2>2
  <2> HIDE DEF l, queue, p
  <2>4. \E pos : Sequel(msgs, queue, snap_net, pos, SentSoFar(msgs, cycle))
    BY <2>3 DEF OfSnapshot, msgs
  <2> QED BY <2>4, <1>10
<1>12. \E new : Sequel(msgs, queue, snap_net', new, q)
  <2>1. CASE snap_net' = Append(snap_net, SubSeq(msgs, cycle, q))
    <3> HIDE DEF p, l, queue
    <3>1. PartOf(log, msgs, p, q, SubSeq(msgs, p + 1, q))
      BY <1>1, <1>3, <1>9, DatagramFacts
    <3>2. SubSeq(msgs, p + 1, q) \in S
      BY <3>1 DEF PartOf
    <3>3. snap_net \in Seq(S)
      BY DEF Inv, SnapshotNet
    <3>4. snap_net' = Append(snap_net, SubSeq(msgs, p + 1, q))
      BY <2>1, <1>9
    <3> HIDE DEF S
    <3>5. \E new : Sequel(msgs, queue, Append(snap_net, SubSeq(msgs, p + 1, q)), new, q)
      BY <1>3, <1>9, <1>11, <3>2, <3>3, SequelAppend
    <3> QED BY <3>4, <3>5
  <2>2. CASE ~cons.in_recovery_ /\ snap_net' = snap_net
    <3>1. DOMAIN queue = {} /\ snap_net' = << >>
      BY <2>2 DEF Inv, NoSnapshot
    <3> HIDE DEF queue
    <3> QED BY <3>1, <1>3, <1>9, SequelAlone
  <2> QED BY <2>1, <2>2, <1>8
<1>13. OfSnapshot(log, l, cycle', l, queue, snap_net')
  <2> HIDE DEF queue, p
  <2>1. \E new : Sequel(msgs, queue, snap_net', new, SentSoFar(msgs, cycle'))
    BY <1>10, <1>12
  <2> QED BY <2>1, <1>1 DEF OfSnapshot, msgs
<1>14. OneSnapshot'
  BY <1>5, <1>13 DEF OneSnapshot
<1> QED BY <1>7, <1>14 DEF ExactInv

LEMMA ReceiveIncrementalExact == ASSUME Inv, ExactInv, ReceiveIncremental PROVE ExactInv'
<1> DEFINE queue == cons.snapshot_queued_msgs_
           new == cons'.snapshot_queued_msgs_
           l == last_inc_seq_num_
<1>1. /\ snap_net' = (IF cons'.in_recovery_ THEN snap_net ELSE << >>)
      /\ UNCHANGED <<log, last_inc_seq_num_, cycle, torn, tearing>>
  BY DEF ReceiveIncremental, RecvCallback, network
<1>2. Inv' /\ IncrementalRead(log, cons, cons')
  BY ReceiveIncrementalKeeps
<1>3. NothingTorn'
  BY <1>1 DEF ExactInv, NothingTorn
<1>4. ClientBookIsExact'
  <2>1. Exact(log, cons)
    BY DEF ExactInv, ClientBookIsExact, BookAt, Exact
  <2>2. Exact(log, cons')
    BY <2>1, <1>2 DEF IncrementalRead
  <2> QED BY <2>2, <1>1 DEF ClientBookIsExact, BookAt, Exact
<1>5. PICK n : OfSnapshot(log, n, cycle, l, queue, snap_net)
  BY DEF ExactInv, OneSnapshot
<1> DEFINE msgs == Snapshot(log, n)
           end == SentSoFar(msgs, cycle)
<1>6. n \in 0 .. Len(log) /\ (cycle # 0 => n = l)
  BY <1>5 DEF OfSnapshot
<1>7. PICK pos : Sequel(msgs, queue, snap_net, pos, end)
  BY <1>5 DEF OfSnapshot
<1>8. \E pos2 : Sequel(msgs, new, snap_net', pos2, end)
  <2>1. CASE cons'.in_recovery_
    <3>1. snap_net' = snap_net /\ (new = queue \/ DOMAIN new = {})
      BY <2>1, <1>1, <1>2 DEF IncrementalRead
    <3> HIDE DEF new, queue, msgs, end
    <3>2. Sequel(msgs, new, snap_net', pos, end)
      BY <3>1, <1>7 DEF Sequel, FirstOf
    <3> QED BY <3>2
  <2>2. CASE ~cons'.in_recovery_
    <3>1. snap_net' = << >> /\ DOMAIN new = {}
      BY <2>2, <1>1, <1>2 DEF Inv, NoSnapshot
    <3>2. Len(msgs) \in Nat
      <4>1. log \in Seq(MarketUpdates)
        BY DEF Inv, LogTypes
      <4> QED BY <4>1, <1>6, SnapshotHasShape
    <3> HIDE DEF new, queue, msgs, end
    <3>3. end \in 0 .. Len(msgs)
      <4>1. Len(snap_net) + 1 \in 1 .. (Len(snap_net) + 1)
        BY DEF Inv, SnapshotNet
      <4> QED BY <4>1, <1>7 DEF Sequel
    <3> QED BY <3>1, <3>2, <3>3, SequelAlone
  <2> QED BY <2>1, <2>2
<1>9. OfSnapshot(log, n, cycle, l, new, snap_net')
  BY <1>6, <1>8 DEF OfSnapshot
<1>10. OneSnapshot'
  BY <1>1, <1>9 DEF OneSnapshot
<1> QED BY <1>3, <1>4, <1>10 DEF ExactInv

LEMMA ReceiveSnapshotExact == ASSUME Inv, ExactInv, ReceiveSnapshot PROVE ExactInv'
<1> DEFINE queue == cons.snapshot_queued_msgs_
           new == cons'.snapshot_queued_msgs_
           l == last_inc_seq_num_
           d == Head(snap_net)
           S == Seq(Messages(SnapshotUpdates))
<1>1. /\ snap_net # << >> /\ cons' = OnMessages(cons, TRUE, d)
      /\ snap_net' = (IF cons'.in_recovery_ THEN Tail(snap_net) ELSE << >>)
      /\ UNCHANGED <<log, last_inc_seq_num_, cycle, torn, tearing>>
  BY DEF ReceiveSnapshot, ReadSnapshot, RecvCallback, network
<1>2. Inv' /\ cons.in_recovery_
  BY ReceiveSnapshotKeeps
<1>3. NothingTorn'
  BY <1>1 DEF ExactInv, NothingTorn
<1>4. PICK n : OfSnapshot(log, n, cycle, l, queue, snap_net)
  BY DEF ExactInv, OneSnapshot
<1> DEFINE orders == Replay(Empty, log)[n]
           msgs == Snapshot(log, n)
           end == SentSoFar(msgs, cycle)
<1>5. n \in 0 .. Len(log) /\ (cycle # 0 => n = l)
  BY <1>4 DEF OfSnapshot
<1>6. PICK pos : Sequel(msgs, queue, snap_net, pos, end)
  BY <1>4 DEF OfSnapshot
<1>7. log \in Seq(MarketUpdates) /\ ConsumerOK(log, cons) /\ snap_net \in Seq(S)
  BY DEF Inv, LogTypes, SnapshotNet
<1>8. SnapshotShape(orders, n, msgs) /\ Len(msgs) \in Nat
  BY <1>5, <1>7, SnapshotHasShape
<1> HIDE DEF msgs, end, S, queue, d
<1>9. /\ pos[1] \in 0 .. Len(msgs) /\ pos[2] \in pos[1] .. Len(msgs) /\ end \in 0 .. Len(msgs)
      /\ snap_net[1] = SubSeq(msgs, pos[1] + 1, pos[2]) /\ FirstOf(msgs, queue, pos[1])
  <2> DEFINE k == Len(snap_net)
  <2>1. k \in Nat \ {0}
    BY <1>1, <1>7
  <2>2. /\ pos \in [1 .. (k + 1) -> 0 .. Len(msgs)] /\ pos[k + 1] = end
        /\ \A i \in 1 .. k : pos[i] <= pos[i + 1] /\ snap_net[i] = SubSeq(msgs, pos[i] + 1, pos[i + 1])
        /\ FirstOf(msgs, queue, pos[1])
    BY <1>6 DEF Sequel
  <2> HIDE DEF k
  <2>3. 1 \in 1 .. k /\ 1 \in 1 .. (k + 1) /\ 2 \in 1 .. (k + 1) /\ k + 1 \in 1 .. (k + 1) /\ 1 + 1 = 2
    BY <2>1
  <2>4. pos[1] \in 0 .. Len(msgs) /\ pos[2] \in 0 .. Len(msgs) /\ end \in 0 .. Len(msgs)
    BY <2>2, <2>3
  <2>5. pos[1] <= pos[2] /\ snap_net[1] = SubSeq(msgs, pos[1] + 1, pos[2])
    BY <2>2, <2>3
  <2> QED BY <2>2, <2>4, <2>5, <1>8
<1>10. d = SubSeq(msgs, pos[1] + 1, pos[2])
  BY <1>1, <1>7, <1>9 DEF d
<1>11. FirstOf(msgs, new, pos[2]) /\ Exact(log, cons')
  <2> DEFINE p == pos[1]
             q == pos[2]
             r == OnMessages(cons, TRUE, d)
  <2>1. p \in 0 .. Len(msgs) /\ q \in p .. Len(msgs) /\ d = SubSeq(msgs, p + 1, q) /\ FirstOf(msgs, cons.snapshot_queued_msgs_, p)
    BY <1>9, <1>10 DEF queue
  <2> HIDE DEF p, q, orders
  <2>2. orders = Replay(Empty, log)[n]
    BY DEF orders
  <2>3. FirstOf(msgs, r.snapshot_queued_msgs_, q) /\ Exact(log, r)
    BY <2>1, <2>2, <1>2, <1>5, <1>7, <1>8, SnapshotPart
  <2>4. cons' = r
    BY <1>1
  <2> HIDE DEF r
  <2> QED BY <2>3, <2>4 DEF q
<1>12. ClientBookIsExact'
  BY <1>1, <1>11 DEF ClientBookIsExact, BookAt, Exact
<1>13. \E pos2 : Sequel(msgs, new, snap_net', pos2, end)
  <2>1. CASE cons'.in_recovery_
    <3>1. snap_net' = Tail(snap_net)
      BY <2>1, <1>1
    <3> HIDE DEF new
    <3>2. \E pos2 : Sequel(msgs, new, Tail(snap_net), pos2, end)
      BY <1>1, <1>6, <1>7, <1>8, <1>11, SequelTail
    <3> QED BY <3>1, <3>2
  <2>2. CASE ~cons'.in_recovery_
    <3>1. snap_net' = << >> /\ DOMAIN new = {}
      BY <2>2, <1>1, <1>2 DEF Inv, NoSnapshot
    <3> HIDE DEF new
    <3> QED BY <3>1, <1>8, <1>9, SequelAlone
  <2> QED BY <2>1, <2>2
<1>14. OfSnapshot(log, n, cycle, l, new, snap_net')
  BY <1>5, <1>13 DEF OfSnapshot, msgs, end
<1>15. OneSnapshot'
  BY <1>1, <1>14 DEF OneSnapshot
<1> QED BY <1>3, <1>12, <1>15 DEF ExactInv

LEMMA StepExact == ASSUME MaxTorn = 0, Inv, ExactInv, [Next]_vars PROVE ExactInv'
<1>1. CASE UNCHANGED vars
  BY <1>1, ElsewhereExact DEF vars, network
<1>2. ASSUME NEW u \in Updates, PublishUpdate(u) PROVE ExactInv'
  BY <1>2, PublishUpdateExact
<1>3. CASE FlushIncremental \/ Misdeliver
  BY <1>3, ElsewhereExact DEF FlushIncremental, Misdeliver
<1>4. CASE AddToSnapshot
  BY <1>4, AddToSnapshotExact
<1>5. CASE PublishSnapshot
  BY <1>5, PublishSnapshotExact
<1>6. CASE SendSnapshot
  BY <1>6, SendSnapshotExact
<1>7. CASE ReceiveIncremental
  BY <1>7, ReceiveIncrementalExact
<1>8. CASE ReceiveSnapshot
  BY <1>8, ReceiveSnapshotExact
<1> QED BY <1>1, <1>2, <1>3, <1>4, <1>5, <1>6, <1>7, <1>8 DEF Next

\* If no snapshot cycle loses a datagram, a client that is not recovering has exactly the
\* exchange's book as of the update before the one it expects next: recvCallback() applies
\* every update once and in order, and a recovery puts a snapshot of some earlier moment and
\* the incrementals queued since together without a gap. Incremental datagrams may be lost,
\* overtaken and repeated as often as MaxLosses and MaxStale say.
THEOREM FeedBookIsExact == ASSUME MaxTorn = 0 PROVE Spec => []ClientBookIsExact
<1>1. Init => ExactInv
  BY InitExact
<1>2. Inv /\ ExactInv /\ [Next]_vars => ExactInv'
  BY StepExact
<1>3. ExactInv => ClientBookIsExact
  BY DEF ExactInv
<1> QED BY <1>1, <1>2, <1>3, SpecInv, PTL DEF Spec
=============================================================================
