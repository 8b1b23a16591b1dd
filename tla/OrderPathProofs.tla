-------------------------- MODULE OrderPathProofs --------------------------
(***************************************************************************)
(* Proofs about OrderPath: its types, and what a gateway hands to its      *)
(* TradeEngine and OrderServer to the matching engine, for any number of   *)
(* processes, client ids, requests, short sends and rounds.                *)
(***************************************************************************)
EXTENDS OrderPath, FiniteSetTheorems, WellFoundedInduction, SequenceTheorems, TLAPS

(***************************************************************************)
(* The inductive invariant. A stream is framed when it is a number of      *)
(* whole messages; a read may stop within one, so that the units kept in   *)
(* inbound and those under way are framed together.                        *)
(***************************************************************************)
Positive == Nat \ {0}
RequestUnits == [seq : Positive] \cup [body : Requests]
AnswerUnits == [seq : Positive] \cup [body : Answers]

\* The messages that socket g may carry: numbered as the body says.
RequestMessages(g) ==
  {m \in [seq : Positive, body : Requests] : m.body.from = g /\ m.body.n = m.seq}
AnswerMessages == {m \in [seq : Positive, body : Answers] : m.body.n = m.seq}

Message(s, k) == [seq |-> s[2 * k - 1].seq, body |-> s[2 * k].body]
Framed(s, M) == \E h \in 0 .. Len(s) : Len(s) = 2 * h /\ \A k \in 1 .. h : Message(s, k) \in M

Gateway == [client_id_ : Clients, next_outgoing_seq_num_ : Positive,
            next_exp_seq_num_ : Positive, outbound : Seq(RequestUnits),
            inbound : Seq(AnswerUnits), got : Seq(Answers)]
Socket == [outbound : Seq(AnswerUnits), inbound : Seq(RequestUnits)]
Pending == [recv_time_ : 1 .. MaxTime, request : Requests]
Server == [cid_tcp_socket_ : [Clients -> Processes \cup {None}],
           cid_next_exp_seq_num_ : [Clients -> Positive],
           cid_next_outgoing_seq_num_ : [Clients -> Positive],
           pending : Seq(Pending), exited : BOOLEAN]

ClientTypes ==
  /\ gateway \in [Processes -> Gateway]
  /\ up \in [Processes -> Seq(RequestUnits)]
  /\ down \in [Processes -> Seq(AnswerUnits)]
  /\ shorts \in 0 .. MaxShort
ServerTypes ==
  /\ backlog \in Seq(Processes) /\ receive_sockets_ \in Seq(Processes)
  /\ socket \in [Processes -> Socket]
  /\ at \in {"poll", "sockets", "respond"} /\ left \in Seq(Processes)
  /\ received \in BOOLEAN
  /\ server \in Server
EngineTypes ==
  /\ published \in Seq(Requests) /\ handled \in 0 .. Len(published)
  /\ answered \in [Clients -> Nat] /\ fills \in 0 .. MaxFills
  /\ responses \in Seq(Answers)

\* Of the connection of a process g: its gateway, the server's socket, and what is under way.
StreamsOf(g, gw, sk, to, back) ==
  /\ Framed(gw.outbound, RequestMessages(g))
  /\ Len(sk.inbound) <= 1 /\ Framed(sk.inbound \o to, RequestMessages(g))
  /\ Framed(sk.outbound, AnswerMessages)
  /\ Len(gw.inbound) <= 1 /\ Framed(gw.inbound \o back, AnswerMessages)
Streams == \A g \in Processes : StreamsOf(g, gateway[g], socket[g], up[g], down[g])

\* What a gateway has written to incoming_responses_.
GotInOrder(gw) ==
  /\ gw.next_exp_seq_num_ = Len(gw.got) + 1
  /\ \A i \in 1 .. Len(gw.got) : gw.got[i].client = gw.client_id_ /\ gw.got[i].n = i

AllInOrder == \A g \in Processes : GotInOrder(gateway[g])

\* Every request that was taken came over the socket of its client.
Bound(s, taken) ==
  /\ \A i \in 1 .. Len(taken) : taken[i].from = s.cid_tcp_socket_[taken[i].client]
  /\ \A i \in 1 .. Len(s.pending) :
       s.pending[i].request.from = s.cid_tcp_socket_[s.pending[i].request.client]

\* FATAL is reached only with pending_client_requests_ full.
Full(s) == Len(s.pending) <= MaxPending /\ (s.exited => Len(s.pending) = MaxPending)

\* From position k on, the responses to each client are those that the engine has numbered
\* and OrderServer has not, in order.
Queued(rs, k, next, last) ==
  /\ \A i \in k .. Len(rs) : next[rs[i].client] <= rs[i].n /\ rs[i].n <= last[rs[i].client]
  /\ \A i, j \in k .. Len(rs) : i < j /\ rs[i].client = rs[j].client => rs[i].n < rs[j].n
  /\ \A c \in Clients : /\ next[c] <= last[c] + 1
                        /\ \A n \in next[c] .. last[c] :
                             \E i \in k .. Len(rs) : rs[i].client = c /\ rs[i].n = n

AnswersHandled == \A k \in 1 .. Len(responses) : Handled(responses[k].client)

HandledFrom(g) == \E i \in 1 .. handled : published[i].from = g

\* Only a process whose requests were handled is sent anything.
Silent(gw, sk, back) ==
  sk.outbound = << >> /\ back = << >> /\ gw.inbound = << >> /\ gw.got = << >>
OnlyHeard ==
  \A g \in Processes : HandledFrom(g) \/ Silent(gateway[g], socket[g], down[g])

Inv ==
  /\ ClientTypes /\ ServerTypes /\ EngineTypes
  /\ ToSet(left) \subseteq ToSet(receive_sockets_)
  /\ Streams
  /\ AllInOrder
  /\ Bound(server, published) /\ Full(server) /\ (server.exited => at = "sockets")
  /\ Queued(responses, 1, server.cid_next_outgoing_seq_num_, answered)
  /\ AnswersHandled
  /\ OnlyHeard

(***************************************************************************)
(* And of the order of requests: what is pending continues what was        *)
(* published, client by client, and the requests of one socket were read   *)
(* at one time.                                                            *)
(***************************************************************************)
Before(r, q) == r.client = q.client => r.n < q.n

Continued(s, taken) ==
  /\ \A i \in 1 .. Len(taken) :
       /\ \A j \in 1 .. Len(s.pending) : Before(taken[i], s.pending[j].request)
       /\ taken[i].n < s.cid_next_exp_seq_num_[taken[i].client]
  /\ \A i \in 1 .. Len(s.pending) :
       /\ \A j \in 1 .. Len(s.pending) : i < j => Before(s.pending[i].request, s.pending[j].request)
       /\ s.pending[i].request.n < s.cid_next_exp_seq_num_[s.pending[i].request.client]
  /\ ~s.exited => \A c \in Clients : \A n \in 1 .. (s.cid_next_exp_seq_num_[c] - 1) :
       \/ \E i \in 1 .. Len(taken) : taken[i].client = c /\ taken[i].n = n
       \/ \E i \in 1 .. Len(s.pending) : s.pending[i].request.client = c /\ s.pending[i].request.n = n

ReadAtOnce(s) ==
  \A i, j \in 1 .. Len(s.pending) :
    s.pending[i].request.from = s.pending[j].request.from
      => s.pending[i].recv_time_ = s.pending[j].recv_time_

Distinct(q) == \A i, j \in 1 .. Len(q) : q[i] = q[j] => i = j

Round ==
  /\ Distinct(receive_sockets_ \o backlog) /\ Distinct(left)
  /\ at # "sockets" \/ ~received => server.pending = << >>
  /\ \A i \in 1 .. Len(left) : \A j \in 1 .. Len(server.pending) :
       server.pending[j].request.from # left[i]

OrderInv == Continued(server, published) /\ ReadAtOnce(server) /\ Round /\ RequestsInOrder

(***************************************************************************)
(* Induction over messages: the least number that is a counterexample.     *)
(***************************************************************************)
LEMMA LeastNatural ==
  ASSUME NEW T \in SUBSET Nat, T # {}
  PROVE  \E n \in T : \A m \in T : n <= m
<1> DEFINE R == OpToRel(<, Nat)
<1>1. IsWellFoundedOn(R, Nat)
  BY NatLessThanWellFounded
<1>2. ASSUME NEW x \in Nat, NEW y \in Nat, y < x PROVE <<y, x>> \in R
  BY <1>2 DEF OpToRel
<1> HIDE DEF R
<1>3. PICK x \in T : \A y \in T : ~(<<y, x>> \in R)
  BY <1>1, WFMin
<1>4. ASSUME NEW m \in T PROVE x <= m
  <2>1. m \in Nat /\ x \in Nat /\ <<m, x>> \notin R
    BY <1>3
  <2>2. ~(m < x)
    BY <2>1, <1>2
  <2> QED BY <2>1, <2>2
<1> QED BY <1>4

\* A set with 0 and with the successor of each of its members below n has all numbers up to n.
LEMMA UpTo ==
  ASSUME NEW n \in Nat, NEW T, 0 \in T, \A k \in 1 .. n : k - 1 \in T => k \in T
  PROVE  \A k \in 0 .. n : k \in T
<1> DEFINE Missing == {k \in 0 .. n : k \notin T}
<1>1. SUFFICES ASSUME Missing # {} PROVE FALSE
  OBVIOUS
<1>2. PICK k \in Missing : \A m \in Missing : k <= m
  <2>1. Missing \in SUBSET Nat
    OBVIOUS
  <2> HIDE DEF Missing
  <2> QED BY <1>1, <2>1, LeastNatural
<1>3. k \in 1 .. n /\ k - 1 \in 0 .. n /\ k - 1 \notin Missing
  BY <1>2
<1> QED BY <1>2, <1>3

(***************************************************************************)
(* Streams.                                                                *)
(***************************************************************************)
LEMMA FramedEmpty == ASSUME NEW M PROVE Framed(<< >>, M)
<1>1. Len(<< >>) = 2 * 0 /\ \A k \in 1 .. 0 : Message(<< >>, k) \in M
  OBVIOUS
<1> QED BY <1>1 DEF Framed

LEMMA FramedConcat ==
  ASSUME NEW U, NEW M, NEW s \in Seq(U), NEW t \in Seq(U), Framed(s, M), Framed(t, M)
  PROVE  Framed(s \o t, M)
<1>1. PICK hs \in 0 .. Len(s) : Len(s) = 2 * hs /\ \A k \in 1 .. hs : Message(s, k) \in M
  BY DEF Framed
<1>2. PICK ht \in 0 .. Len(t) : Len(t) = 2 * ht /\ \A k \in 1 .. ht : Message(t, k) \in M
  BY DEF Framed
<1>3. /\ Len(s \o t) = Len(s) + Len(t) /\ Len(s) \in Nat /\ Len(t) \in Nat
      /\ \A i \in 1 .. Len(s) + Len(t) :
           (s \o t)[i] = IF i <= Len(s) THEN s[i] ELSE t[i - Len(s)]
  BY ConcatProperties
<1>4. ASSUME NEW k \in 1 .. hs + ht PROVE Message(s \o t, k) \in M
  <2>1. CASE k <= hs
    <3>1. (s \o t)[2 * k - 1] = s[2 * k - 1] /\ (s \o t)[2 * k] = s[2 * k]
      BY <1>1, <1>2, <1>3, <2>1
    <3>2. Message(s \o t, k) = Message(s, k)
      BY <3>1 DEF Message
    <3> QED BY <1>1, <2>1, <3>2
  <2>2. CASE k > hs
    <3>1. /\ (s \o t)[2 * k - 1] = t[(2 * k - 1) - Len(s)]
          /\ (s \o t)[2 * k] = t[2 * k - Len(s)]
      <4>1. /\ 2 * k - 1 \in 1 .. Len(s) + Len(t) /\ 2 * k \in 1 .. Len(s) + Len(t)
            /\ ~(2 * k - 1 <= Len(s)) /\ ~(2 * k <= Len(s))
        BY <1>1, <1>2, <2>2
      <4> QED BY <1>3, <4>1
    <3>2. (2 * k - 1) - Len(s) = 2 * (k - hs) - 1 /\ 2 * k - Len(s) = 2 * (k - hs)
      BY <1>1, <1>2
    <3>3. Message(s \o t, k) = Message(t, k - hs)
      BY <3>1, <3>2 DEF Message
    <3> QED BY <1>1, <1>2, <2>2, <3>3
  <2> QED BY <1>1, <1>2, <2>1, <2>2
<1>5. hs + ht \in 0 .. Len(s \o t) /\ Len(s \o t) = 2 * (hs + ht)
  BY <1>1, <1>2, <1>3
<1> QED BY <1>4, <1>5 DEF Framed

LEMMA FramedPrefix ==
  ASSUME NEW U, NEW M, NEW s \in Seq(U), Framed(s, M), NEW k \in 0 .. Len(s), k % 2 = 0
  PROVE  SubSeq(s, 1, k) \in Seq(U) /\ Framed(SubSeq(s, 1, k), M)
<1>1. PICK h \in 0 .. Len(s) : Len(s) = 2 * h /\ \A j \in 1 .. h : Message(s, j) \in M
  BY DEF Framed
<1>2. /\ SubSeq(s, 1, k) \in Seq(U) /\ Len(SubSeq(s, 1, k)) = k
      /\ \A i \in 1 .. k : SubSeq(s, 1, k)[i] = s[i]
  <2>1. \A i \in 1 .. k : s[i] \in U
    BY ElementOfSeq
  <2> QED BY <2>1, SubSeqProperties
<1>3. PICK e \in Nat : k = 2 * e
  <2>1. k \div 2 \in Nat /\ k = 2 * (k \div 2)
    OBVIOUS
  <2> QED BY <2>1
<1>4. ASSUME NEW j \in 1 .. e PROVE Message(SubSeq(s, 1, k), j) \in M
  <2>1. Message(SubSeq(s, 1, k), j) = Message(s, j)
    BY <1>2, <1>3 DEF Message
  <2> QED BY <1>1, <1>3, <2>1
<1> QED BY <1>2, <1>3, <1>4 DEF Framed

LEMMA FramedUnits ==
  ASSUME NEW M, NEW seq, NEW body, [seq |-> seq, body |-> body] \in M
  PROVE  Framed(Units(seq, body), M)
<1>1. Len(Units(seq, body)) = 2 * 1
  BY DEF Units
<1>2. Message(Units(seq, body), 1) = [seq |-> seq, body |-> body]
  BY DEF Units, Message
<1>3. \A k \in 1 .. 1 : Message(Units(seq, body), k) \in M
  BY <1>2
<1> QED BY <1>1, <1>3 DEF Framed

\* Both recvCallbacks: of the bytes b read so far, with t still under way, the loop takes whole
\* messages and keeps what begins the next.
LEMMA ReadMessages ==
  ASSUME NEW U, NEW M, NEW b \in Seq(U), NEW t \in Seq(U), Framed(b \o t, M)
  PROVE  /\ Messages(b) \in Seq(M) /\ (Len(b) <= 1 => Messages(b) = << >>)
         /\ Rest(b) \in Seq(U) /\ Len(Rest(b)) <= 1
         /\ Framed(Rest(b) \o t, M)
<1>1. PICK h \in 0 .. Len(b \o t) :
        Len(b \o t) = 2 * h /\ \A k \in 1 .. h : Message(b \o t, k) \in M
  BY DEF Framed
<1>2. /\ b \o t \in Seq(U) /\ Len(b \o t) = Len(b) + Len(t)
      /\ Len(b) \in Nat /\ Len(t) \in Nat
      /\ \A i \in 1 .. Len(b) + Len(t) :
           (b \o t)[i] = IF i <= Len(b) THEN b[i] ELSE t[i - Len(b)]
  BY ConcatProperties
<1>3. PICK e \in Nat : e = Len(b) \div 2 /\ 2 * e <= Len(b) /\ Len(b) <= 2 * e + 1 /\ e <= h
  <2>1. /\ Len(b) \div 2 \in Nat /\ 2 * (Len(b) \div 2) <= Len(b)
        /\ Len(b) <= 2 * (Len(b) \div 2) + 1
    BY <1>2
  <2> QED BY <1>1, <1>2, <2>1
<1>4. /\ Messages(b) = [k \in 1 .. e |-> Message(b, k)]
      /\ Rest(b) = SubSeq(b, 2 * e + 1, Len(b))
  BY <1>3 DEF Messages, Rest, Message
<1>5. ASSUME NEW k \in 1 .. e PROVE Message(b, k) \in M
  <2>1. 2 * k - 1 \in 1 .. Len(b) /\ 2 * k \in 1 .. Len(b) /\ k \in 1 .. h
    BY <1>3, <1>2
  <2>2. (b \o t)[2 * k - 1] = b[2 * k - 1] /\ (b \o t)[2 * k] = b[2 * k]
    BY <1>2, <2>1
  <2>3. Message(b \o t, k) = Message(b, k)
    BY <2>2 DEF Message
  <2> QED BY <1>1, <2>1, <2>3
<1>6. Messages(b) \in Seq(M)
  BY <1>4, <1>5, <1>3, IsASeq
<1>7. Len(b) <= 1 => Messages(b) = << >>
  <2>1. Len(b) <= 1 => e = 0
    BY <1>3, <1>2
  <2>2. e = 0 => Len(Messages(b)) = 0
    BY <1>4
  <2> QED BY <1>6, <2>1, <2>2, EmptySeq
<1>8. /\ Rest(b) \in Seq(U) /\ Len(Rest(b)) = Len(b) - 2 * e
      /\ \A i \in 1 .. (Len(b) - 2 * e) : Rest(b)[i] = b[2 * e + i]
  <2>1. /\ \A i \in (2 * e + 1) .. Len(b) : b[i] \in U
        /\ 2 * e + 1 \in Int /\ Len(b) \in Int
    BY <1>2, <1>3, ElementOfSeq
  <2>2. /\ SubSeq(b, 2 * e + 1, Len(b)) \in Seq(U)
        /\ Len(SubSeq(b, 2 * e + 1, Len(b))) =
             IF 2 * e + 1 <= Len(b) THEN Len(b) - (2 * e + 1) + 1 ELSE 0
        /\ \A i \in 1 .. Len(b) - (2 * e + 1) + 1 :
             SubSeq(b, 2 * e + 1, Len(b))[i] = b[2 * e + 1 + i - 1]
    BY <2>1, SubSeqProperties
  <2>3. \A i \in Int : 2 * e + 1 + i - 1 = 2 * e + i
    OBVIOUS
  <2>4. Len(Rest(b)) = Len(b) - 2 * e
    <3> DEFINE q == SubSeq(b, 2 * e + 1, Len(b))
    <3>1. Rest(b) = q /\ Len(q) = IF 2 * e + 1 <= Len(b) THEN Len(b) - (2 * e + 1) + 1 ELSE 0
      BY <2>2, <1>4
    <3>2. 2 * e <= Len(b) /\ Len(b) <= 2 * e + 1 /\ Len(b) \in Nat
      BY <1>2, <1>3
    <3> HIDE DEF q
    <3>3. CASE 2 * e + 1 <= Len(b)
      BY <3>1, <3>2, <3>3
    <3>4. CASE ~(2 * e + 1 <= Len(b))
      BY <3>1, <3>2, <3>4
    <3> QED BY <3>3, <3>4
  <2>5. ASSUME NEW i \in 1 .. (Len(b) - 2 * e) PROVE Rest(b)[i] = b[2 * e + i]
    <3>1. i \in 1 .. Len(b) - (2 * e + 1) + 1
      BY <1>2
    <3>2. SubSeq(b, 2 * e + 1, Len(b))[i] = b[2 * e + 1 + i - 1]
      BY <2>2, <3>1
    <3>3. 2 * e + 1 + i - 1 = 2 * e + i
      BY <2>3
    <3> QED BY <3>2, <3>3, <1>4, Zenon
  <2> QED BY <2>2, <2>4, <2>5, <1>4
<1>9. /\ Len(Rest(b) \o t) = 2 * (h - e)
      /\ \A i \in 1 .. 2 * (h - e) : (Rest(b) \o t)[i] = (b \o t)[2 * e + i]
  <2>1. /\ Len(Rest(b) \o t) = Len(Rest(b)) + Len(t)
        /\ \A i \in 1 .. Len(Rest(b)) + Len(t) :
             (Rest(b) \o t)[i] = IF i <= Len(Rest(b)) THEN Rest(b)[i] ELSE t[i - Len(Rest(b))]
    BY <1>8, ConcatProperties
  <2>2. Len(Rest(b)) + Len(t) = 2 * (h - e)
    BY <1>1, <1>2, <1>8
  <2>3. ASSUME NEW i \in 1 .. 2 * (h - e) PROVE (Rest(b) \o t)[i] = (b \o t)[2 * e + i]
    <3>1. 2 * e + i \in 1 .. Len(b) + Len(t)
      BY <1>1, <1>2, <1>3
    <3>2. CASE i <= Len(Rest(b))
      BY <2>1, <2>2, <3>1, <3>2, <1>8, <1>2
    <3>3. CASE ~(i <= Len(Rest(b)))
      <4>1. ~(2 * e + i <= Len(b)) /\ i - Len(Rest(b)) = (2 * e + i) - Len(b)
        BY <3>3, <1>8, <1>2
      <4> QED BY <2>1, <2>2, <3>1, <3>3, <4>1, <1>2
    <3> QED BY <3>2, <3>3
  <2> QED BY <2>1, <2>2, <2>3
<1>10. Framed(Rest(b) \o t, M)
  <2>1. ASSUME NEW k \in 1 .. (h - e) PROVE Message(Rest(b) \o t, k) \in M
    <3>1. 2 * k - 1 \in 1 .. 2 * (h - e) /\ 2 * k \in 1 .. 2 * (h - e) /\ e + k \in 1 .. h
      BY <1>3
    <3>2. 2 * e + (2 * k - 1) = 2 * (e + k) - 1 /\ 2 * e + 2 * k = 2 * (e + k)
      OBVIOUS
    <3>3. /\ (Rest(b) \o t)[2 * k - 1] = (b \o t)[2 * (e + k) - 1]
          /\ (Rest(b) \o t)[2 * k] = (b \o t)[2 * (e + k)]
      BY <1>9, <3>1, <3>2
    <3>4. Message(Rest(b) \o t, k) = Message(b \o t, e + k)
      BY <3>3 DEF Message
    <3> QED BY <1>1, <3>1, <3>4
  <2>2. h - e \in 0 .. Len(Rest(b) \o t)
    BY <1>9, <1>3
  <2> QED BY <1>9, <2>1, <2>2 DEF Framed
<1> QED BY <1>3, <1>6, <1>7, <1>8, <1>10, <1>2

LEMMA Associative ==
  ASSUME NEW U, NEW x \in Seq(U), NEW y \in Seq(U), NEW z \in Seq(U)
  PROVE  (x \o y) \o z = x \o (y \o z)
  BY ConcatAssociative

\* A read moves units from the stream to the buffer.
LEMMA ReadStream ==
  ASSUME NEW U, NEW M, NEW inbound \in Seq(U), NEW stream \in Seq(U), Len(inbound) <= 1,
         Framed(inbound \o stream, M), NEW i \in 0 .. Len(stream)
  PROVE  LET b == inbound \o SubSeq(stream, 1, i)
             t == SubSeq(stream, i + 1, Len(stream))
         IN  /\ Messages(b) \in Seq(M) /\ (i = 0 => Messages(b) = << >>)
             /\ (inbound = << >> /\ stream = << >> => b = << >> /\ t = << >>)
             /\ t \in Seq(U) /\ Rest(b) \in Seq(U) /\ Len(Rest(b)) <= 1
             /\ Framed(Rest(b) \o t, M)
<1> DEFINE p == SubSeq(stream, 1, i)
           t == SubSeq(stream, i + 1, Len(stream))
           b == inbound \o p
<1>1. /\ p \in Seq(U) /\ t \in Seq(U) /\ Len(p) = i /\ Len(t) = Len(stream) - i
      /\ Len(inbound) \in Nat /\ Len(stream) \in Nat
  <2>1. (\A j \in 1 .. i : stream[j] \in U) /\ (\A j \in (i + 1) .. Len(stream) : stream[j] \in U)
    BY ElementOfSeq
  <2>2. 1 \in Int /\ i \in Int /\ i + 1 \in Int /\ Len(stream) \in Int /\ Len(inbound) \in Nat
    OBVIOUS
  <2>3. p \in Seq(U) /\ Len(p) = IF 1 <= i THEN i - 1 + 1 ELSE 0
    BY <2>1, <2>2, SubSeqProperties
  <2>4. /\ t \in Seq(U)
        /\ Len(t) = IF i + 1 <= Len(stream) THEN Len(stream) - (i + 1) + 1 ELSE 0
    BY <2>1, <2>2, SubSeqProperties
  <2> QED BY <2>2, <2>3, <2>4
<1>2. p \o t = stream
  <2>1. p \o t = SubSeq(stream, 1, Len(stream))
    <3>1. 1 \in 1 .. Len(stream) + 1 /\ i \in 1 - 1 .. Len(stream) /\ Len(stream) \in i .. Len(stream)
      BY <1>1
    <3> QED BY <3>1, ConcatAdjacentSubSeq
  <2> QED BY <2>1, SubSeqFull
<1> HIDE DEF p, t
<1>3. b \in Seq(U) /\ Len(b) = Len(inbound) + i
  BY <1>1, ConcatProperties
<1>4. b \o t = inbound \o stream
  <2>1. (inbound \o p) \o t = inbound \o (p \o t)
    <3>1. p \in Seq(U) /\ t \in Seq(U) /\ inbound \in Seq(U)
      BY <1>1
    <3> HIDE DEF b
    <3> DEFINE Same(x, y, z) == (x \o y) \o z = x \o (y \o z)
    <3>2. \A x, y, z \in Seq(U) : Same(x, y, z)
      BY Associative, SMTT(30)
    <3> HIDE DEF Same
    <3>3. Same(inbound, p, t)
      BY <3>1, <3>2
    <3> QED BY <3>3 DEF Same
  <2> QED BY <2>1, <1>2
<1>5. inbound = << >> /\ stream = << >> => b = << >> /\ t = << >>
  <2>1. ASSUME inbound = << >>, stream = << >> PROVE Len(b) = 0 /\ Len(t) = 0
    BY <1>1, <1>3, <2>1
  <2> QED BY <2>1, <1>1, <1>3, EmptySeq
<1> HIDE DEF b
<1>6. /\ Messages(b) \in Seq(M) /\ (Len(b) <= 1 => Messages(b) = << >>)
      /\ Rest(b) \in Seq(U) /\ Len(Rest(b)) <= 1
      /\ Framed(Rest(b) \o t, M)
  BY <1>1, <1>3, <1>4, ReadMessages
<1> QED BY <1>1, <1>3, <1>5, <1>6 DEF b, t, p

(***************************************************************************)
(* The loop of OrderGateway::recvCallback.                                 *)
(***************************************************************************)
ResponsesRead(gw, msgs, n, read) ==
  read = [k \in 0 .. n |-> IF k = 0 THEN gw ELSE TakeResponse(read[k - 1], msgs[k])]

LEMMA ResponsesReadExists ==
  ASSUME NEW gw, NEW msgs, NEW n \in Nat
  PROVE  \E read : ResponsesRead(gw, msgs, n, read)
<1> DEFINE T == {m \in Nat : \E read : ResponsesRead(gw, msgs, m, read)}
<1>1. 0 \in T
  <2>1. ResponsesRead(gw, msgs, 0, [k \in 0 .. 0 |-> gw])
    BY DEF ResponsesRead
  <2> QED BY <2>1
<1>2. ASSUME NEW m \in 1 .. n, m - 1 \in T PROVE m \in T
  <2>1. PICK f : ResponsesRead(gw, msgs, m - 1, f)
    BY <1>2
  <2> DEFINE g == [k \in 0 .. m |-> IF k < m THEN f[k] ELSE TakeResponse(f[m - 1], msgs[m])]
  <2>2. ASSUME NEW k \in 0 .. m
        PROVE  g[k] = IF k = 0 THEN gw ELSE TakeResponse(g[k - 1], msgs[k])
    <3>1. CASE k = m
      BY <3>1
    <3>2. CASE k # m
      <4>1. k \in 0 .. (m - 1) /\ g[k] = f[k] /\ (k # 0 => g[k - 1] = f[k - 1])
        BY <3>2
      <4>2. f[k] = IF k = 0 THEN gw ELSE TakeResponse(f[k - 1], msgs[k])
        BY <2>1, <4>1 DEF ResponsesRead
      <4> QED BY <4>1, <4>2
    <3> QED BY <3>1, <3>2
  <2>3. g = [k \in 0 .. m |-> g[k]]
    OBVIOUS
  <2> HIDE DEF g
  <2>4. ResponsesRead(gw, msgs, m, g)
    BY <2>2, <2>3 DEF ResponsesRead
  <2> QED BY <2>4
<1> HIDE DEF T
<1>3. n \in T
  BY <1>1, <1>2, UpTo
<1> QED BY <1>3 DEF T

LEMMA TakeResponsesRead ==
  ASSUME NEW gw, NEW msgs, Len(msgs) \in Nat
  PROVE  \E read : /\ ResponsesRead(gw, msgs, Len(msgs), read)
                   /\ TakeResponses(gw, msgs) = read[Len(msgs)]
<1>1. \E read : ResponsesRead(gw, msgs, Len(msgs), read)
  BY ResponsesReadExists
<1> DEFINE r == CHOOSE read : ResponsesRead(gw, msgs, Len(msgs), read)
<1>2. ResponsesRead(gw, msgs, Len(msgs), r)
  BY <1>1
<1>3. TakeResponses(gw, msgs) = r[Len(msgs)]
  BY DEF TakeResponses, ResponsesRead
<1> QED BY <1>2, <1>3

\* What the loop leaves alone, and that it hands over responses in order.
Reads(gw, r) ==
  /\ r \in Gateway /\ GotInOrder(r)
  /\ r.client_id_ = gw.client_id_ /\ r.next_outgoing_seq_num_ = gw.next_outgoing_seq_num_
  /\ r.outbound = gw.outbound /\ r.inbound = gw.inbound

LEMMA TakeResponseReads ==
  ASSUME NEW gw, NEW r, Reads(gw, r), NEW m \in AnswerMessages
  PROVE  Reads(gw, TakeResponse(r, m))
<1>1. CASE m.body.client # r.client_id_ \/ m.seq # r.next_exp_seq_num_
  BY <1>1 DEF TakeResponse
<1>2. CASE ~(m.body.client # r.client_id_ \/ m.seq # r.next_exp_seq_num_)
  <2> DEFINE a == Append(r.got, m.body)
             q == [r EXCEPT !.next_exp_seq_num_ = @ + 1, !.got = a]
  <2>1. TakeResponse(r, m) = q
    BY <1>2 DEF TakeResponse
  <2>2. r \in Gateway /\ m.body \in Answers /\ m.body.n = m.seq /\ r.got \in Seq(Answers)
    BY DEF Reads, AnswerMessages, Gateway
  <2>3. /\ a \in Seq(Answers) /\ Len(a) = Len(r.got) + 1 /\ Len(r.got) \in Nat
        /\ \A i \in 1 .. Len(r.got) : a[i] = r.got[i]
        /\ a[Len(r.got) + 1] = m.body
    BY <2>2
  <2> HIDE DEF a
  <2>e. r.next_exp_seq_num_ + 1 \in Positive
    BY <2>2 DEF Gateway, Positive
  <2>4. /\ q \in Gateway /\ q.got = a /\ q.next_exp_seq_num_ = r.next_exp_seq_num_ + 1
        /\ q.client_id_ = r.client_id_ /\ q.next_outgoing_seq_num_ = r.next_outgoing_seq_num_
        /\ q.outbound = r.outbound /\ q.inbound = r.inbound
    BY <2>2, <2>3, <2>e DEF Gateway
  <2> HIDE DEF q
  <2>5. r.next_exp_seq_num_ = Len(r.got) + 1
    BY DEF Reads, GotInOrder
  <2>6. GotInOrder(q)
    <3>1. ASSUME NEW i \in 1 .. Len(a) PROVE a[i].client = r.client_id_ /\ a[i].n = i
      <4>1. CASE i \in 1 .. Len(r.got)
        BY <4>1, <2>3 DEF Reads, GotInOrder
      <4>2. CASE i = Len(r.got) + 1
        BY <4>2, <2>2, <2>3, <2>5, <1>2
      <4> QED BY <4>1, <4>2, <2>3
    <3> QED BY <3>1, <2>3, <2>4, <2>5 DEF GotInOrder
  <2> QED BY <2>1, <2>4, <2>6 DEF Reads
<1> QED BY <1>1, <1>2

LEMMA TakeResponsesReads ==
  ASSUME NEW gw \in Gateway, GotInOrder(gw), NEW msgs \in Seq(AnswerMessages)
  PROVE  /\ Reads(gw, TakeResponses(gw, msgs))
         /\ msgs = << >> => TakeResponses(gw, msgs) = gw
<1> DEFINE n == Len(msgs)
<1>1. n \in Nat /\ \A k \in 1 .. n : msgs[k] \in AnswerMessages
  BY ElementOfSeq
<1>2. PICK read : ResponsesRead(gw, msgs, n, read) /\ TakeResponses(gw, msgs) = read[n]
  BY <1>1, TakeResponsesRead
<1>e. msgs = << >> => n = 0
  OBVIOUS
<1> HIDE DEF n
<1>3. /\ read[0] = gw
      /\ \A k \in 1 .. n : read[k] = TakeResponse(read[k - 1], msgs[k])
  <2>1. \A k \in 0 .. n :
          read[k] = IF k = 0 THEN gw ELSE TakeResponse(read[k - 1], msgs[k])
    BY <1>2 DEF ResponsesRead
  <2> QED BY <2>1, <1>1
<1> DEFINE T == {k \in 0 .. n : Reads(gw, read[k])}
<1>4. 0 \in T
  BY <1>1, <1>3 DEF Reads
<1>5. ASSUME NEW k \in 1 .. n, k - 1 \in T PROVE k \in T
  <2>1. Reads(gw, TakeResponse(read[k - 1], msgs[k]))
    BY <1>1, <1>5, TakeResponseReads
  <2> QED BY <2>1, <1>3, <1>1
<1> HIDE DEF T
<1>6. n \in T
  <2>1. n \in Nat /\ n \in 0 .. n
    BY <1>1
  <2>2. \A k \in 1 .. n : k - 1 \in T => k \in T
    BY <1>5
  <2> QED BY <2>1, <2>2, <1>4, UpTo
<1>7. Reads(gw, read[n])
  BY <1>6 DEF T
<1>8. msgs = << >> => TakeResponses(gw, msgs) = gw
  BY <1>e, <1>2, <1>3
<1> QED BY <1>2, <1>7, <1>8

(***************************************************************************)
(* The loop of OrderServer::recvCallback.                                  *)
(***************************************************************************)
RequestsRead(s, msgs, g, rx_time, n, read) ==
  read = [k \in 0 .. n |-> IF k = 0 THEN s ELSE TakeRequest(read[k - 1], msgs[k], g, rx_time)]

LEMMA RequestsReadExists ==
  ASSUME NEW s, NEW msgs, NEW g, NEW rx_time, NEW n \in Nat
  PROVE  \E read : RequestsRead(s, msgs, g, rx_time, n, read)
<1> DEFINE T == {m \in Nat : \E read : RequestsRead(s, msgs, g, rx_time, m, read)}
<1>1. 0 \in T
  <2>1. RequestsRead(s, msgs, g, rx_time, 0, [k \in 0 .. 0 |-> s])
    BY DEF RequestsRead
  <2> QED BY <2>1
<1>2. ASSUME NEW m \in 1 .. n, m - 1 \in T PROVE m \in T
  <2>1. PICK f : RequestsRead(s, msgs, g, rx_time, m - 1, f)
    BY <1>2
  <2> DEFINE h == [k \in 0 .. m |-> IF k < m THEN f[k] ELSE TakeRequest(f[m - 1], msgs[m], g, rx_time)]
  <2>2. ASSUME NEW k \in 0 .. m
        PROVE  h[k] = IF k = 0 THEN s ELSE TakeRequest(h[k - 1], msgs[k], g, rx_time)
    <3>1. CASE k = m
      BY <3>1
    <3>2. CASE k # m
      <4>1. k \in 0 .. (m - 1) /\ h[k] = f[k] /\ (k # 0 => h[k - 1] = f[k - 1])
        BY <3>2
      <4>2. f[k] = IF k = 0 THEN s ELSE TakeRequest(f[k - 1], msgs[k], g, rx_time)
        BY <2>1, <4>1 DEF RequestsRead
      <4> QED BY <4>1, <4>2
    <3> QED BY <3>1, <3>2
  <2>3. h = [k \in 0 .. m |-> h[k]]
    OBVIOUS
  <2> HIDE DEF h
  <2>4. RequestsRead(s, msgs, g, rx_time, m, h)
    BY <2>2, <2>3 DEF RequestsRead
  <2> QED BY <2>4
<1> HIDE DEF T
<1>3. n \in T
  BY <1>1, <1>2, UpTo
<1> QED BY <1>3 DEF T

LEMMA TakeRequestsRead ==
  ASSUME NEW s, NEW msgs, NEW g, NEW rx_time, Len(msgs) \in Nat
  PROVE  \E read : /\ RequestsRead(s, msgs, g, rx_time, Len(msgs), read)
                   /\ TakeRequests(s, msgs, g, rx_time) = read[Len(msgs)]
<1>1. \E read : RequestsRead(s, msgs, g, rx_time, Len(msgs), read)
  BY RequestsReadExists
<1> DEFINE r == CHOOSE read : RequestsRead(s, msgs, g, rx_time, Len(msgs), read)
<1>2. RequestsRead(s, msgs, g, rx_time, Len(msgs), r)
  BY <1>1
<1>3. TakeRequests(s, msgs, g, rx_time) = r[Len(msgs)]
  BY DEF TakeRequests, RequestsRead
<1> QED BY <1>2, <1>3

\* The outcomes of one message of socket g, for a client c that has no other socket: its
\* number is not the expected one; it is pending; or there is no room for it.
Binds(s, r, c, g) ==
  /\ ~s.exited /\ s.cid_tcp_socket_[c] \in {None, g}
  /\ r.cid_tcp_socket_ = [s.cid_tcp_socket_ EXCEPT ![c] = g]
Skips(s, r) ==
  /\ r.cid_next_exp_seq_num_ = s.cid_next_exp_seq_num_
  /\ r.pending = s.pending /\ ~r.exited
Counts(s, r, m) ==
  /\ m.seq = s.cid_next_exp_seq_num_[m.body.client]
  /\ r.cid_next_exp_seq_num_ = [s.cid_next_exp_seq_num_ EXCEPT ![m.body.client] = @ + 1]
Keeps(s, r, m, rx_time) ==
  /\ r.pending = Append(s.pending, [recv_time_ |-> rx_time, request |-> m.body])
  /\ Len(s.pending) < MaxPending /\ ~r.exited
Drops(s, r) == r.pending = s.pending /\ Len(s.pending) = MaxPending /\ r.exited

LEMMA BindFacts ==
  ASSUME NEW s \in Server, NEW c \in Clients, NEW g \in Processes
  PROVE  /\ Bind(s, c, g) \in Server
         /\ Bind(s, c, g).pending = s.pending /\ Bind(s, c, g).exited = s.exited
         /\ Bind(s, c, g).cid_next_exp_seq_num_ = s.cid_next_exp_seq_num_
         /\ Bind(s, c, g).cid_next_outgoing_seq_num_ = s.cid_next_outgoing_seq_num_
         /\ Bind(s, c, g).cid_tcp_socket_[c] # g => Bind(s, c, g) = s
         /\ Bind(s, c, g).cid_tcp_socket_[c] = g =>
              /\ s.cid_tcp_socket_[c] \in {None, g}
              /\ Bind(s, c, g).cid_tcp_socket_ = [s.cid_tcp_socket_ EXCEPT ![c] = g]
<1>1. CASE s.cid_tcp_socket_[c] = None
  BY <1>1 DEF Bind, Server
<1>2. CASE s.cid_tcp_socket_[c] # None
  <2>1. Bind(s, c, g) = s
    BY <1>2 DEF Bind
  <2>2. s.cid_tcp_socket_[c] = g => s.cid_tcp_socket_ = [s.cid_tcp_socket_ EXCEPT ![c] = g]
    BY DEF Server
  <2> QED BY <2>1, <2>2
<1> QED BY <1>1, <1>2

LEMMA TakeRequestCases ==
  ASSUME NEW s \in Server, Full(s), NEW g \in Processes, NEW m \in RequestMessages(g),
         NEW rx_time \in 1 .. MaxTime, NEW r, r = TakeRequest(s, m, g, rx_time)
  PROVE  /\ r \in Server /\ r.cid_next_outgoing_seq_num_ = s.cid_next_outgoing_seq_num_
         /\ \/ r = s
            \/ /\ Binds(s, r, m.body.client, g)
               /\ \/ Skips(s, r)
                  \/ Counts(s, r, m) /\ (Keeps(s, r, m, rx_time) \/ Drops(s, r))
<1> DEFINE c == m.body.client
           b == Bind(s, c, g)
           q == [recv_time_ |-> rx_time, request |-> m.body]
<1>1. c \in Clients /\ m.body \in Requests /\ q \in Pending
  BY DEF RequestMessages, Requests, Pending
<1>2. /\ b \in Server /\ b.pending = s.pending /\ b.exited = s.exited
      /\ b.cid_next_exp_seq_num_ = s.cid_next_exp_seq_num_
      /\ b.cid_next_outgoing_seq_num_ = s.cid_next_outgoing_seq_num_
      /\ b.cid_tcp_socket_[c] # g => b = s
      /\ b.cid_tcp_socket_[c] = g =>
           /\ s.cid_tcp_socket_[c] \in {None, g}
           /\ b.cid_tcp_socket_ = [s.cid_tcp_socket_ EXCEPT ![c] = g]
  BY <1>1, BindFacts
<1> DEFINE e == [b EXCEPT !.cid_next_exp_seq_num_[c] = @ + 1]
<1>3. TakeRequest(s, m, g, rx_time) =
        IF s.exited THEN s
        ELSE IF b.cid_tcp_socket_[c] # g \/ m.seq # s.cid_next_exp_seq_num_[c] THEN b
        ELSE addClientRequest(e, q)
  BY DEF TakeRequest
<1>4. /\ e \in Server /\ e.pending = b.pending /\ e.exited = b.exited
      /\ e.cid_next_exp_seq_num_ = [b.cid_next_exp_seq_num_ EXCEPT ![c] = @ + 1]
      /\ e.cid_next_outgoing_seq_num_ = b.cid_next_outgoing_seq_num_
      /\ e.cid_tcp_socket_ = b.cid_tcp_socket_
  <2> HIDE DEF b, c
  <2>1. b.cid_next_exp_seq_num_ \in [Clients -> Positive]
    BY <1>2 DEF Server
  <2>2. [b.cid_next_exp_seq_num_ EXCEPT ![c] = @ + 1] \in [Clients -> Positive]
    BY <2>1, <1>1 DEF Positive
  <2> QED BY <1>2, <2>2 DEF Server
<1> HIDE DEF b, c, q, e
<1>5. CASE s.exited
  BY <1>3, <1>5
<1>6. CASE ~s.exited /\ b.cid_tcp_socket_[c] # g
  <2>1. r = s
    BY <1>2, <1>3, <1>6
  <2> QED BY <2>1
<1>7. CASE ~s.exited /\ b.cid_tcp_socket_[c] = g /\ m.seq # s.cid_next_exp_seq_num_[c]
  <2>1. r = b
    BY <1>3, <1>7
  <2>2. Binds(s, r, c, g)
    BY <2>1, <1>2, <1>7 DEF Binds
  <2>3. Skips(s, r)
    BY <2>1, <1>2, <1>7 DEF Skips
  <2> QED BY <2>1, <2>2, <2>3, <1>2 DEF c
<1>8. CASE ~s.exited /\ b.cid_tcp_socket_[c] = g /\ m.seq = s.cid_next_exp_seq_num_[c]
  <2>1. r = addClientRequest(e, q)
    BY <1>3, <1>8
  <2>2. CASE Len(s.pending) >= MaxPending
    <3>1. r = [e EXCEPT !.exited = TRUE]
      BY <2>1, <2>2, <1>2, <1>4 DEF addClientRequest
    <3>2. /\ r \in Server /\ r.pending = e.pending /\ r.exited
          /\ r.cid_next_exp_seq_num_ = e.cid_next_exp_seq_num_
          /\ r.cid_next_outgoing_seq_num_ = e.cid_next_outgoing_seq_num_
          /\ r.cid_tcp_socket_ = e.cid_tcp_socket_
      BY <3>1, <1>4 DEF Server
    <3>3. Len(s.pending) = MaxPending
      BY <2>2, BoundAssumption DEF Full, Server
    <3>4. Binds(s, r, c, g)
      BY <3>2, <1>2, <1>4, <1>8 DEF Binds
    <3>5. Counts(s, r, m) /\ Drops(s, r)
      BY <3>2, <3>3, <1>2, <1>4, <1>8 DEF Counts, Drops, c
    <3> QED BY <3>2, <3>4, <3>5, <1>2, <1>4 DEF c
  <2>3. CASE ~(Len(s.pending) >= MaxPending)
    <3>0. e.pending \in Seq(Pending) /\ Append(e.pending, q) \in Seq(Pending)
      BY <1>1, <1>4 DEF Server
    <3>1. r = [e EXCEPT !.pending = Append(@, q)]
      BY <2>1, <2>3, <1>2, <1>4 DEF addClientRequest
    <3>2. /\ r \in Server /\ r.pending = Append(e.pending, q) /\ r.exited = e.exited
          /\ r.cid_next_exp_seq_num_ = e.cid_next_exp_seq_num_
          /\ r.cid_next_outgoing_seq_num_ = e.cid_next_outgoing_seq_num_
          /\ r.cid_tcp_socket_ = e.cid_tcp_socket_
      BY <3>0, <3>1, <1>4 DEF Server
    <3>3. Len(s.pending) < MaxPending
      BY <2>3, BoundAssumption DEF Server
    <3>4. Binds(s, r, c, g)
      BY <3>2, <1>2, <1>4, <1>8 DEF Binds
    <3>5. Counts(s, r, m)
      BY <3>2, <1>2, <1>4, <1>8 DEF Counts, c
    <3>6. Keeps(s, r, m, rx_time)
      BY <3>2, <3>3, <1>2, <1>4, <1>8 DEF Keeps, q
    <3> QED BY <3>2, <3>4, <3>5, <3>6, <1>2, <1>4 DEF c
  <2> QED BY <2>2, <2>3
<1> QED BY <1>5, <1>6, <1>7, <1>8

LEMMA PendingTypes ==
  ASSUME NEW s \in Server, NEW i \in 1 .. Len(s.pending)
  PROVE  /\ s.pending \in Seq(Pending) /\ Len(s.pending) \in Nat
         /\ s.pending[i] \in Pending /\ s.pending[i].request \in Requests
         /\ s.pending[i].request.client \in Clients /\ s.pending[i].request.from \in Processes
         /\ s.pending[i].request.n \in Nat
<1>1. s.pending \in Seq(Pending) /\ Len(s.pending) \in Nat
  BY DEF Server
<1>2. s.pending[i] \in Pending
  BY <1>1, ElementOfSeq
<1> QED BY <1>1, <1>2 DEF Pending, Requests

LEMMA TakenTypes ==
  ASSUME NEW taken \in Seq(Requests), NEW i \in 1 .. Len(taken)
  PROVE  /\ taken[i] \in Requests /\ taken[i].client \in Clients
         /\ taken[i].from \in Processes /\ taken[i].n \in Nat
<1>1. taken[i] \in Requests
  BY ElementOfSeq
<1> QED BY <1>1 DEF Requests

\* The request that Keeps adds.
LEMMA KeptPending ==
  ASSUME NEW s \in Server, NEW r, NEW m, NEW rx_time, Keeps(s, r, m, rx_time)
  PROVE  /\ Len(r.pending) = Len(s.pending) + 1 /\ Len(s.pending) \in Nat
         /\ \A i \in 1 .. Len(s.pending) : r.pending[i] = s.pending[i]
         /\ r.pending[Len(s.pending) + 1] = [recv_time_ |-> rx_time, request |-> m.body]
  BY DEF Keeps, Server

LEMMA BindsKeeps ==
  ASSUME NEW taken \in Seq(Requests), NEW s \in Server, NEW r, Bound(s, taken),
         NEW c \in Clients, NEW g \in Processes, Binds(s, r, c, g)
  PROVE  /\ \A i \in 1 .. Len(taken) : taken[i].from = r.cid_tcp_socket_[taken[i].client]
         /\ \A i \in 1 .. Len(s.pending) :
              s.pending[i].request.from = r.cid_tcp_socket_[s.pending[i].request.client]
<1>1. \A d \in Clients : s.cid_tcp_socket_[d] # None => r.cid_tcp_socket_[d] = s.cid_tcp_socket_[d]
  BY DEF Binds, Server
<1>2. ASSUME NEW i \in 1 .. Len(taken)
      PROVE  taken[i].from = r.cid_tcp_socket_[taken[i].client]
  <2>1. taken[i].client \in Clients /\ taken[i].from \in Processes
    BY TakenTypes
  <2>2. taken[i].from = s.cid_tcp_socket_[taken[i].client]
    BY DEF Bound
  <2> QED BY <1>1, <2>1, <2>2, ProcessAssumption
<1>3. ASSUME NEW i \in 1 .. Len(s.pending)
      PROVE  s.pending[i].request.from = r.cid_tcp_socket_[s.pending[i].request.client]
  <2>1. s.pending[i].request.client \in Clients /\ s.pending[i].request.from \in Processes
    BY PendingTypes
  <2>2. s.pending[i].request.from = s.cid_tcp_socket_[s.pending[i].request.client]
    BY DEF Bound
  <2> QED BY <1>1, <2>1, <2>2, ProcessAssumption
<1> QED BY <1>2, <1>3

LEMMA TakeRequestBound ==
  ASSUME NEW taken \in Seq(Requests), NEW s \in Server, Full(s), Bound(s, taken),
         NEW g \in Processes, NEW m \in RequestMessages(g),
         NEW rx_time \in 1 .. MaxTime, NEW r, r = TakeRequest(s, m, g, rx_time)
  PROVE  Full(r) /\ Bound(r, taken)
<1> DEFINE c == m.body.client
<1>1. c \in Clients /\ m.body.from = g
  BY DEF RequestMessages, Requests
<1>2. CASE r = s
  BY <1>2
<1>3. ASSUME Binds(s, r, c, g) PROVE
        /\ \A i \in 1 .. Len(taken) : taken[i].from = r.cid_tcp_socket_[taken[i].client]
        /\ \A i \in 1 .. Len(s.pending) :
             s.pending[i].request.from = r.cid_tcp_socket_[s.pending[i].request.client]
  BY <1>1, <1>3, BindsKeeps
<1>4. CASE Binds(s, r, c, g) /\ Skips(s, r)
  <2>1. Full(r)
    BY <1>4 DEF Full, Skips
  <2> QED BY <2>1, <1>3, <1>4 DEF Bound, Skips
<1>5. CASE Binds(s, r, c, g) /\ Drops(s, r)
  <2>1. Full(r)
    BY <1>5 DEF Full, Drops
  <2> QED BY <2>1, <1>3, <1>5 DEF Bound, Drops
<1>6. CASE Binds(s, r, c, g) /\ Keeps(s, r, m, rx_time)
  <2>1. /\ Len(r.pending) = Len(s.pending) + 1 /\ Len(s.pending) \in Nat
        /\ \A i \in 1 .. Len(s.pending) : r.pending[i] = s.pending[i]
        /\ r.pending[Len(s.pending) + 1] = [recv_time_ |-> rx_time, request |-> m.body]
    BY <1>6, KeptPending
  <2>2. Len(s.pending) < MaxPending /\ ~r.exited
    BY <1>6 DEF Keeps
  <2>3. Full(r)
    BY <2>1, <2>2, BoundAssumption DEF Full
  <2>4. r.cid_tcp_socket_[c] = g
    BY <1>1, <1>6 DEF Binds, Server
  <2>5. ASSUME NEW i \in 1 .. Len(r.pending)
        PROVE  r.pending[i].request.from = r.cid_tcp_socket_[r.pending[i].request.client]
    <3>1. CASE i \in 1 .. Len(s.pending)
      BY <3>1, <2>1, <1>3, <1>6
    <3>2. CASE i = Len(s.pending) + 1
      BY <3>2, <2>1, <2>4, <1>1
    <3> QED BY <3>1, <3>2, <2>1
  <2> QED BY <2>3, <2>5, <1>3, <1>6 DEF Bound
<1> QED BY <1>2, <1>4, <1>5, <1>6, TakeRequestCases

LEMMA TakeRequestContinues ==
  ASSUME NEW taken \in Seq(Requests), NEW s \in Server, Full(s), Continued(s, taken),
         NEW g \in Processes, NEW m \in RequestMessages(g),
         NEW rx_time \in 1 .. MaxTime, NEW r, r = TakeRequest(s, m, g, rx_time)
  PROVE  Continued(r, taken)
<1> DEFINE c == m.body.client
           nx == s.cid_next_exp_seq_num_
           old == Len(s.pending)
<1>1. /\ c \in Clients /\ m.body.n = m.seq /\ nx \in [Clients -> Positive]
      /\ r \in Server /\ old \in Nat
  <2>1. r \in Server
    BY TakeRequestCases
  <2>2. c \in Clients /\ m.body.n = m.seq
    BY DEF RequestMessages, Requests
  <2> QED BY <2>1, <2>2 DEF Server
<1>2. /\ \A i \in 1 .. Len(taken) :
           /\ \A j \in 1 .. old : Before(taken[i], s.pending[j].request)
           /\ taken[i].n < nx[taken[i].client]
      /\ \A i \in 1 .. old :
           /\ \A j \in 1 .. old : i < j => Before(s.pending[i].request, s.pending[j].request)
           /\ s.pending[i].request.n < nx[s.pending[i].request.client]
  BY DEF Continued
<1>3. ~s.exited => \A d \in Clients : \A n \in 1 .. (nx[d] - 1) :
        \/ \E i \in 1 .. Len(taken) : taken[i].client = d /\ taken[i].n = n
        \/ \E i \in 1 .. old : s.pending[i].request.client = d /\ s.pending[i].request.n = n
  BY DEF Continued
<1>4. CASE r = s
  BY <1>4
<1>5. CASE Binds(s, r, c, g) /\ Skips(s, r)
  <2>1. r.cid_next_exp_seq_num_ = nx /\ r.pending = s.pending /\ ~s.exited /\ ~r.exited
    BY <1>5 DEF Binds, Skips
  <2> QED BY <2>1, <1>2, <1>3 DEF Continued
<1>6. ASSUME Counts(s, r, m)
      PROVE  /\ r.cid_next_exp_seq_num_[c] = nx[c] + 1 /\ m.body.n = nx[c]
             /\ \A d \in Clients : /\ nx[d] \in Nat /\ nx[d] <= r.cid_next_exp_seq_num_[d]
                                   /\ d # c => r.cid_next_exp_seq_num_[d] = nx[d]
  <2>1. r.cid_next_exp_seq_num_ = [nx EXCEPT ![c] = @ + 1] /\ m.seq = nx[c]
    BY <1>6 DEF Counts
  <2> HIDE DEF nx, c
  <2> QED BY <2>1, <1>1 DEF Positive
<1> DEFINE ny == r.cid_next_exp_seq_num_
<1>7. ASSUME Counts(s, r, m)
      PROVE  /\ \A i \in 1 .. Len(taken) : taken[i].n < ny[taken[i].client]
             /\ \A i \in 1 .. old : s.pending[i].request.n < ny[s.pending[i].request.client]
  <2>1. \A d \in Clients : nx[d] \in Nat /\ ny[d] \in Nat /\ nx[d] <= ny[d]
    BY <1>1, <1>6, <1>7 DEF Server, Positive
  <2> HIDE DEF nx, ny
  <2>2. ASSUME NEW i \in 1 .. Len(taken) PROVE taken[i].n < ny[taken[i].client]
    BY <1>2, <2>1, TakenTypes
  <2>3. ASSUME NEW i \in 1 .. old
        PROVE  s.pending[i].request.n < ny[s.pending[i].request.client]
    <3> DEFINE d == s.pending[i].request.client
               n == s.pending[i].request.n
    <3>1. d \in Clients /\ n \in Nat
      BY PendingTypes
    <3>2. n < nx[d]
      BY <1>2
    <3> HIDE DEF d, n
    <3>3. n < ny[d]
      BY <3>1, <3>2, <2>1
    <3> QED BY <3>3 DEF d, n
  <2> QED BY <2>2, <2>3
<1>8. CASE Binds(s, r, c, g) /\ Counts(s, r, m) /\ Drops(s, r)
  <2>1. r.pending = s.pending /\ r.exited
    BY <1>8 DEF Drops
  <2> QED BY <2>1, <1>2, <1>7, <1>8 DEF Continued
<1>9. CASE Binds(s, r, c, g) /\ Counts(s, r, m) /\ Keeps(s, r, m, rx_time)
  <2>1. /\ Len(r.pending) = old + 1
        /\ \A i \in 1 .. old : r.pending[i] = s.pending[i]
        /\ r.pending[old + 1].request = m.body
    <3>1. /\ Len(r.pending) = Len(s.pending) + 1
          /\ \A i \in 1 .. Len(s.pending) : r.pending[i] = s.pending[i]
          /\ r.pending[Len(s.pending) + 1] = [recv_time_ |-> rx_time, request |-> m.body]
      BY <1>9, KeptPending
    <3> QED BY <3>1
  <2>2. /\ m.body.n = nx[c] /\ ny[c] = nx[c] + 1 /\ nx[c] \in Nat
        /\ \A d \in Clients : d # c => ny[d] = nx[d]
    BY <1>1, <1>6, <1>9
  <2>3. ~s.exited
    BY <1>9 DEF Binds
  <2> HIDE DEF nx, ny, old
  <2>4. ASSUME NEW i \in 1 .. Len(taken)
        PROVE  /\ \A j \in 1 .. Len(r.pending) : Before(taken[i], r.pending[j].request)
               /\ taken[i].n < ny[taken[i].client]
    <3>1. ASSUME NEW j \in 1 .. Len(r.pending) PROVE Before(taken[i], r.pending[j].request)
      <4>1. CASE j \in 1 .. old
        BY <4>1, <2>1, <1>2
      <4>2. CASE j = old + 1
        <5>1. r.pending[j].request = m.body
          BY <4>2, <2>1
        <5> QED BY <5>1, <2>2, <1>2 DEF Before
      <4> QED BY <4>1, <4>2, <2>1, <1>1
    <3> QED BY <3>1, <1>7, <1>9
  <2>5. ASSUME NEW i \in 1 .. Len(r.pending)
        PROVE  /\ \A j \in 1 .. Len(r.pending) :
                    i < j => Before(r.pending[i].request, r.pending[j].request)
               /\ r.pending[i].request.n < ny[r.pending[i].request.client]
    <3>1. CASE i \in 1 .. old
      <4>1. ASSUME NEW j \in 1 .. Len(r.pending), i < j
            PROVE  Before(r.pending[i].request, r.pending[j].request)
        <5>1. CASE j \in 1 .. old
          BY <5>1, <4>1, <3>1, <2>1, <1>2
        <5>2. CASE j = old + 1
          <6>1. r.pending[j].request = m.body /\ r.pending[i] = s.pending[i]
            BY <5>2, <3>1, <2>1
          <6> QED BY <6>1, <3>1, <2>2, <1>2 DEF Before
        <5> QED BY <5>1, <5>2, <2>1, <1>1
      <4> QED BY <4>1, <3>1, <2>1, <1>7, <1>9
    <3>2. CASE i = old + 1
      <4>1. \A j \in 1 .. Len(r.pending) : ~(i < j)
        BY <3>2, <2>1, <1>1
      <4>2. r.pending[i].request.n < ny[r.pending[i].request.client]
        BY <3>2, <2>1, <2>2
      <4> QED BY <4>1, <4>2
    <3> QED BY <3>1, <3>2, <2>1, <1>1
  <2>6. ASSUME NEW d \in Clients, NEW n \in 1 .. (ny[d] - 1)
        PROVE  \/ \E i \in 1 .. Len(taken) : taken[i].client = d /\ taken[i].n = n
               \/ \E i \in 1 .. Len(r.pending) :
                    r.pending[i].request.client = d /\ r.pending[i].request.n = n
    <3>1. CASE d = c /\ n = nx[c]
      <4>1. r.pending[old + 1].request.client = d /\ r.pending[old + 1].request.n = n
        BY <3>1, <2>1, <2>2
      <4>2. old + 1 \in 1 .. Len(r.pending)
        BY <2>1, <1>1
      <4> QED BY <4>1, <4>2
    <3>2. CASE ~(d = c /\ n = nx[c])
      <4>1. n \in 1 .. (nx[d] - 1)
        <5>1. CASE d = c
          BY <5>1, <3>2, <2>2
        <5>2. CASE d # c
          BY <5>2, <2>2
        <5> QED BY <5>1, <5>2
      <4>2. CASE \E i \in 1 .. Len(taken) : taken[i].client = d /\ taken[i].n = n
        BY <4>2
      <4>3. ASSUME NEW i \in 1 .. old,
                   s.pending[i].request.client = d, s.pending[i].request.n = n
            PROVE  \E j \in 1 .. Len(r.pending) :
                     r.pending[j].request.client = d /\ r.pending[j].request.n = n
        <5>1. i \in 1 .. Len(r.pending) /\ r.pending[i] = s.pending[i]
          BY <2>1, <1>1
        <5> QED BY <4>3, <5>1
      <4> QED BY <4>1, <4>2, <4>3, <2>3, <1>3
    <3> QED BY <3>1, <3>2
  <2> QED BY <2>4, <2>5, <2>6 DEF Continued, ny
<1> QED BY <1>4, <1>5, <1>8, <1>9, TakeRequestCases

\* What the loop makes of the server s0, with the requests taken published before.
Extended(s0, s, g, rx_time) ==
  /\ Len(s0.pending) <= Len(s.pending)
  /\ \A i \in 1 .. Len(s.pending) :
       /\ i <= Len(s0.pending) => s.pending[i] = s0.pending[i]
       /\ i > Len(s0.pending) => /\ s.pending[i].request.from = g
                                 /\ s.pending[i].recv_time_ = rx_time
Takes(taken, s0, g, rx_time, s) ==
  /\ s \in Server /\ s.cid_next_outgoing_seq_num_ = s0.cid_next_outgoing_seq_num_
  /\ Full(s) /\ Bound(s, taken)
  /\ Extended(s0, s, g, rx_time)
  /\ Continued(s0, taken) => Continued(s, taken)

LEMMA TakeRequestTakes ==
  ASSUME NEW taken \in Seq(Requests), NEW s0 \in Server, NEW g \in Processes,
         NEW rx_time \in 1 .. MaxTime, NEW s, Takes(taken, s0, g, rx_time, s),
         NEW m \in RequestMessages(g)
  PROVE  Takes(taken, s0, g, rx_time, TakeRequest(s, m, g, rx_time))
<1> DEFINE r == TakeRequest(s, m, g, rx_time)
<1>1. /\ s \in Server /\ Full(s) /\ Bound(s, taken)
      /\ s.cid_next_outgoing_seq_num_ = s0.cid_next_outgoing_seq_num_
      /\ Continued(s0, taken) => Continued(s, taken)
      /\ Extended(s0, s, g, rx_time)
  BY DEF Takes
<1>2. /\ r \in Server /\ r.cid_next_outgoing_seq_num_ = s.cid_next_outgoing_seq_num_
      /\ \/ r = s
         \/ /\ Binds(s, r, m.body.client, g)
            /\ \/ Skips(s, r)
               \/ Counts(s, r, m) /\ (Keeps(s, r, m, rx_time) \/ Drops(s, r))
  BY <1>1, TakeRequestCases
<1>3. Full(r) /\ Bound(r, taken)
  BY <1>1, TakeRequestBound
<1>4. Continued(s, taken) => Continued(r, taken)
  BY <1>1, TakeRequestContinues
<1> HIDE DEF r
<1>5. Extended(s0, r, g, rx_time)
  <2>1. CASE r.pending = s.pending
    BY <2>1, <1>1 DEF Extended
  <2>2. CASE Keeps(s, r, m, rx_time)
    <3> DEFINE old == Len(s.pending)
    <3>1. /\ Len(r.pending) = old + 1 /\ old \in Nat
          /\ \A i \in 1 .. old : r.pending[i] = s.pending[i]
          /\ r.pending[old + 1] = [recv_time_ |-> rx_time, request |-> m.body]
      BY <1>1, <2>2, KeptPending
    <3>2. Len(s0.pending) <= old /\ Len(s0.pending) \in Nat
      BY <1>1 DEF Extended, Server
    <3>3. m.body.from = g
      BY DEF RequestMessages
    <3>4. ASSUME NEW i \in 1 .. Len(r.pending)
          PROVE  /\ i <= Len(s0.pending) => r.pending[i] = s0.pending[i]
                 /\ i > Len(s0.pending) => /\ r.pending[i].request.from = g
                                           /\ r.pending[i].recv_time_ = rx_time
      <4>1. CASE i \in 1 .. old
        BY <4>1, <3>1, <1>1 DEF Extended
      <4>2. CASE i = old + 1
        <5>1. ~(i <= Len(s0.pending))
          BY <4>2, <3>1, <3>2
        <5>2. r.pending[i] = [recv_time_ |-> rx_time, request |-> m.body]
          BY <4>2, <3>1
        <5> QED BY <5>1, <5>2, <3>3
      <4> QED BY <4>1, <4>2, <3>1
    <3>5. Len(s0.pending) <= Len(r.pending)
      BY <3>1, <3>2
    <3> QED BY <3>4, <3>5 DEF Extended
  <2>3. r.pending = s.pending \/ Keeps(s, r, m, rx_time)
    BY <1>2 DEF Skips, Drops
  <2> QED BY <2>1, <2>2, <2>3
<1>6. Takes(taken, s0, g, rx_time, r)
  BY <1>1, <1>2, <1>3, <1>4, <1>5 DEF Takes
<1> QED BY <1>6 DEF r

LEMMA TakeRequestsTakes ==
  ASSUME NEW taken \in Seq(Requests), NEW s \in Server, Full(s), Bound(s, taken),
         NEW g \in Processes, NEW rx_time \in 1 .. MaxTime, NEW msgs \in Seq(RequestMessages(g))
  PROVE  /\ Takes(taken, s, g, rx_time, TakeRequests(s, msgs, g, rx_time))
         /\ msgs = << >> => TakeRequests(s, msgs, g, rx_time) = s
<1> DEFINE n == Len(msgs)
<1>1. n \in Nat /\ \A k \in 1 .. n : msgs[k] \in RequestMessages(g)
  BY ElementOfSeq
<1>2. PICK read : /\ RequestsRead(s, msgs, g, rx_time, n, read)
                  /\ TakeRequests(s, msgs, g, rx_time) = read[n]
  BY <1>1, TakeRequestsRead
<1>3. msgs = << >> => n = 0
  OBVIOUS
<1> HIDE DEF n
<1>4. read[0] = s /\ \A k \in 1 .. n : read[k] = TakeRequest(read[k - 1], msgs[k], g, rx_time)
  <2>1. \A k \in 0 .. n :
          read[k] = IF k = 0 THEN s ELSE TakeRequest(read[k - 1], msgs[k], g, rx_time)
    BY <1>2 DEF RequestsRead
  <2> QED BY <2>1, <1>1
<1> DEFINE T == {k \in 0 .. n : Takes(taken, s, g, rx_time, read[k])}
<1>5. 0 \in T
  <2>1. Extended(s, s, g, rx_time)
    BY DEF Extended, Server
  <2> QED BY <1>1, <1>4, <2>1 DEF Takes
<1>6. ASSUME NEW k \in 1 .. n, k - 1 \in T PROVE k \in T
  <2>1. Takes(taken, s, g, rx_time, TakeRequest(read[k - 1], msgs[k], g, rx_time))
    BY <1>1, <1>6, TakeRequestTakes
  <2> QED BY <2>1, <1>4, <1>1
<1> HIDE DEF T
<1>7. n \in T
  <2>1. n \in Nat /\ n \in 0 .. n
    BY <1>1
  <2>2. \A k \in 1 .. n : k - 1 \in T => k \in T
    BY <1>6
  <2> QED BY <2>1, <2>2, <1>5, UpTo
<1>8. Takes(taken, s, g, rx_time, read[n])
  BY <1>7 DEF T
<1>9. msgs = << >> => TakeRequests(s, msgs, g, rx_time) = s
  BY <1>2, <1>3, <1>4
<1> QED BY <1>2, <1>8, <1>9

(***************************************************************************)
(* The loop of OrderServer::run over outgoing_responses_.                  *)
(***************************************************************************)
ResponsesSent(st, rs, n, read) ==
  read = [k \in 0 .. n |-> IF k = 0 THEN st ELSE SendResponse(read[k - 1], rs[k])]

LEMMA ResponsesSentExists ==
  ASSUME NEW st, NEW rs, NEW n \in Nat
  PROVE  \E read : ResponsesSent(st, rs, n, read)
<1> DEFINE T == {m \in Nat : \E read : ResponsesSent(st, rs, m, read)}
<1>1. 0 \in T
  <2>1. ResponsesSent(st, rs, 0, [k \in 0 .. 0 |-> st])
    BY DEF ResponsesSent
  <2> QED BY <2>1
<1>2. ASSUME NEW m \in 1 .. n, m - 1 \in T PROVE m \in T
  <2>1. PICK f : ResponsesSent(st, rs, m - 1, f)
    BY <1>2
  <2> DEFINE h == [k \in 0 .. m |-> IF k < m THEN f[k] ELSE SendResponse(f[m - 1], rs[m])]
  <2>2. ASSUME NEW k \in 0 .. m
        PROVE  h[k] = IF k = 0 THEN st ELSE SendResponse(h[k - 1], rs[k])
    <3>1. CASE k = m
      BY <3>1
    <3>2. CASE k # m
      <4>1. k \in 0 .. (m - 1) /\ h[k] = f[k] /\ (k # 0 => h[k - 1] = f[k - 1])
        BY <3>2
      <4>2. f[k] = IF k = 0 THEN st ELSE SendResponse(f[k - 1], rs[k])
        BY <2>1, <4>1 DEF ResponsesSent
      <4> QED BY <4>1, <4>2
    <3> QED BY <3>1, <3>2
  <2>3. h = [k \in 0 .. m |-> h[k]]
    OBVIOUS
  <2> HIDE DEF h
  <2>4. ResponsesSent(st, rs, m, h)
    BY <2>2, <2>3 DEF ResponsesSent
  <2> QED BY <2>4
<1> HIDE DEF T
<1>3. n \in T
  BY <1>1, <1>2, UpTo
<1> QED BY <1>3 DEF T

LEMMA SendResponsesRead ==
  ASSUME NEW st, NEW rs, Len(rs) \in Nat
  PROVE  \E read : /\ ResponsesSent(st, rs, Len(rs), read)
                   /\ SendResponses(st, rs) = read[Len(rs)]
<1>1. \E read : ResponsesSent(st, rs, Len(rs), read)
  BY ResponsesSentExists
<1> DEFINE r == CHOOSE read : ResponsesSent(st, rs, Len(rs), read)
<1>2. ResponsesSent(st, rs, Len(rs), r)
  BY <1>1
<1>3. SendResponses(st, rs) = r[Len(rs)]
  BY DEF SendResponses, ResponsesSent
<1> QED BY <1>2, <1>3

LEMMA ResponseTypes ==
  ASSUME NEW rs \in Seq(Answers), NEW i \in 1 .. Len(rs)
  PROVE  rs[i].client \in Clients /\ rs[i].n \in Nat
<1>1. rs[i] \in Answers
  BY ElementOfSeq
<1> QED BY <1>1 DEF Answers

LEMMA QueuedHead ==
  ASSUME NEW rs \in Seq(Answers), NEW k \in 1 .. Len(rs),
         NEW next \in [Clients -> Positive], NEW last \in [Clients -> Nat],
         Queued(rs, k, next, last)
  PROVE  /\ rs[k].n = next[rs[k].client]
         /\ Queued(rs, k + 1, [next EXCEPT ![rs[k].client] = @ + 1], last)
<1> DEFINE c == rs[k].client
           new == [next EXCEPT ![c] = @ + 1]
<1>1. /\ Len(rs) \in Nat
      /\ \A i \in 1 .. Len(rs) : rs[i].client \in Clients /\ rs[i].n \in Nat
  <2>1. Len(rs) \in Nat
    OBVIOUS
  <2> QED BY <2>1, ResponseTypes
<1>2. /\ \A i \in k .. Len(rs) : next[rs[i].client] <= rs[i].n /\ rs[i].n <= last[rs[i].client]
      /\ \A i, j \in k .. Len(rs) : i < j /\ rs[i].client = rs[j].client => rs[i].n < rs[j].n
      /\ \A d \in Clients : /\ next[d] <= last[d] + 1
                            /\ \A n \in next[d] .. last[d] :
                                 \E i \in k .. Len(rs) : rs[i].client = d /\ rs[i].n = n
  BY DEF Queued
<1>3. /\ c \in Clients /\ next[c] \in Nat /\ last[c] \in Nat /\ rs[k].n \in Nat
      /\ next[c] <= rs[k].n /\ rs[k].n <= last[c]
  <2>1. c \in Clients /\ rs[k].n \in Nat
    BY <1>1
  <2>2. next[c] \in Nat /\ last[c] \in Nat
    BY <2>1 DEF Positive
  <2>3. k \in k .. Len(rs)
    BY <1>1
  <2>4. next[c] <= rs[k].n /\ rs[k].n <= last[c]
    BY <2>3, <1>2
  <2> QED BY <2>1, <2>2, <2>4
<1>4. rs[k].n = next[c]
  <2>1. PICK i \in k .. Len(rs) : rs[i].client = c /\ rs[i].n = next[c]
    <3>1. next[c] \in next[c] .. last[c]
      BY <1>3
    <3>2. \A n \in next[c] .. last[c] : \E i \in k .. Len(rs) : rs[i].client = c /\ rs[i].n = n
      <4>1. c \in Clients
        BY <1>3
      <4> HIDE DEF c
      <4> QED BY <4>1, <1>2
    <3> HIDE DEF c
    <3> QED BY <3>1, <3>2
  <2>2. CASE i = k
    BY <2>1, <2>2
  <2>3. CASE i # k
    <3>1. k \in k .. Len(rs) /\ k < i
      BY <2>3, <1>1
    <3>2. rs[k].n < rs[i].n
      BY <2>1, <3>1, <1>2
    <3> QED BY <2>1, <3>2, <1>3
  <2> QED BY <2>2, <2>3
<1>5. new[c] = next[c] + 1 /\ \A d \in Clients : d # c => new[d] = next[d]
  BY <1>3
<1> HIDE DEF new, c
<1>6. ASSUME NEW i \in (k + 1) .. Len(rs)
      PROVE  new[rs[i].client] <= rs[i].n /\ rs[i].n <= last[rs[i].client]
  <2>1. i \in k .. Len(rs) /\ k \in k .. Len(rs) /\ k < i /\ i \in 1 .. Len(rs)
    BY <1>1
  <2>2. CASE rs[i].client = c
    <3>1. rs[k].n < rs[i].n
      BY <1>2, <2>1, <2>2 DEF c
    <3>2. next[c] + 1 <= rs[i].n
      BY <3>1, <1>1, <1>3, <1>4, <2>1
    <3> QED BY <3>2, <1>2, <1>5, <2>1, <2>2
  <2>3. CASE rs[i].client # c
    BY <1>1, <1>2, <1>5, <2>1, <2>3
  <2> QED BY <2>2, <2>3
<1>7. ASSUME NEW i \in (k + 1) .. Len(rs), NEW j \in (k + 1) .. Len(rs),
             i < j, rs[i].client = rs[j].client
      PROVE  rs[i].n < rs[j].n
  <2>1. i \in k .. Len(rs) /\ j \in k .. Len(rs)
    BY <1>1
  <2> QED BY <2>1, <1>2, <1>7
<1>8. ASSUME NEW d \in Clients
      PROVE  /\ new[d] <= last[d] + 1
             /\ \A n \in new[d] .. last[d] :
                  \E i \in (k + 1) .. Len(rs) : rs[i].client = d /\ rs[i].n = n
  <2>1. next[d] \in Nat /\ last[d] \in Nat
    BY DEF Positive
  <2>2. new[d] <= last[d] + 1
    <3>1. CASE d = c
      BY <3>1, <1>3, <1>5
    <3>2. CASE d # c
      BY <3>2, <1>2, <1>5
    <3> QED BY <3>1, <3>2
  <2>3. ASSUME NEW n \in new[d] .. last[d]
        PROVE  \E i \in (k + 1) .. Len(rs) : rs[i].client = d /\ rs[i].n = n
    <3>1. n \in next[d] .. last[d] /\ ~(d = c /\ n = next[c])
      <4>1. CASE d = c
        BY <4>1, <1>3, <1>5, <2>1
      <4>2. CASE d # c
        BY <4>2, <1>5, <2>1
      <4> QED BY <4>1, <4>2
    <3>2. PICK i \in k .. Len(rs) : rs[i].client = d /\ rs[i].n = n
      BY <3>1, <1>2
    <3>3. i # k
      BY <3>1, <3>2, <1>4 DEF c
    <3>4. i \in (k + 1) .. Len(rs)
      BY <3>3, <1>1
    <3> QED BY <3>2, <3>4
  <2> QED BY <2>2, <2>3
<1>9. Queued(rs, k + 1, new, last)
  BY <1>6, <1>7, <1>8 DEF Queued
<1> QED BY <1>4, <1>9 DEF new, c

\* What the first k responses make of the server s and its sockets; heard are the processes
\* that they may go to.
SendsTo(heard, s, sockets, rs, last, k, st) ==
  /\ st \in [server : Server, socket : [Processes -> Socket]]
  /\ st.server.cid_tcp_socket_ = s.cid_tcp_socket_
  /\ st.server.cid_next_exp_seq_num_ = s.cid_next_exp_seq_num_
  /\ st.server.pending = s.pending /\ st.server.exited = s.exited
  /\ Queued(rs, k + 1, st.server.cid_next_outgoing_seq_num_, last)
  /\ \A g \in Processes : /\ Framed(st.socket[g].outbound, AnswerMessages)
                          /\ st.socket[g].inbound = sockets[g].inbound
                          /\ st.socket[g].outbound = sockets[g].outbound \/ g \in heard

LEMMA UnitsFacts ==
  ASSUME NEW r \in Answers
  PROVE  Units(r.n, r) \in Seq(AnswerUnits) /\ Framed(Units(r.n, r), AnswerMessages)
<1>1. r.n \in Positive
  BY DEF Answers, Positive
<1>2. [seq |-> r.n] \in AnswerUnits /\ [body |-> r] \in AnswerUnits
  BY <1>1 DEF AnswerUnits
<1>3. [seq |-> r.n, body |-> r] \in AnswerMessages
  BY <1>1 DEF AnswerMessages
<1>4. Framed(Units(r.n, r), AnswerMessages)
  BY <1>3, FramedUnits
<1> QED BY <1>2, <1>4 DEF Units

LEMMA SendResponseSends ==
  ASSUME NEW heard \in SUBSET Processes, NEW s \in Server, NEW sockets,
         NEW rs \in Seq(Answers), NEW last \in [Clients -> Nat],
         \A i \in 1 .. Len(rs) : s.cid_tcp_socket_[rs[i].client] \in heard,
         NEW k \in 1 .. Len(rs), NEW st, SendsTo(heard, s, sockets, rs, last, k - 1, st)
  PROVE  SendsTo(heard, s, sockets, rs, last, k, SendResponse(st, rs[k]))
<1> DEFINE r == rs[k]
           g == st.server.cid_tcp_socket_[r.client]
           next == st.server.cid_next_outgoing_seq_num_
           out == st.socket[g].outbound \o Units(next[r.client], r)
           sv == [st.server EXCEPT !.cid_next_outgoing_seq_num_[r.client] = @ + 1]
           sk == [st.socket EXCEPT ![g].outbound = out]
<1>1. r \in Answers /\ r.client \in Clients
  <2>1. r \in Answers
    BY ElementOfSeq
  <2> QED BY <2>1 DEF Answers
<1>2. /\ st.server \in Server /\ st.socket \in [Processes -> Socket]
      /\ st \in [server : Server, socket : [Processes -> Socket]]
      /\ st.server.cid_tcp_socket_ = s.cid_tcp_socket_
      /\ st.server.cid_next_exp_seq_num_ = s.cid_next_exp_seq_num_
      /\ st.server.pending = s.pending /\ st.server.exited = s.exited
      /\ next \in [Clients -> Positive]
      /\ \A f \in Processes : /\ Framed(st.socket[f].outbound, AnswerMessages)
                              /\ st.socket[f].inbound = sockets[f].inbound
                              /\ st.socket[f].outbound = sockets[f].outbound \/ f \in heard
  BY DEF SendsTo, Server
<1>3. g \in heard /\ g \in Processes /\ g # None
  <2>1. s.cid_tcp_socket_[rs[k].client] \in heard
    OBVIOUS
  <2> QED BY <2>1, <1>2, ProcessAssumption
<1>4. Queued(rs, k, next, last)
  <2>1. k - 1 + 1 = k
    OBVIOUS
  <2>2. Queued(rs, k - 1 + 1, next, last)
    BY DEF SendsTo
  <2> QED BY <2>1, <2>2
<1>5. r.n = next[r.client] /\ Queued(rs, k + 1, [next EXCEPT ![r.client] = @ + 1], last)
  BY <1>2, <1>4, QueuedHead
<1>6. SendResponse(st, r) = [server |-> sv, socket |-> sk]
  BY <1>3 DEF SendResponse
<1>7. /\ sv \in Server /\ sv.cid_tcp_socket_ = st.server.cid_tcp_socket_
      /\ sv.cid_next_exp_seq_num_ = st.server.cid_next_exp_seq_num_
      /\ sv.pending = st.server.pending /\ sv.exited = st.server.exited
      /\ sv.cid_next_outgoing_seq_num_ = [next EXCEPT ![r.client] = @ + 1]
  <2>1. [next EXCEPT ![r.client] = @ + 1] \in [Clients -> Positive]
    <3> HIDE DEF next, r
    <3> QED BY <1>1, <1>2 DEF Positive
  <2> QED BY <2>1, <1>1, <1>2 DEF Server
<1>8. out \in Seq(AnswerUnits) /\ Framed(out, AnswerMessages)
  <2>1. /\ st.socket[g].outbound \in Seq(AnswerUnits)
        /\ Framed(st.socket[g].outbound, AnswerMessages)
    BY <1>2, <1>3 DEF Socket
  <2>2. Units(r.n, r) \in Seq(AnswerUnits) /\ Framed(Units(r.n, r), AnswerMessages)
    BY <1>1, UnitsFacts
  <2>3. out = st.socket[g].outbound \o Units(r.n, r)
    BY <1>5
  <2> HIDE DEF r, g, next, out
  <2>4. out \in Seq(AnswerUnits)
    BY <2>1, <2>2, <2>3, ConcatProperties
  <2>5. Framed(out, AnswerMessages)
    BY <2>1, <2>2, <2>3, FramedConcat
  <2> QED BY <2>4, <2>5
<1> HIDE DEF r, g, next, out
<1>9. /\ sk \in [Processes -> Socket]
      /\ \A f \in Processes : /\ sk[f].inbound = st.socket[f].inbound
                              /\ f # g => sk[f].outbound = st.socket[f].outbound
                              /\ f = g => sk[f].outbound = out
  BY <1>2, <1>3, <1>8 DEF Socket
<1> HIDE DEF sv, sk
<1>10. \A f \in Processes : /\ Framed(sk[f].outbound, AnswerMessages)
                            /\ sk[f].inbound = sockets[f].inbound
                            /\ sk[f].outbound = sockets[f].outbound \/ f \in heard
  <2> SUFFICES ASSUME NEW f \in Processes
               PROVE  /\ Framed(sk[f].outbound, AnswerMessages)
                      /\ sk[f].inbound = sockets[f].inbound
                      /\ sk[f].outbound = sockets[f].outbound \/ f \in heard
    OBVIOUS
  <2>1. CASE f = g
    BY <2>1, <1>2, <1>3, <1>8, <1>9
  <2>2. CASE f # g
    BY <2>2, <1>2, <1>9
  <2> QED BY <2>1, <2>2
<1>11. SendsTo(heard, s, sockets, rs, last, k, [server |-> sv, socket |-> sk])
  <2>1. [server |-> sv, socket |-> sk] \in [server : Server, socket : [Processes -> Socket]]
    BY <1>7, <1>9
  <2>2. Queued(rs, k + 1, sv.cid_next_outgoing_seq_num_, last)
    BY <1>5, <1>7
  <2>3. /\ sv.cid_tcp_socket_ = s.cid_tcp_socket_
        /\ sv.cid_next_exp_seq_num_ = s.cid_next_exp_seq_num_
        /\ sv.pending = s.pending /\ sv.exited = s.exited
    BY <1>2, <1>7
  <2> QED BY <2>1, <2>2, <2>3, <1>10 DEF SendsTo
<1> QED BY <1>6, <1>11 DEF r

LEMMA SendResponsesSends ==
  ASSUME NEW heard \in SUBSET Processes, NEW s \in Server,
         NEW sockets \in [Processes -> Socket],
         \A g \in Processes : Framed(sockets[g].outbound, AnswerMessages),
         NEW rs \in Seq(Answers), NEW last \in [Clients -> Nat],
         \A i \in 1 .. Len(rs) : s.cid_tcp_socket_[rs[i].client] \in heard,
         Queued(rs, 1, s.cid_next_outgoing_seq_num_, last)
  PROVE  SendsTo(heard, s, sockets, rs, last, Len(rs),
                 SendResponses([server |-> s, socket |-> sockets], rs))
<1> DEFINE n == Len(rs)
           st == [server |-> s, socket |-> sockets]
<1>1. n \in Nat
  OBVIOUS
<1>2. SendsTo(heard, s, sockets, rs, last, 0, st)
  <2>1. st \in [server : Server, socket : [Processes -> Socket]]
    OBVIOUS
  <2>2. Queued(rs, 0 + 1, st.server.cid_next_outgoing_seq_num_, last)
    OBVIOUS
  <2> QED BY <2>1, <2>2 DEF SendsTo
<1>3. PICK sent : ResponsesSent(st, rs, n, sent) /\ SendResponses(st, rs) = sent[n]
  BY <1>1, SendResponsesRead
<1> HIDE DEF n, st
<1>4. sent[0] = st /\ \A k \in 1 .. n : sent[k] = SendResponse(sent[k - 1], rs[k])
  <2>1. \A k \in 0 .. n : sent[k] = IF k = 0 THEN st ELSE SendResponse(sent[k - 1], rs[k])
    BY <1>3 DEF ResponsesSent
  <2> QED BY <2>1, <1>1
<1> DEFINE T == {k \in 0 .. n : SendsTo(heard, s, sockets, rs, last, k, sent[k])}
<1>5. 0 \in T
  BY <1>1, <1>2, <1>4
<1>6. ASSUME NEW k \in 1 .. n, k - 1 \in T PROVE k \in T
  <2>1. SendsTo(heard, s, sockets, rs, last, k, SendResponse(sent[k - 1], rs[k]))
    <3>1. k \in 1 .. Len(rs)
      BY DEF n
    <3>2. SendsTo(heard, s, sockets, rs, last, k - 1, sent[k - 1])
      BY <1>6
    <3> QED BY <3>1, <3>2, SendResponseSends
  <2> QED BY <2>1, <1>4, <1>1
<1> HIDE DEF T
<1>7. n \in T
  <2>1. n \in Nat /\ n \in 0 .. n
    BY <1>1
  <2>2. \A k \in 1 .. n : k - 1 \in T => k \in T
    BY <1>6
  <2> QED BY <2>1, <2>2, <1>5, UpTo
<1>8. SendsTo(heard, s, sockets, rs, last, n, sent[n])
  BY <1>7 DEF T
<1> QED BY <1>3, <1>8 DEF n, st

LEMMA QueuedAppend ==
  ASSUME NEW rs \in Seq(Answers), NEW next \in [Clients -> Positive],
         NEW last \in [Clients -> Nat], Queued(rs, 1, next, last),
         NEW a \in Answers, a.n = last[a.client] + 1
  PROVE  Queued(Append(rs, a), 1, next, [last EXCEPT ![a.client] = @ + 1])
<1> DEFINE c == a.client
           new == [last EXCEPT ![c] = @ + 1]
           q == Append(rs, a)
           n == Len(rs)
<1>1. /\ n \in Nat /\ c \in Clients
      /\ \A i \in 1 .. n : rs[i].client \in Clients /\ rs[i].n \in Nat
  <2>1. n \in Nat
    OBVIOUS
  <2>2. c \in Clients
    BY DEF Answers
  <2> QED BY <2>1, <2>2, ResponseTypes
<1>2. Len(q) = n + 1 /\ q[n + 1] = a /\ \A i \in 1 .. n : q[i] = rs[i]
  OBVIOUS
<1>3. /\ new[c] = last[c] + 1 /\ last[c] \in Nat /\ next[c] \in Nat
      /\ \A d \in Clients : /\ d # c => new[d] = last[d]
                            /\ last[d] <= new[d] /\ last[d] \in Nat /\ new[d] \in Nat
  BY <1>1 DEF Positive
<1>4. /\ \A i \in 1 .. n : next[rs[i].client] <= rs[i].n /\ rs[i].n <= last[rs[i].client]
      /\ \A i, j \in 1 .. n : i < j /\ rs[i].client = rs[j].client => rs[i].n < rs[j].n
      /\ \A d \in Clients : /\ next[d] <= last[d] + 1
                            /\ \A k \in next[d] .. last[d] :
                                 \E i \in 1 .. n : rs[i].client = d /\ rs[i].n = k
  BY DEF Queued
<1> HIDE DEF c, new, q, n
<1>5. a.client = c /\ a.n = last[c] + 1
  BY DEF c
<1>6. ASSUME NEW i \in 1 .. Len(q)
      PROVE  next[q[i].client] <= q[i].n /\ q[i].n <= new[q[i].client]
  <2>1. CASE i \in 1 .. n
    <3> DEFINE d == rs[i].client
    <3>1. q[i] = rs[i] /\ d \in Clients /\ rs[i].n \in Nat
      BY <2>1, <1>1, <1>2
    <3>2. next[d] <= rs[i].n /\ rs[i].n <= last[d]
      BY <2>1, <1>4
    <3> HIDE DEF d
    <3>3. rs[i].n <= new[d]
      BY <3>1, <3>2, <1>3
    <3> QED BY <3>1, <3>2, <3>3 DEF d
  <2>2. CASE i = n + 1
    <3>1. q[i] = a
      BY <2>2, <1>2
    <3>2. next[c] <= last[c] + 1
      BY <1>1, <1>4
    <3>3. next[c] <= a.n /\ a.n <= new[c]
      BY <3>2, <1>3, <1>5
    <3> QED BY <3>1, <3>3, <1>5
  <2> QED BY <2>1, <2>2, <1>1, <1>2
<1>7. ASSUME NEW i \in 1 .. Len(q), NEW j \in 1 .. Len(q), i < j, q[i].client = q[j].client
      PROVE  q[i].n < q[j].n
  <2>1. i \in 1 .. n /\ q[i] = rs[i]
    BY <1>1, <1>2, <1>7
  <2>2. CASE j \in 1 .. n
    BY <2>1, <2>2, <1>2, <1>4, <1>7
  <2>3. CASE j = n + 1
    <3>1. rs[i].client = c /\ q[j].n = last[c] + 1
      BY <2>1, <2>3, <1>2, <1>5, <1>7
    <3>2. rs[i].n <= last[c] /\ rs[i].n \in Nat
      BY <2>1, <3>1, <1>1, <1>4
    <3> QED BY <2>1, <3>1, <3>2, <1>3
  <2> QED BY <2>2, <2>3, <1>1, <1>2
<1>8. ASSUME NEW d \in Clients
      PROVE  /\ next[d] <= new[d] + 1
             /\ \A k \in next[d] .. new[d] :
                  \E i \in 1 .. Len(q) : q[i].client = d /\ q[i].n = k
  <2>1. next[d] \in Nat
    BY DEF Positive
  <2>2. next[d] <= new[d] + 1
    BY <2>1, <1>3, <1>4
  <2>3. ASSUME NEW k \in next[d] .. new[d]
        PROVE  \E i \in 1 .. Len(q) : q[i].client = d /\ q[i].n = k
    <3>1. CASE d = c /\ k = last[c] + 1
      <4>1. n + 1 \in 1 .. Len(q) /\ q[n + 1].client = d /\ q[n + 1].n = k
        BY <3>1, <1>1, <1>2, <1>5
      <4> QED BY <4>1
    <3>2. CASE ~(d = c /\ k = last[c] + 1)
      <4>1. k \in next[d] .. last[d]
        <5>1. CASE d = c
          BY <5>1, <3>2, <2>1, <1>3
        <5>2. CASE d # c
          BY <5>2, <1>3
        <5> QED BY <5>1, <5>2
      <4>2. PICK i \in 1 .. n : rs[i].client = d /\ rs[i].n = k
        BY <4>1, <1>4
      <4>3. i \in 1 .. Len(q) /\ q[i] = rs[i]
        BY <1>1, <1>2
      <4> QED BY <4>2, <4>3
    <3> QED BY <3>1, <3>2
  <2> QED BY <2>2, <2>3
<1>9. Queued(q, 1, next, new)
  BY <1>6, <1>7, <1>8 DEF Queued
<1> QED BY <1>9 DEF q, new, c

(***************************************************************************)
(* The invariant holds in every state.                                     *)
(***************************************************************************)
LEMMA InvImpliesTypeOK == Inv => TypeOK
<1> SUFFICES ASSUME Inv PROVE TypeOK
  OBVIOUS
<1>1. ASSUME NEW g \in Processes
      PROVE  /\ Numbered(g) \in Nat /\ ToSet(gateway[g].got) \subseteq Answers
             /\ Len(gateway[g].inbound) <= 1 /\ Len(socket[g].inbound) <= 1
  <2>1. gateway[g] \in Gateway
    BY DEF Inv, ClientTypes
  <2>2. Numbered(g) \in Nat
    BY <2>1 DEF Gateway, Positive, Numbered
  <2>3. ToSet(gateway[g].got) \subseteq Answers
    BY <2>1 DEF Gateway, ToSet
  <2> QED BY <2>2, <2>3 DEF Inv, Streams, StreamsOf
<1>2. Connected \subseteq Processes
  BY DEF Inv, ServerTypes, Connected, ToSet
<1>3. /\ server.cid_tcp_socket_ \in [Clients -> Processes \cup {None}]
      /\ server.exited \in BOOLEAN
  BY DEF Inv, ServerTypes, Server
<1>4. /\ \A i \in 1 .. Len(published) : published[i] \in Requests
      /\ ToSet(responses) \subseteq Answers
  BY DEF Inv, EngineTypes, ToSet
<1> QED BY <1>1, <1>2, <1>3, <1>4 DEF Inv, TypeOK, ClientTypes, ServerTypes, EngineTypes, Full

LEMMA InvImpliesResponsesInOrder == Inv => ResponsesInOrder
<1> SUFFICES ASSUME Inv PROVE ResponsesInOrder
  OBVIOUS
<1>1. ExitsOnlyWhenFull
  BY DEF Inv, Full, ExitsOnlyWhenFull
<1>2. ASSUME NEW g \in Processes
      PROVE  /\ \A i \in 1 .. Len(gateway[g].got) :
                  gateway[g].got[i].client = gateway[g].client_id_ /\ gateway[g].got[i].n = i
             /\ gateway[g].got # << >> => \E i \in 1 .. handled : published[i].from = g
  BY DEF Inv, AllInOrder, GotInOrder, OnlyHeard, Silent, HandledFrom
<1> QED BY <1>1, <1>2 DEF ResponsesInOrder

LEMMA InitInv == Init => Inv
<1> SUFFICES ASSUME Init PROVE Inv
  OBVIOUS
<1>1. PICK ids \in [Processes -> Clients] :
        gateway = [g \in Processes |-> [client_id_ |-> ids[g],
                     next_outgoing_seq_num_ |-> 1, next_exp_seq_num_ |-> 1,
                     outbound |-> << >>, inbound |-> << >>, got |-> << >>]]
  BY DEF Init
<1>2. 1 \in Positive /\ 0 \in 0 .. MaxShort /\ 0 \in 0 .. MaxFills /\ 0 \in Nat
  BY BoundAssumption DEF Positive
<1>3. ClientTypes
  BY <1>1, <1>2 DEF Init, ClientTypes, Gateway
<1>4. server \in Server
  BY <1>2 DEF Init, Server
<1>5. ServerTypes
  <2>1. socket \in [Processes -> Socket]
    BY DEF Init, Socket
  <2>2. backlog \in Seq(Processes) /\ receive_sockets_ \in Seq(Processes) /\ left \in Seq(Processes)
    BY DEF Init
  <2>3. at \in {"poll", "sockets", "respond"} /\ received \in BOOLEAN
    BY DEF Init
  <2> QED BY <2>1, <2>2, <2>3, <1>4 DEF ServerTypes
<1>6. EngineTypes
  BY <1>2 DEF Init, EngineTypes
<1>7. ToSet(left) \subseteq ToSet(receive_sockets_)
  BY DEF Init
<1>8. ASSUME NEW g \in Processes
      PROVE  /\ StreamsOf(g, gateway[g], socket[g], up[g], down[g])
             /\ GotInOrder(gateway[g]) /\ Silent(gateway[g], socket[g], down[g])
  <2>1. /\ gateway[g].outbound = << >> /\ gateway[g].inbound = << >> /\ gateway[g].got = << >>
        /\ gateway[g].next_exp_seq_num_ = 1
        /\ socket[g].inbound = << >> /\ socket[g].outbound = << >>
        /\ up[g] = << >> /\ down[g] = << >>
    BY <1>1 DEF Init
  <2>2. << >> \o << >> = << >>
    OBVIOUS
  <2>3. Framed(<< >>, RequestMessages(g)) /\ Framed(<< >>, AnswerMessages)
    BY FramedEmpty
  <2>4. StreamsOf(g, gateway[g], socket[g], up[g], down[g])
    BY <2>1, <2>2, <2>3 DEF StreamsOf
  <2> QED BY <2>1, <2>4 DEF GotInOrder, Silent
<1>9. Bound(server, published) /\ Full(server) /\ (server.exited => at = "sockets")
  <2>1. server.pending = << >> /\ server.exited = FALSE /\ published = << >>
    BY DEF Init
  <2>2. Len(server.pending) = 0 /\ Len(published) = 0 /\ ~server.exited
    BY <2>1
  <2> QED BY <2>2, BoundAssumption DEF Bound, Full
<1>10. Queued(responses, 1, server.cid_next_outgoing_seq_num_, answered)
  BY DEF Init, Queued
<1>11. AnswersHandled
  BY DEF Init, AnswersHandled
<1> QED BY <1>3, <1>5, <1>6, <1>7, <1>8, <1>9, <1>10, <1>11 DEF Inv, Streams, AllInOrder, OnlyHeard

\* The parts that depend on the server, its queue and the engine alone.
ServerSide ==
  /\ Bound(server, published) /\ Full(server)
  /\ Queued(responses, 1, server.cid_next_outgoing_seq_num_, answered)
  /\ AnswersHandled

LEMMA ServerSideStays ==
  ASSUME Inv, UNCHANGED <<server, published, handled, answered, responses>>
  PROVE  ServerSide' /\ \A g : HandledFrom(g)' = HandledFrom(g)
<1>1. /\ Bound(server, published)' /\ Full(server)'
      /\ Queued(responses, 1, server.cid_next_outgoing_seq_num_, answered)'
  BY DEF Inv, Bound, Full, Queued
<1>2. AnswersHandled'
  BY DEF Inv, AnswersHandled, Handled
<1> QED BY <1>1, <1>2 DEF ServerSide, HandledFrom

LEMMA StutterInv == ASSUME Inv, UNCHANGED vars PROVE Inv'
<1>1. UNCHANGED <<gateway, up, down, shorts, backlog, receive_sockets_, socket, at, left,
                  received, server, published, handled, answered, fills, responses>>
  BY DEF vars, network, tcp_server, thread, engine
<1>2. ServerSide' /\ \A g : HandledFrom(g)' = HandledFrom(g)
  BY <1>1, ServerSideStays
<1>3. ClientTypes' /\ ServerTypes' /\ EngineTypes'
  BY <1>1 DEF Inv, ClientTypes, ServerTypes, EngineTypes
<1>4. Streams' /\ AllInOrder'
  BY <1>1 DEF Inv, Streams, AllInOrder
<1>5. OnlyHeard'
  BY <1>1, <1>2 DEF Inv, OnlyHeard
<1>6. (ToSet(left) \subseteq ToSet(receive_sockets_))' /\ (server.exited => at = "sockets")'
  BY <1>1 DEF Inv, ToSet
<1> QED BY <1>2, <1>3, <1>4, <1>5, <1>6 DEF Inv, ServerSide

LEMMA StartInv == ASSUME Inv, NEW g \in Processes, Start(g) PROVE Inv'
<1>1. /\ UNCHANGED <<gateway, up, down, shorts, receive_sockets_, socket, at, left,
                     received, server, published, handled, answered, fills, responses>>
      /\ backlog' = Append(backlog, g)
  BY DEF Start, network, thread, engine
<1>2. ServerSide' /\ \A f : HandledFrom(f)' = HandledFrom(f)
  BY <1>1, ServerSideStays
<1>3. ClientTypes' /\ EngineTypes'
  BY <1>1 DEF Inv, ClientTypes, EngineTypes
<1>4. ServerTypes'
  BY <1>1 DEF Inv, ServerTypes
<1>5. Streams' /\ AllInOrder'
  BY <1>1 DEF Inv, Streams, AllInOrder
<1>6. OnlyHeard'
  BY <1>1, <1>2 DEF Inv, OnlyHeard
<1>7. (ToSet(left) \subseteq ToSet(receive_sockets_))' /\ (server.exited => at = "sockets")'
  BY <1>1 DEF Inv, ToSet
<1> QED BY <1>2, <1>3, <1>4, <1>5, <1>6, <1>7 DEF Inv, ServerSide

LEMMA PollInv == ASSUME Inv, Poll PROVE Inv'
<1>1. /\ UNCHANGED <<gateway, up, down, shorts, socket, server, published, handled,
                     answered, fills, responses>>
      /\ receive_sockets_' = receive_sockets_ \o backlog /\ left' = receive_sockets_'
      /\ backlog' = << >> /\ at' = "sockets" /\ received' = FALSE
  BY DEF Poll, network, engine
<1>2. ServerSide' /\ \A f : HandledFrom(f)' = HandledFrom(f)
  BY <1>1, ServerSideStays
<1>3. ClientTypes' /\ EngineTypes'
  BY <1>1 DEF Inv, ClientTypes, EngineTypes
<1>4. ServerTypes'
  <2>1. backlog \in Seq(Processes) /\ receive_sockets_ \in Seq(Processes)
    BY DEF Inv, ServerTypes
  <2>2. receive_sockets_' \in Seq(Processes)
    BY <2>1, <1>1, ConcatProperties
  <2>3. backlog' \in Seq(Processes)
    BY <1>1
  <2>4. received' \in BOOLEAN
    BY <1>1
  <2> QED BY <2>2, <2>3, <2>4, <1>1 DEF Inv, ServerTypes
<1>5. Streams' /\ AllInOrder'
  BY <1>1 DEF Inv, Streams, AllInOrder
<1>6. OnlyHeard'
  BY <1>1, <1>2 DEF Inv, OnlyHeard
<1>7. (ToSet(left) \subseteq ToSet(receive_sockets_))' /\ (server.exited => at = "sockets")'
  BY <1>1
<1> QED BY <1>2, <1>3, <1>4, <1>5, <1>6, <1>7 DEF Inv, ServerSide

LEMMA SendRequestInv == ASSUME Inv, NEW g \in Processes, SendRequest(g) PROVE Inv'
<1> DEFINE n == gateway[g].next_outgoing_seq_num_
           b == [client |-> gateway[g].client_id_, from |-> g, n |-> n]
           out == gateway[g].outbound \o Units(n, b)
<1>1. /\ UNCHANGED <<up, down, shorts, backlog, receive_sockets_, socket, at, left,
                     received, server, published, handled, answered, fills, responses>>
      /\ gateway' = [gateway EXCEPT ![g].outbound = out, ![g].next_outgoing_seq_num_ = n + 1]
  BY DEF SendRequest, network, tcp_server, thread, engine, Inv, ClientTypes, Gateway
<1>2. ServerSide' /\ \A f : HandledFrom(f)' = HandledFrom(f)
  BY <1>1, ServerSideStays
<1>3. gateway[g] \in Gateway /\ gateway \in [Processes -> Gateway]
  BY DEF Inv, ClientTypes
<1>4. n \in Positive /\ n + 1 \in Positive /\ b \in Requests
  BY <1>3 DEF Gateway, Positive, Requests
<1>5. out \in Seq(RequestUnits) /\ Framed(out, RequestMessages(g))
  <2>1. [seq |-> n] \in RequestUnits /\ [body |-> b] \in RequestUnits
    BY <1>4 DEF RequestUnits
  <2>2. [seq |-> n, body |-> b] \in RequestMessages(g)
    BY <1>4 DEF RequestMessages
  <2>3. Units(n, b) \in Seq(RequestUnits)
    BY <2>1 DEF Units
  <2>4. Framed(Units(n, b), RequestMessages(g))
    BY <2>2, FramedUnits
  <2>5. /\ gateway[g].outbound \in Seq(RequestUnits)
        /\ Framed(gateway[g].outbound, RequestMessages(g))
    BY <1>3 DEF Gateway, Inv, Streams, StreamsOf
  <2> HIDE DEF b, n
  <2>6. Framed(out, RequestMessages(g))
    BY <2>3, <2>4, <2>5, FramedConcat
  <2>7. out \in Seq(RequestUnits)
    BY <2>3, <2>5, ConcatProperties
  <2> QED BY <2>6, <2>7
<1> HIDE DEF out, n, b
<1>6. /\ gateway' \in [Processes -> Gateway]
      /\ \A f \in Processes : f # g => gateway'[f] = gateway[f]
      /\ gateway'[g].outbound = out /\ gateway'[g].inbound = gateway[g].inbound
      /\ gateway'[g].got = gateway[g].got /\ gateway'[g].client_id_ = gateway[g].client_id_
      /\ gateway'[g].next_exp_seq_num_ = gateway[g].next_exp_seq_num_
  BY <1>1, <1>3, <1>4, <1>5 DEF Gateway
<1>7. ClientTypes' /\ EngineTypes'
  BY <1>1, <1>6 DEF Inv, ClientTypes, EngineTypes
<1>8. ServerTypes'
  BY <1>1 DEF Inv, ServerTypes
<1>9. ASSUME NEW f \in Processes
      PROVE  /\ StreamsOf(f, gateway[f], socket[f], up[f], down[f])'
             /\ GotInOrder(gateway[f])'
             /\ HandledFrom(f)' \/ Silent(gateway[f], socket[f], down[f])'
  <2>1. /\ StreamsOf(f, gateway[f], socket[f], up[f], down[f]) /\ GotInOrder(gateway[f])
        /\ HandledFrom(f) \/ Silent(gateway[f], socket[f], down[f])
    BY DEF Inv, Streams, AllInOrder, OnlyHeard
  <2>2. CASE f # g
    BY <2>1, <2>2, <1>1, <1>2, <1>6
  <2>3. CASE f = g
    <3>1. StreamsOf(f, gateway[f], socket[f], up[f], down[f])'
      BY <2>1, <2>3, <1>1, <1>5, <1>6 DEF StreamsOf
    <3>2. GotInOrder(gateway[f])'
      BY <2>1, <2>3, <1>6 DEF GotInOrder
    <3>3. HandledFrom(f)' \/ Silent(gateway[f], socket[f], down[f])'
      BY <2>1, <2>3, <1>1, <1>2, <1>6 DEF Silent
    <3> QED BY <3>1, <3>2, <3>3
  <2> QED BY <2>2, <2>3
<1>10. (ToSet(left) \subseteq ToSet(receive_sockets_))' /\ (server.exited => at = "sockets")'
  BY <1>1 DEF Inv, ToSet
<1> QED BY <1>2, <1>7, <1>8, <1>9, <1>10 DEF Inv, ServerSide, Streams, AllInOrder, OnlyHeard

\* ::send() and recvmsg() of TCPSocket::sendAndRecv.
LEMMA SentFacts ==
  ASSUME shorts \in 0 .. MaxShort, NEW U, NEW M, NEW outbound \in Seq(U), Framed(outbound, M),
         NEW stream \in Seq(U), NEW inbound \in Seq(U), Framed(inbound \o stream, M),
         NEW k \in Sent(outbound)
  PROVE  /\ shorts + ShortOf(outbound, k) \in 0 .. MaxShort
         /\ stream \o SubSeq(outbound, 1, k) \in Seq(U)
         /\ Framed(inbound \o (stream \o SubSeq(outbound, 1, k)), M)
         /\ outbound = << >> /\ stream = << >> => stream \o SubSeq(outbound, 1, k) = << >>
<1> DEFINE p == SubSeq(outbound, 1, k)
<1>1. k \in 0 .. Len(outbound) /\ k % 2 = 0 /\ (k < Len(outbound) => shorts < MaxShort)
  BY DEF Sent
<1>2. p \in Seq(U) /\ Framed(p, M)
  BY <1>1, FramedPrefix
<1>3. shorts + ShortOf(outbound, k) \in 0 .. MaxShort
  BY <1>1, BoundAssumption DEF ShortOf
<1>4. outbound = << >> => p = << >>
  <2>1. ASSUME outbound = << >> PROVE k < 1
    BY <2>1, <1>1
  <2> QED BY <2>1, <1>1, SubSeqEmpty
<1> HIDE DEF p
<1>5. stream \o p \in Seq(U)
  BY <1>2, ConcatProperties
<1>6. (inbound \o stream) \o p = inbound \o (stream \o p)
  <2>1. inbound \in Seq(U) /\ stream \in Seq(U) /\ p \in Seq(U)
    BY <1>2
  <2> QED BY <2>1, Associative
<1>7. Framed((inbound \o stream) \o p, M)
  <2>1. inbound \o stream \in Seq(U)
    BY ConcatProperties
  <2> HIDE <1>6
  <2> DEFINE w == inbound \o stream
  <2>2. w \in Seq(U) /\ Framed(w, M)
    BY <2>1
  <2> HIDE DEF w
  <2>3. Framed(w \o p, M)
    BY <1>2, <2>2, FramedConcat
  <2> QED BY <2>3 DEF w
<1>8. outbound = << >> /\ stream = << >> => stream \o p = << >>
  BY <1>4
<1> QED BY <1>3, <1>5, <1>6, <1>7, <1>8 DEF p

LEMMA SomeOfFacts ==
  ASSUME NEW U, NEW stream \in Seq(U), NEW i \in SomeOf(stream)
  PROVE  i \in 0 .. Len(stream)
  BY DEF SomeOf

LEMMA SendAndRecvInv == ASSUME Inv, NEW g \in Processes, SendAndRecv(g) PROVE Inv'
<1>1. PICK i \in SomeOf(down[g]), k \in Sent(gateway[g].outbound) :
        LET inbound == gateway[g].inbound \o SubSeq(down[g], 1, i)
            read == TakeResponses(gateway[g], Messages(inbound))
        IN /\ gateway' = [gateway EXCEPT ![g] = [read EXCEPT !.inbound = Rest(inbound),
                                                             !.outbound = << >>]]
           /\ down' = [down EXCEPT ![g] = SubSeq(@, i + 1, Len(@))]
           /\ up' = [up EXCEPT ![g] = @ \o SubSeq(gateway[g].outbound, 1, k)]
           /\ shorts' = shorts + ShortOf(gateway[g].outbound, k)
  BY DEF SendAndRecv
<1> DEFINE gw == gateway[g]
           inbound == gw.inbound \o SubSeq(down[g], 1, i)
           read == TakeResponses(gw, Messages(inbound))
           new == [read EXCEPT !.inbound = Rest(inbound), !.outbound = << >>]
           rest == SubSeq(down[g], i + 1, Len(down[g]))
           out == up[g] \o SubSeq(gw.outbound, 1, k)
<1>2. UNCHANGED <<backlog, receive_sockets_, socket, at, left, received, server, published,
                  handled, answered, fills, responses>>
  BY DEF SendAndRecv, tcp_server, thread, engine
<1>3. /\ gateway \in [Processes -> Gateway] /\ gw \in Gateway
      /\ gw.inbound \in Seq(AnswerUnits) /\ gw.outbound \in Seq(RequestUnits)
      /\ down \in [Processes -> Seq(AnswerUnits)] /\ up \in [Processes -> Seq(RequestUnits)]
      /\ down[g] \in Seq(AnswerUnits) /\ up[g] \in Seq(RequestUnits)
      /\ socket[g].inbound \in Seq(RequestUnits) /\ shorts \in 0 .. MaxShort
  BY DEF Inv, ClientTypes, ServerTypes, Gateway, Socket
<1>4. StreamsOf(g, gw, socket[g], up[g], down[g]) /\ GotInOrder(gw)
  BY DEF Inv, Streams, AllInOrder
<1>5. i \in 0 .. Len(down[g])
  BY <1>3, SomeOfFacts
<1>6. /\ Messages(inbound) \in Seq(AnswerMessages)
      /\ (gw.inbound = << >> /\ down[g] = << >> => inbound = << >> /\ rest = << >>)
      /\ rest \in Seq(AnswerUnits) /\ Rest(inbound) \in Seq(AnswerUnits)
      /\ Len(Rest(inbound)) <= 1 /\ Framed(Rest(inbound) \o rest, AnswerMessages)
  <2>1. Len(gw.inbound) <= 1 /\ Framed(gw.inbound \o down[g], AnswerMessages)
    BY <1>4 DEF StreamsOf
  <2> HIDE DEF gw
  <2> QED BY <1>3, <1>5, <2>1, ReadStream
<1>7. /\ shorts + ShortOf(gw.outbound, k) \in 0 .. MaxShort
      /\ out \in Seq(RequestUnits)
      /\ Framed(socket[g].inbound \o out, RequestMessages(g))
  <2>1. /\ Framed(gw.outbound, RequestMessages(g))
        /\ Framed(socket[g].inbound \o up[g], RequestMessages(g))
    BY <1>4 DEF StreamsOf
  <2>2. k \in Sent(gw.outbound)
    OBVIOUS
  <2> HIDE DEF gw
  <2> QED BY <1>3, <2>1, <2>2, SentFacts
<1>8. /\ Reads(gw, read)
      /\ Messages(inbound) = << >> => read = gw
  <2> HIDE DEF inbound
  <2> QED BY <1>3, <1>4, <1>6, TakeResponsesReads
<1>9. /\ gateway' = [gateway EXCEPT ![g] = new] /\ down' = [down EXCEPT ![g] = rest]
      /\ up' = [up EXCEPT ![g] = out] /\ shorts' = shorts + ShortOf(gw.outbound, k)
  BY <1>1
<1> HIDE DEF gw, inbound, read, rest, out
<1>10. /\ new \in Gateway /\ new.inbound = Rest(inbound) /\ new.outbound = << >>
       /\ new.got = read.got /\ GotInOrder(new)
  <2>1. read \in Gateway /\ GotInOrder(read)
    BY <1>8 DEF Reads
  <2>2. /\ new \in Gateway /\ new.inbound = Rest(inbound) /\ new.outbound = << >>
        /\ new.got = read.got /\ new.client_id_ = read.client_id_
        /\ new.next_exp_seq_num_ = read.next_exp_seq_num_
    <3>1. << >> \in Seq(RequestUnits) /\ Rest(inbound) \in Seq(AnswerUnits)
      BY <1>6
    <3> DEFINE none == << >>
               kept == Rest(inbound)
    <3> HIDE DEF none, kept
    <3>2. [read EXCEPT !.inbound = kept, !.outbound = none] \in Gateway
      BY <2>1, <3>1 DEF Gateway, none, kept
    <3> QED BY <2>1, <3>2 DEF Gateway, none, kept
  <2> QED BY <2>1, <2>2 DEF GotInOrder
<1> HIDE DEF new
<1>11. /\ gateway' \in [Processes -> Gateway] /\ down' \in [Processes -> Seq(AnswerUnits)]
       /\ up' \in [Processes -> Seq(RequestUnits)]
       /\ gateway'[g] = new /\ down'[g] = rest /\ up'[g] = out
       /\ \A f \in Processes : f # g => /\ gateway'[f] = gateway[f] /\ down'[f] = down[f]
                                        /\ up'[f] = up[f]
  BY <1>3, <1>6, <1>7, <1>9, <1>10
<1>12. ClientTypes' /\ EngineTypes'
  BY <1>2, <1>7, <1>9, <1>11 DEF Inv, ClientTypes, EngineTypes
<1>13. ServerTypes'
  BY <1>2 DEF Inv, ServerTypes
<1>14. ServerSide' /\ \A f : HandledFrom(f)' = HandledFrom(f)
  BY <1>2, ServerSideStays
<1>15. ASSUME NEW f \in Processes
       PROVE  /\ StreamsOf(f, gateway[f], socket[f], up[f], down[f])'
              /\ GotInOrder(gateway[f])'
              /\ HandledFrom(f)' \/ Silent(gateway[f], socket[f], down[f])'
  <2>1. /\ StreamsOf(f, gateway[f], socket[f], up[f], down[f]) /\ GotInOrder(gateway[f])
        /\ HandledFrom(f) \/ Silent(gateway[f], socket[f], down[f])
    BY DEF Inv, Streams, AllInOrder, OnlyHeard
  <2>2. CASE f # g
    BY <2>1, <2>2, <1>2, <1>11, <1>14
  <2>3. CASE f = g
    <3>1. StreamsOf(g, new, socket[g], out, rest)
      <4>1. Framed(<< >>, RequestMessages(g))
        BY FramedEmpty
      <4> QED BY <4>1, <1>4, <1>6, <1>7, <1>10 DEF StreamsOf
    <3>2. Silent(gw, socket[g], down[g]) => Silent(new, socket[g], rest)
      <4>1. SUFFICES ASSUME Silent(gw, socket[g], down[g]) PROVE Silent(new, socket[g], rest)
        OBVIOUS
      <4>2. inbound = << >> /\ rest = << >> /\ gw.got = << >> /\ socket[g].outbound = << >>
        BY <4>1, <1>6 DEF Silent
      <4>3. Rest(<< >>) = << >> /\ Messages(<< >>) = << >>
        <5>1. << >> \o << >> = << >>
          OBVIOUS
        <5>2. Framed(<< >> \o << >>, AnswerMessages)
          BY <5>1, FramedEmpty
        <5>3. << >> \in Seq(AnswerUnits) /\ Len(<< >>) <= 1
          OBVIOUS
        <5>4. Messages(<< >>) = << >>
          BY <5>2, <5>3, ReadMessages
        <5> QED BY <5>4 DEF Rest
      <4>4. new.got = << >> /\ new.inbound = << >>
        BY <4>2, <4>3, <1>8, <1>10
      <4> QED BY <4>2, <4>4 DEF Silent
    <3> QED BY <2>1, <2>3, <3>1, <3>2, <1>2, <1>10, <1>11, <1>14 DEF gw
  <2> QED BY <2>2, <2>3
<1>16. (ToSet(left) \subseteq ToSet(receive_sockets_))' /\ (server.exited => at = "sockets")'
  BY <1>2 DEF Inv, ToSet
<1> QED BY <1>12, <1>13, <1>14, <1>15, <1>16 DEF Inv, ServerSide, Streams, AllInOrder, OnlyHeard

\* One read of socket g, of i units, and a send of k.
Serves(g, i, rx_time, k) ==
  LET inbound == socket[g].inbound \o SubSeq(up[g], 1, i)
      rest == SubSeq(up[g], i + 1, Len(up[g]))
  IN /\ Takes(published, server, g, rx_time, server')
     /\ i = 0 => server' = server
     /\ received' = (received \/ i > 0)
     /\ up' = [up EXCEPT ![g] = rest]
     /\ socket' = [socket EXCEPT ![g] = [outbound |-> << >>, inbound |-> Rest(inbound)]]
     /\ down' = [down EXCEPT ![g] = down[g] \o SubSeq(socket[g].outbound, 1, k)]
     /\ shorts' = shorts + ShortOf(socket[g].outbound, k)
     /\ rest \in Seq(RequestUnits) /\ Rest(inbound) \in Seq(RequestUnits)
     /\ Len(Rest(inbound)) <= 1 /\ Framed(Rest(inbound) \o rest, RequestMessages(g))

LEMMA ServeSocketFacts ==
  ASSUME Inv, ServeSocket
  PROVE  /\ at = "sockets" /\ left # << >> /\ Head(left) \in Processes /\ ~server.exited
         /\ \E i \in SomeOf(up[Head(left)]), rx_time \in 1 .. MaxTime,
               k \in Sent(socket[Head(left)].outbound) : Serves(Head(left), i, rx_time, k)
<1> DEFINE g == Head(left)
<1>1. at = "sockets" /\ left # << >> /\ ~server.exited
  BY DEF ServeSocket
<1>2. PICK i \in SomeOf(up[g]), rx_time \in 1 .. MaxTime, k \in Sent(socket[g].outbound) :
        LET inbound == socket[g].inbound \o SubSeq(up[g], 1, i)
        IN /\ server' = TakeRequests(server, Messages(inbound), g, rx_time)
           /\ up' = [up EXCEPT ![g] = SubSeq(@, i + 1, Len(@))]
           /\ received' = Received(i)
           /\ socket' = [socket EXCEPT ![g] = [outbound |-> << >>, inbound |-> Rest(inbound)]]
           /\ down' = [down EXCEPT ![g] = @ \o SubSeq(socket[g].outbound, 1, k)]
           /\ shorts' = shorts + ShortOf(socket[g].outbound, k)
  BY DEF ServeSocket
<1>3. g \in Processes
  <2>1. left \in Seq(Processes)
    BY DEF Inv, ServerTypes
  <2> QED BY <1>1, <2>1, HeadTailProperties
<1> DEFINE inbound == socket[g].inbound \o SubSeq(up[g], 1, i)
           rest == SubSeq(up[g], i + 1, Len(up[g]))
<1> HIDE DEF g
<1>4. /\ up[g] \in Seq(RequestUnits) /\ socket[g].inbound \in Seq(RequestUnits)
      /\ server \in Server /\ published \in Seq(Requests)
  BY <1>3 DEF Inv, ClientTypes, ServerTypes, EngineTypes, Socket
<1>5. /\ Messages(inbound) \in Seq(RequestMessages(g)) /\ (i = 0 => Messages(inbound) = << >>)
      /\ rest \in Seq(RequestUnits) /\ Rest(inbound) \in Seq(RequestUnits)
      /\ Len(Rest(inbound)) <= 1 /\ Framed(Rest(inbound) \o rest, RequestMessages(g))
  <2>1. i \in 0 .. Len(up[g])
    BY <1>4, SomeOfFacts
  <2>2. /\ Len(socket[g].inbound) <= 1
        /\ Framed(socket[g].inbound \o up[g], RequestMessages(g))
    BY <1>3 DEF Inv, Streams, StreamsOf
  <2> DEFINE old == socket[g].inbound
             stream == up[g]
  <2>3. /\ old \in Seq(RequestUnits) /\ stream \in Seq(RequestUnits) /\ Len(old) <= 1
        /\ Framed(old \o stream, RequestMessages(g)) /\ i \in 0 .. Len(stream)
    BY <1>4, <2>1, <2>2
  <2> HIDE DEF old, stream
  <2>4. LET b == old \o SubSeq(stream, 1, i)
            t == SubSeq(stream, i + 1, Len(stream))
        IN  /\ Messages(b) \in Seq(RequestMessages(g)) /\ (i = 0 => Messages(b) = << >>)
            /\ t \in Seq(RequestUnits) /\ Rest(b) \in Seq(RequestUnits) /\ Len(Rest(b)) <= 1
            /\ Framed(Rest(b) \o t, RequestMessages(g))
    BY <2>3, ReadStream
  <2> QED BY <2>4 DEF old, stream
<1>6. /\ Takes(published, server, g, rx_time, TakeRequests(server, Messages(inbound), g, rx_time))
      /\ Messages(inbound) = << >> =>
           TakeRequests(server, Messages(inbound), g, rx_time) = server
  <2>1. Full(server) /\ Bound(server, published)
    BY DEF Inv
  <2> DEFINE msgs == Messages(inbound)
  <2>2. msgs \in Seq(RequestMessages(g))
    BY <1>5
  <2> HIDE DEF msgs
  <2>3. /\ Takes(published, server, g, rx_time, TakeRequests(server, msgs, g, rx_time))
        /\ msgs = << >> => TakeRequests(server, msgs, g, rx_time) = server
    BY <1>3, <1>4, <2>1, <2>2, TakeRequestsTakes
  <2> QED BY <2>3 DEF msgs
<1>7. /\ Takes(published, server, g, rx_time, server')
      /\ i = 0 => server' = server
  <2> HIDE DEF inbound
  <2>1. server' = TakeRequests(server, Messages(inbound), g, rx_time)
    BY <1>2 DEF inbound
  <2> QED BY <2>1, <1>5, <1>6
<1>8. received' = (received \/ i > 0)
  BY <1>2 DEF Received
<1>9. /\ up' = [up EXCEPT ![g] = rest]
      /\ socket' = [socket EXCEPT ![g] = [outbound |-> << >>, inbound |-> Rest(inbound)]]
      /\ down' = [down EXCEPT ![g] = down[g] \o SubSeq(socket[g].outbound, 1, k)]
      /\ shorts' = shorts + ShortOf(socket[g].outbound, k)
  BY <1>2
<1>10. Serves(g, i, rx_time, k)
  BY <1>5, <1>7, <1>8, <1>9, Zenon DEF Serves
<1> QED BY <1>1, <1>3, <1>10 DEF g

LEMMA ServeSocketInv == ASSUME Inv, ServeSocket PROVE Inv'
<1> DEFINE g == Head(left)
<1>1. at = "sockets" /\ left # << >> /\ g \in Processes
  BY ServeSocketFacts
<1>2. PICK i \in SomeOf(up[g]), rx_time \in 1 .. MaxTime, k \in Sent(socket[g].outbound) :
        Serves(g, i, rx_time, k)
  BY ServeSocketFacts
<1> DEFINE inbound == socket[g].inbound \o SubSeq(up[g], 1, i)
           rest == SubSeq(up[g], i + 1, Len(up[g]))
           out == down[g] \o SubSeq(socket[g].outbound, 1, k)
           new == [outbound |-> << >>, inbound |-> Rest(inbound)]
<1>3. /\ UNCHANGED <<gateway, backlog, receive_sockets_, at, published, handled, answered,
                     fills, responses>>
      /\ left' = Tail(left)
  BY DEF ServeSocket, engine
<1> HIDE DEF g
<1>4. /\ Takes(published, server, g, rx_time, server')
      /\ rest \in Seq(RequestUnits) /\ Rest(inbound) \in Seq(RequestUnits)
      /\ Len(Rest(inbound)) <= 1 /\ Framed(Rest(inbound) \o rest, RequestMessages(g))
  BY <1>2 DEF Serves
<1>5. /\ up' = [up EXCEPT ![g] = rest] /\ socket' = [socket EXCEPT ![g] = new]
      /\ down' = [down EXCEPT ![g] = out]
      /\ shorts' = shorts + ShortOf(socket[g].outbound, k)
  BY <1>2 DEF Serves
<1>6. received' \in BOOLEAN
  <2>1. received' = (received \/ i > 0)
    BY <1>2 DEF Serves
  <2> QED BY <2>1
<1>7. /\ socket \in [Processes -> Socket] /\ socket[g].outbound \in Seq(AnswerUnits)
      /\ gateway[g].inbound \in Seq(AnswerUnits) /\ down[g] \in Seq(AnswerUnits)
      /\ up \in [Processes -> Seq(RequestUnits)] /\ down \in [Processes -> Seq(AnswerUnits)]
      /\ shorts \in 0 .. MaxShort
  BY <1>1 DEF Inv, ClientTypes, ServerTypes, Gateway, Socket
<1>8. StreamsOf(g, gateway[g], socket[g], up[g], down[g])
  BY <1>1 DEF Inv, Streams
<1>9. /\ shorts + ShortOf(socket[g].outbound, k) \in 0 .. MaxShort
      /\ out \in Seq(AnswerUnits) /\ Framed(gateway[g].inbound \o out, AnswerMessages)
      /\ socket[g].outbound = << >> /\ down[g] = << >> => out = << >>
  <2>1. /\ Framed(socket[g].outbound, AnswerMessages)
        /\ Framed(gateway[g].inbound \o down[g], AnswerMessages)
    BY <1>8 DEF StreamsOf
  <2>2. k \in Sent(socket[g].outbound)
    OBVIOUS
  <2> DEFINE o == socket[g].outbound
             in == gateway[g].inbound
             d == down[g]
  <2>3. /\ o \in Seq(AnswerUnits) /\ in \in Seq(AnswerUnits) /\ d \in Seq(AnswerUnits)
        /\ k \in Sent(o) /\ Framed(o, AnswerMessages) /\ Framed(in \o d, AnswerMessages)
    BY <1>7, <2>1, <2>2
  <2> HIDE DEF o, in, d
  <2>4. /\ shorts + ShortOf(o, k) \in 0 .. MaxShort
        /\ d \o SubSeq(o, 1, k) \in Seq(AnswerUnits)
        /\ Framed(in \o (d \o SubSeq(o, 1, k)), AnswerMessages)
        /\ o = << >> /\ d = << >> => d \o SubSeq(o, 1, k) = << >>
    BY <1>7, <2>3, SentFacts
  <2> QED BY <2>4 DEF o, in, d
<1> HIDE DEF inbound, rest, out
<1>10. new \in Socket /\ new.outbound = << >> /\ new.inbound = Rest(inbound)
  BY <1>4 DEF Socket
<1> HIDE DEF new
<1>11. /\ socket' \in [Processes -> Socket] /\ down' \in [Processes -> Seq(AnswerUnits)]
       /\ up' \in [Processes -> Seq(RequestUnits)]
       /\ socket'[g] = new /\ down'[g] = out /\ up'[g] = rest
       /\ \A f \in Processes : f # g => /\ socket'[f] = socket[f] /\ down'[f] = down[f]
                                        /\ up'[f] = up[f]
  BY <1>1, <1>4, <1>5, <1>7, <1>9, <1>10
<1>12. /\ server' \in Server /\ Full(server') /\ Bound(server', published)
       /\ server'.cid_next_outgoing_seq_num_ = server.cid_next_outgoing_seq_num_
  BY <1>4 DEF Takes
<1>13. ClientTypes' /\ EngineTypes'
  BY <1>3, <1>5, <1>9, <1>11 DEF Inv, ClientTypes, EngineTypes
<1>14. /\ left' \in Seq(Processes)
       /\ (ToSet(left) \subseteq ToSet(receive_sockets_))'
  <2>1. left \in Seq(Processes) /\ ToSet(left) \subseteq ToSet(receive_sockets_)
    BY DEF Inv, ServerTypes
  <2> DEFINE t == Tail(left)
  <2>2. /\ t \in Seq(Processes) /\ Len(t) = Len(left) - 1
        /\ \A j \in 1 .. Len(t) : t[j] = left[j + 1]
    BY <1>1, <2>1, HeadTailProperties
  <2>3. left' = t
    BY <1>3
  <2> HIDE DEF t
  <2>4. ASSUME NEW x \in ToSet(t) PROVE x \in ToSet(left)
    <3>1. PICK j \in 1 .. Len(t) : x = t[j]
      BY <2>2 DEF ToSet
    <3>2. j + 1 \in 1 .. Len(left) /\ x = left[j + 1]
      BY <2>1, <2>2, <3>1
    <3> QED BY <3>2 DEF ToSet
  <2>5. ToSet(t) \subseteq ToSet(receive_sockets_)
    BY <2>1, <2>4
  <2> QED BY <2>2, <2>3, <2>5, <1>3
<1>15. ServerTypes'
  BY <1>3, <1>6, <1>11, <1>12, <1>14 DEF Inv, ServerTypes
<1>16. /\ Bound(server, published)' /\ Full(server)' /\ (server.exited => at = "sockets")'
       /\ Queued(responses, 1, server.cid_next_outgoing_seq_num_, answered)'
  <2>1. Bound(server, published)'
    BY <1>3, <1>12
  <2>2. Full(server)'
    BY <1>12 DEF Full
  <2>3. Queued(responses, 1, server.cid_next_outgoing_seq_num_, answered)'
    BY <1>3, <1>12 DEF Inv
  <2> QED BY <2>1, <2>2, <2>3, <1>1, <1>3
<1>17. AnswersHandled' /\ \A f : HandledFrom(f)' = HandledFrom(f)
  BY <1>3 DEF Inv, AnswersHandled, Handled, HandledFrom
<1>18. ASSUME NEW f \in Processes
       PROVE  /\ StreamsOf(f, gateway[f], socket[f], up[f], down[f])'
              /\ GotInOrder(gateway[f])'
              /\ HandledFrom(f)' \/ Silent(gateway[f], socket[f], down[f])'
  <2>1. /\ StreamsOf(f, gateway[f], socket[f], up[f], down[f]) /\ GotInOrder(gateway[f])
        /\ HandledFrom(f) \/ Silent(gateway[f], socket[f], down[f])
    BY DEF Inv, Streams, AllInOrder, OnlyHeard
  <2>2. CASE f # g
    BY <2>1, <2>2, <1>3, <1>11, <1>17
  <2>3. CASE f = g
    <3>1. StreamsOf(g, gateway[g], new, rest, out)
      <4>1. Framed(<< >>, AnswerMessages)
        BY FramedEmpty
      <4> QED BY <4>1, <1>4, <1>8, <1>9, <1>10 DEF StreamsOf
    <3>2. Silent(gateway[g], socket[g], down[g]) => Silent(gateway[g], new, out)
      BY <1>9, <1>10 DEF Silent
    <3> QED BY <2>1, <2>3, <3>1, <3>2, <1>3, <1>11, <1>17
  <2> QED BY <2>2, <2>3
<1> QED BY <1>13, <1>14, <1>15, <1>16, <1>17, <1>18 DEF Inv, Streams, AllInOrder, OnlyHeard

\* An order that std::sort may give to p.
SortedBy(p, q, f) ==
  /\ f \in [1 .. Len(p) -> 1 .. Len(p)] /\ Len(q) = Len(p)
  /\ \A i \in 1 .. Len(p) : q[i] = p[f[i]].request
  /\ \A i, j \in 1 .. Len(p) : i < j =>
       /\ f[i] # f[j] /\ p[f[i]].recv_time_ <= p[f[j]].recv_time_
       /\ (Len(p) <= StableUpTo /\ p[f[i]].recv_time_ = p[f[j]].recv_time_) => f[i] < f[j]

LEMMA SortedFacts ==
  ASSUME NEW p \in Seq(Pending), NEW q \in Sorted(p)
  PROVE  q \in Seq(Requests) /\ \E f : SortedBy(p, q, f)
<1> DEFINE N == 1 .. Len(p)
<1>1. PICK f \in [N -> N] :
        /\ \A i, j \in N : i < j =>
             /\ f[i] # f[j] /\ p[f[i]].recv_time_ <= p[f[j]].recv_time_
             /\ (Len(p) <= StableUpTo /\ p[f[i]].recv_time_ = p[f[j]].recv_time_) => f[i] < f[j]
        /\ q = [i \in N |-> p[f[i]].request]
  BY SMTT(30) DEF Sorted
<1>2. \A i \in N : p[f[i]].request \in Requests
  <2>1. \A i \in N : p[i] \in Pending
    BY ElementOfSeq
  <2> QED BY <2>1, <1>1 DEF Pending
<1>3. q \in Seq(Requests) /\ Len(q) = Len(p)
  <2>1. Len(p) \in Nat
    OBVIOUS
  <2>2. q \in Seq(Requests)
    BY <1>1, <1>2, <2>1, IsASeq
  <2>3. Len(q) = Len(p)
    BY <1>1, <2>1
  <2> QED BY <2>2, <2>3
<1>4. SortedBy(p, q, f)
  BY <1>1, <1>3 DEF SortedBy
<1> QED BY <1>3, <1>4

LEMMA NewPending ==
  ASSUME NEW s \in Server, NEW p \in Seq(Pending), NEW r, r = [s EXCEPT !.pending = p]
  PROVE  /\ r \in Server /\ r.pending = p /\ r.exited = s.exited
         /\ r.cid_tcp_socket_ = s.cid_tcp_socket_
         /\ r.cid_next_exp_seq_num_ = s.cid_next_exp_seq_num_
         /\ r.cid_next_outgoing_seq_num_ = s.cid_next_outgoing_seq_num_
  BY DEF Server

LEMMA PublishInv == ASSUME Inv, SequenceAndPublish PROVE Inv'
<1>1. /\ UNCHANGED <<gateway, up, down, shorts, backlog, receive_sockets_, socket, left,
                     received, handled, answered, fills, responses>>
      /\ at = "sockets" /\ at' = "respond" /\ ~server.exited
  BY DEF SequenceAndPublish, network, tcp_server, engine
<1>2. /\ server \in Server /\ published \in Seq(Requests) /\ server.pending \in Seq(Pending)
      /\ Bound(server, published) /\ Full(server)
  BY DEF Inv, ServerTypes, EngineTypes, Server
<1>3. /\ server' \in Server /\ published' \in Seq(Requests) /\ Len(published) <= Len(published')
      /\ \A i \in 1 .. Len(published) : published'[i] = published[i]
      /\ Bound(server', published') /\ Full(server') /\ ~server'.exited
      /\ server'.cid_next_outgoing_seq_num_ = server.cid_next_outgoing_seq_num_
  <2>1. CASE received
    <3>1. PICK q \in Sorted(server.pending) : published' = published \o q
      BY <2>1 DEF SequenceAndPublish
    <3>2. server' = [server EXCEPT !.pending = << >>]
      BY <2>1 DEF SequenceAndPublish
    <3>3. /\ server' \in Server /\ server'.pending = << >> /\ server'.exited = server.exited
          /\ server'.cid_tcp_socket_ = server.cid_tcp_socket_
          /\ server'.cid_next_outgoing_seq_num_ = server.cid_next_outgoing_seq_num_
      <4> DEFINE none == << >>
      <4>1. none \in Seq(Pending)
        OBVIOUS
      <4>2. server' = [server EXCEPT !.pending = none]
        BY <3>2
      <4> HIDE DEF none
      <4>3. /\ server' \in Server /\ server'.pending = none /\ server'.exited = server.exited
            /\ server'.cid_tcp_socket_ = server.cid_tcp_socket_
            /\ server'.cid_next_outgoing_seq_num_ = server.cid_next_outgoing_seq_num_
        BY <4>1, <4>2, <1>2, NewPending
      <4> QED BY <4>3 DEF none
    <3>4. q \in Seq(Requests) /\ \E f : SortedBy(server.pending, q, f)
      BY <1>2, SortedFacts
    <3>5. /\ published' \in Seq(Requests) /\ Len(published') = Len(published) + Len(q)
          /\ Len(published) \in Nat /\ Len(q) \in Nat
          /\ \A i \in 1 .. Len(published) + Len(q) :
               published'[i] = IF i <= Len(published) THEN published[i] ELSE q[i - Len(published)]
      BY <3>1, <3>4, <1>2, ConcatProperties
    <3>6. ASSUME NEW i \in 1 .. Len(published')
          PROVE  published'[i].from = server'.cid_tcp_socket_[published'[i].client]
      <4>1. CASE i <= Len(published)
        <5>1. i \in 1 .. Len(published) /\ published'[i] = published[i]
          BY <4>1, <3>5
        <5> QED BY <5>1, <3>3, <1>2 DEF Bound
      <4>2. CASE ~(i <= Len(published))
        <5>1. PICK f : SortedBy(server.pending, q, f)
          BY <3>4
        <5>2. i - Len(published) \in 1 .. Len(q) /\ published'[i] = q[i - Len(published)]
          BY <4>2, <3>5
        <5>3. PICK j \in 1 .. Len(server.pending) : published'[i] = server.pending[j].request
          <6>1. i - Len(published) \in 1 .. Len(server.pending)
            BY <5>1, <5>2 DEF SortedBy
          <6>2. /\ f[i - Len(published)] \in 1 .. Len(server.pending)
                /\ q[i - Len(published)] = server.pending[f[i - Len(published)]].request
            BY <5>1, <6>1 DEF SortedBy
          <6> QED BY <5>2, <6>2
        <5> QED BY <5>3, <3>3, <1>2 DEF Bound
      <4> QED BY <4>1, <4>2
    <3>7. Len(server'.pending) = 0
      BY <3>3
    <3>8. Bound(server', published')
      BY <3>6, <3>7 DEF Bound
    <3>9. ~server'.exited
      BY <3>3, <1>1
    <3>10. Full(server')
      BY <3>7, <3>9, BoundAssumption DEF Full
    <3> QED BY <3>3, <3>5, <3>8, <3>9, <3>10
  <2>2. CASE ~received
    <3>1. server' = server /\ published' = published
      BY <2>2 DEF SequenceAndPublish
    <3> QED BY <3>1, <1>1, <1>2
  <2> QED BY <2>1, <2>2
<1>4. handled \in 0 .. Len(published) /\ Len(published) \in Nat /\ Len(published') \in Nat
  BY <1>2, <1>3 DEF Inv, EngineTypes
<1>5. \A i \in 1 .. handled : published'[i] = published[i]
  BY <1>3, <1>4
<1>6. ClientTypes' /\ EngineTypes'
  BY <1>1, <1>3, <1>4 DEF Inv, ClientTypes, EngineTypes
<1>7. ServerTypes'
  BY <1>1, <1>3 DEF Inv, ServerTypes
<1>8. Streams' /\ AllInOrder' /\ (ToSet(left) \subseteq ToSet(receive_sockets_))'
  BY <1>1 DEF Inv, Streams, AllInOrder
<1>9. \A f : HandledFrom(f)' = HandledFrom(f)
  BY <1>1, <1>5 DEF HandledFrom
<1>10. AnswersHandled'
  BY <1>1, <1>5 DEF Inv, AnswersHandled, Handled
<1>11. OnlyHeard'
  BY <1>1, <1>9 DEF Inv, OnlyHeard
<1>12. Queued(responses, 1, server.cid_next_outgoing_seq_num_, answered)'
  BY <1>1, <1>3 DEF Inv
<1>13. Bound(server, published)' /\ Full(server)' /\ (server.exited => at = "sockets")'
  BY <1>3 DEF Full
<1> QED BY <1>6, <1>7, <1>8, <1>10, <1>11, <1>12, <1>13 DEF Inv

\* One call of the loop: the server and its sockets afterwards.
LEMMA RespondSends ==
  ASSUME Inv, Respond
  PROVE  /\ ~server.exited
         /\ SendsTo({g \in Processes : HandledFrom(g)}, server, socket, responses, answered,
                    Len(responses), [server |-> server', socket |-> socket'])
<1> DEFINE heard == {g \in Processes : HandledFrom(g)}
           done == SendResponses([server |-> server, socket |-> socket], responses)
           n == Len(responses)
<1>1. /\ UNCHANGED <<gateway, up, down, shorts, backlog, receive_sockets_, left, received,
                     published, handled, answered, fills>>
      /\ at = "respond" /\ at' = "poll" /\ responses' = << >>
      /\ server' = done.server /\ socket' = done.socket
  BY DEF Respond, network, engine
<1>2. /\ server \in Server /\ socket \in [Processes -> Socket] /\ responses \in Seq(Answers)
      /\ answered \in [Clients -> Nat] /\ published \in Seq(Requests)
      /\ handled \in 0 .. Len(published) /\ ~server.exited
      /\ Queued(responses, 1, server.cid_next_outgoing_seq_num_, answered)
  <2>1. ~server.exited
    BY <1>1 DEF Inv
  <2> QED BY <2>1 DEF Inv, ServerTypes, EngineTypes
<1>3. ASSUME NEW k \in 1 .. Len(responses)
      PROVE  server.cid_tcp_socket_[responses[k].client] \in heard
  <2>1. PICK i \in 1 .. handled : published[i].client = responses[k].client
    BY DEF Inv, AnswersHandled, Handled
  <2>2. i \in 1 .. Len(published)
    BY <1>2
  <2>3. /\ published[i].from = server.cid_tcp_socket_[published[i].client]
        /\ published[i].from \in Processes
    BY <1>2, <2>2, TakenTypes DEF Inv, Bound
  <2> QED BY <2>1, <2>3 DEF HandledFrom
<1>4. \A g \in Processes : Framed(socket[g].outbound, AnswerMessages)
  BY DEF Inv, Streams, StreamsOf
<1>5. SendsTo(heard, server, socket, responses, answered, n, done)
  <2>1. heard \in SUBSET Processes
    OBVIOUS
  <2> HIDE DEF heard
  <2> QED BY <2>1, <1>2, <1>3, <1>4, SendResponsesSends
<1>6. done = [server |-> server', socket |-> socket']
  <2>1. done \in [server : Server, socket : [Processes -> Socket]]
    BY <1>5 DEF SendsTo
  <2> HIDE DEF done
  <2> QED BY <2>1, <1>1
<1> QED BY <1>2, <1>5, <1>6

LEMMA RespondInv == ASSUME Inv, Respond PROVE Inv'
<1> DEFINE heard == {g \in Processes : HandledFrom(g)}
           n == Len(responses)
<1>1. /\ UNCHANGED <<gateway, up, down, shorts, backlog, receive_sockets_, left, received,
                     published, handled, answered, fills>>
      /\ at = "respond" /\ at' = "poll" /\ responses' = << >>
  BY DEF Respond, network, engine
<1>2. /\ server \in Server /\ socket \in [Processes -> Socket] /\ responses \in Seq(Answers)
      /\ answered \in [Clients -> Nat] /\ published \in Seq(Requests)
      /\ handled \in 0 .. Len(published) /\ ~server.exited
      /\ Queued(responses, 1, server.cid_next_outgoing_seq_num_, answered)
  <2>1. ~server.exited
    BY <1>1 DEF Inv
  <2> QED BY <2>1 DEF Inv, ServerTypes, EngineTypes
<1> DEFINE done == [server |-> server', socket |-> socket']
<1>5. SendsTo(heard, server, socket, responses, answered, n, done)
  BY RespondSends
<1>4. done.server = server' /\ done.socket = socket'
  OBVIOUS
<1> HIDE DEF done, n
<1>6. /\ server' \in Server /\ socket' \in [Processes -> Socket]
      /\ server'.cid_tcp_socket_ = server.cid_tcp_socket_
      /\ server'.pending = server.pending /\ server'.exited = server.exited
      /\ Queued(responses, n + 1, server'.cid_next_outgoing_seq_num_, answered)
      /\ \A g \in Processes : /\ Framed(socket'[g].outbound, AnswerMessages)
                              /\ socket'[g].inbound = socket[g].inbound
                              /\ socket'[g].outbound = socket[g].outbound \/ g \in heard
  BY <1>4, <1>5 DEF SendsTo
<1>7. Queued(responses', 1, server'.cid_next_outgoing_seq_num_, answered')
  <2> DEFINE next == server'.cid_next_outgoing_seq_num_
  <2>1. next \in [Clients -> Positive]
    BY <1>6 DEF Server
  <2>2. Queued(responses, n + 1, next, answered) /\ n = Len(responses) /\ n \in Nat
    BY <1>2, <1>6 DEF n
  <2> HIDE DEF next
  <2>3. ASSUME NEW c \in Clients
        PROVE  /\ next[c] <= answered[c] + 1
               /\ \A m \in next[c] .. answered[c] : FALSE
    <3>1. \A i \in (n + 1) .. Len(responses) : FALSE
      BY <2>2
    <3>2. /\ next[c] <= answered[c] + 1
          /\ \A m \in next[c] .. answered[c] : \E i \in (n + 1) .. Len(responses) :
               responses[i].client = c /\ responses[i].n = m
      BY <2>2 DEF Queued
    <3> QED BY <3>1, <3>2
  <2>4. responses' = << >> /\ Len(<< >>) = 0 /\ answered' = answered
    BY <1>1
  <2>5. Queued(<< >>, 1, next, answered)
    BY <2>3, <2>4 DEF Queued
  <2> QED BY <2>4, <2>5 DEF next
<1>8. ClientTypes' /\ EngineTypes'
  BY <1>1 DEF Inv, ClientTypes, EngineTypes
<1>9. ServerTypes'
  BY <1>1, <1>6 DEF Inv, ServerTypes
<1>10. Bound(server, published)' /\ Full(server)' /\ (server.exited => at = "sockets")'
  <2>1. Bound(server, published)'
    BY <1>1, <1>6 DEF Inv, Bound
  <2>2. ~server'.exited
    BY <1>2, <1>6
  <2>3. Full(server)'
    BY <2>2, <1>6 DEF Inv, Full
  <2> QED BY <2>1, <2>2, <2>3
<1>11. AnswersHandled' /\ AllInOrder' /\ (ToSet(left) \subseteq ToSet(receive_sockets_))'
  <2>1. Len(responses') = 0
    BY <1>1
  <2> QED BY <2>1, <1>1 DEF Inv, AnswersHandled, AllInOrder
<1>12. \A f : HandledFrom(f)' = HandledFrom(f)
  BY <1>1 DEF HandledFrom
<1>13. Streams'
  <2>1. ASSUME NEW f \in Processes
        PROVE  StreamsOf(f, gateway[f], socket[f], up[f], down[f])'
    BY <1>1, <1>6 DEF Inv, Streams, StreamsOf
  <2> QED BY <2>1 DEF Streams
<1>14. OnlyHeard'
  <2>1. ASSUME NEW f \in Processes
        PROVE  HandledFrom(f)' \/ Silent(gateway[f], socket[f], down[f])'
    <3>1. HandledFrom(f) \/ Silent(gateway[f], socket[f], down[f])
      BY DEF Inv, OnlyHeard
    <3> QED BY <3>1, <1>1, <1>6, <1>12 DEF Silent
  <2> QED BY <2>1 DEF OnlyHeard
<1> QED BY <1>7, <1>8, <1>9, <1>10, <1>11, <1>13, <1>14 DEF Inv

LEMMA RespondKeeps ==
  ASSUME Inv, Respond
  PROVE  /\ server'.pending = server.pending /\ server'.exited = server.exited
         /\ server'.cid_next_exp_seq_num_ = server.cid_next_exp_seq_num_
<1> DEFINE done == [server |-> server', socket |-> socket']
<1>1. \E heard : SendsTo(heard, server, socket, responses, answered, Len(responses), done)
  BY RespondSends
<1>2. done.server = server'
  OBVIOUS
<1> HIDE DEF done
<1> QED BY <1>1, <1>2 DEF SendsTo

\* sendClientResponse() to a client that the engine has heard of: everything but the engine's
\* own state stays, and the response is the next one of its client.
LEMMA SendClientResponseInv ==
  ASSUME Inv, NEW c \in Clients, NEW to \in Nat, SendClientResponse(c, to),
         handled' \in 0 .. Len(published), handled <= handled', fills' \in 0 .. MaxFills,
         \E i \in 1 .. handled' : published[i].client = c,
         UNCHANGED <<gateway, up, down, shorts, backlog, receive_sockets_, socket, at, left,
                     received, server, published>>
  PROVE  Inv'
<1> DEFINE a == [client |-> c, n |-> answered[c] + 1, to |-> to]
           next == server.cid_next_outgoing_seq_num_
           Known(d) == \E i \in 1 .. handled' : published[i].client = d
<1>1. /\ published \in Seq(Requests) /\ handled \in 0 .. Len(published)
      /\ responses \in Seq(Answers) /\ answered \in [Clients -> Nat]
  BY DEF Inv, EngineTypes
<1>2. next \in [Clients -> Positive] /\ Queued(responses, 1, next, answered)
  <2>1. server \in Server
    BY DEF Inv, ServerTypes
  <2> QED BY <2>1 DEF Inv, Server
<1>3. answered' = [answered EXCEPT ![c] = @ + 1] /\ responses' = Append(responses, a)
  BY DEF SendClientResponse
<1>4. a \in Answers /\ a.client = c /\ a.n = answered[a.client] + 1
  BY <1>1 DEF Answers
<1>5. /\ \A d : Handled(d) => Known(d)
      /\ \A f : HandledFrom(f) => HandledFrom(f)'
      /\ Known(c)
  <2>1. \A i \in 1 .. handled : i \in 1 .. handled'
    BY <1>1
  <2> QED BY <2>1 DEF Handled, HandledFrom
<1> HIDE DEF a, next, Known
<1>6. responses' \in Seq(Answers) /\ answered' \in [Clients -> Nat]
  BY <1>1, <1>3, <1>4
<1>7. Queued(responses', 1, next, answered')
  BY <1>1, <1>2, <1>3, <1>4, QueuedAppend
<1>8. \A k \in 1 .. Len(responses') : Known(responses'[k].client)
  <2>1. /\ Len(responses') = Len(responses) + 1 /\ Len(responses) \in Nat
        /\ responses'[Len(responses) + 1] = a
        /\ \A k \in 1 .. Len(responses) : responses'[k] = responses[k]
    BY <1>1, <1>3, <1>4
  <2>2. \A k \in 1 .. Len(responses) : Known(responses[k].client)
    BY <1>5 DEF Inv, AnswersHandled
  <2>3. ASSUME NEW k \in 1 .. Len(responses') PROVE Known(responses'[k].client)
    <3>1. CASE k \in 1 .. Len(responses)
      BY <2>1, <2>2, <3>1
    <3>2. CASE k = Len(responses) + 1
      BY <2>1, <3>2, <1>4, <1>5
    <3> QED BY <2>1, <3>1, <3>2
  <2> QED BY <2>3
<1>9. ClientTypes' /\ ServerTypes'
  BY DEF Inv, ClientTypes, ServerTypes
<1>10. EngineTypes'
  BY <1>1, <1>6 DEF EngineTypes
<1>11. Streams' /\ AllInOrder' /\ (ToSet(left) \subseteq ToSet(receive_sockets_))'
  BY DEF Inv, Streams, AllInOrder
<1>12. OnlyHeard'
  BY <1>5 DEF Inv, OnlyHeard
<1>13. Bound(server, published)' /\ Full(server)' /\ (server.exited => at = "sockets")'
  BY DEF Inv, Full
<1>14. AnswersHandled' /\ Queued(responses, 1, server.cid_next_outgoing_seq_num_, answered)'
  BY <1>7, <1>8 DEF AnswersHandled, Handled, Known, next
<1> QED BY <1>9, <1>10, <1>11, <1>12, <1>13, <1>14 DEF Inv

LEMMA MatchingEngineInv == ASSUME Inv, MatchingEngine PROVE Inv'
<1>1. /\ published \in Seq(Requests) /\ handled \in 0 .. Len(published)
      /\ fills \in 0 .. MaxFills /\ Len(published) \in Nat
  BY DEF Inv, EngineTypes
<1>2. CASE Answer
  <2> DEFINE c == published[handled + 1].client
             to == published[handled + 1].n
  <2>1. /\ handled < Len(published) /\ handled' = handled + 1 /\ fills' = fills
        /\ SendClientResponse(c, to)
        /\ UNCHANGED <<gateway, up, down, shorts, backlog, receive_sockets_, socket, at, left,
                       received, server, published>>
    BY <1>2 DEF Answer, network, tcp_server, thread
  <2>2. handled + 1 \in 1 .. Len(published) /\ handled' \in 0 .. Len(published) /\ handled <= handled'
    BY <1>1, <2>1
  <2>3. c \in Clients /\ to \in Nat
    BY <1>1, <2>2, TakenTypes
  <2>4. \E i \in 1 .. handled' : published[i].client = c
    BY <1>1, <2>1
  <2> HIDE DEF c, to
  <2> QED BY <1>1, <2>1, <2>2, <2>3, <2>4, SendClientResponseInv
<1>3. ASSUME NEW c \in Clients, Fill(c) PROVE Inv'
  <2>1. /\ fills < MaxFills /\ fills' = fills + 1 /\ handled' = handled
        /\ SendClientResponse(c, 0)
        /\ UNCHANGED <<gateway, up, down, shorts, backlog, receive_sockets_, socket, at, left,
                       received, server, published>>
    BY <1>3 DEF Fill, network, tcp_server, thread
  <2>2. fills' \in 0 .. MaxFills
    BY <1>1, <2>1, BoundAssumption
  <2>3. \E i \in 1 .. handled' : published[i].client = c
    BY <1>3, <2>1 DEF Fill, Handled
  <2> QED BY <1>1, <2>1, <2>2, <2>3, SendClientResponseInv
<1> QED BY <1>2, <1>3 DEF MatchingEngine

LEMMA NextInv == ASSUME Inv, [Next]_vars PROVE Inv'
<1>1. ASSUME NEW g \in Processes, Start(g) PROVE Inv'
  BY <1>1, StartInv
<1>2. ASSUME NEW g \in Processes, SendRequest(g) PROVE Inv'
  BY <1>2, SendRequestInv
<1>3. ASSUME NEW g \in Processes, SendAndRecv(g) PROVE Inv'
  BY <1>3, SendAndRecvInv
<1>4. CASE Poll
  BY <1>4, PollInv
<1>5. CASE ServeSocket
  BY <1>5, ServeSocketInv
<1>6. CASE SequenceAndPublish
  BY <1>6, PublishInv
<1>7. CASE Respond
  BY <1>7, RespondInv
<1>8. CASE MatchingEngine
  BY <1>8, MatchingEngineInv
<1>9. CASE UNCHANGED vars
  BY <1>9, StutterInv
<1> QED BY <1>1, <1>2, <1>3, <1>4, <1>5, <1>6, <1>7, <1>8, <1>9 DEF Next, OrderServer

LEMMA InvAlways == Spec => []Inv
<1>1. Init => Inv
  BY InitInv
<1>2. Inv /\ [Next]_vars => Inv'
  BY NextInv
<1> QED BY <1>1, <1>2, PTL DEF Spec

(***************************************************************************)
(* The maps, buffers and queues of OrderGateway, TCPSocket, OrderServer    *)
(* and FIFOSequencer keep their types; what a read leaves in an inbound    *)
(* buffer is never more than half a message, and pending_client_requests_  *)
(* never holds more than ME_MAX_PENDING_REQUESTS.                          *)
(***************************************************************************)
THEOREM PathTypeCorrect == Spec => []TypeOK
<1>1. Inv => TypeOK
  BY InvImpliesTypeOK
<1> QED BY <1>1, InvAlways, PTL

(***************************************************************************)
(* OrderGateway::recvCallback hands on the engine's responses to its       *)
(* client, each once and in order, and only where the client's requests    *)
(* came from, whatever short sends have lost; and the ASSERT on the        *)
(* client's socket in OrderServer::run never fails.                        *)
(***************************************************************************)
THEOREM PathResponsesInOrder == Spec => []ResponsesInOrder
<1>1. Inv => ResponsesInOrder
  BY InvImpliesResponsesInOrder
<1> QED BY <1>1, InvAlways, PTL

(***************************************************************************)
(* The order of requests. std::sort leaves requests of one receive time as *)
(* they were only in a short range.                                        *)
(***************************************************************************)
RoundsFit == Len(server.pending) <= StableUpTo

LEMMA InitOrder == Init => OrderInv
<1> SUFFICES ASSUME Init PROVE OrderInv
  OBVIOUS
<1>1. /\ server.pending = << >> /\ published = << >> /\ left = << >>
      /\ backlog = << >> /\ receive_sockets_ = << >>
  BY DEF Init
<1>2. Len(server.pending) = 0 /\ Len(published) = 0 /\ Len(left) = 0
  BY <1>1
<1>3. Len(receive_sockets_ \o backlog) = 0
  BY <1>1
<1>4. \A c \in Clients : server.cid_next_exp_seq_num_[c] = 1
  BY DEF Init
<1>5. Continued(server, published)
  BY <1>2, <1>4 DEF Continued
<1>6. ReadAtOnce(server)
  BY <1>2 DEF ReadAtOnce
<1>7. Round
  BY <1>1, <1>2, <1>3 DEF Round, Distinct
<1>8. RequestsInOrder
  BY <1>2 DEF RequestsInOrder
<1> QED BY <1>5, <1>6, <1>7, <1>8 DEF OrderInv

\* Steps that take no request.
LEMMA OrderStays ==
  ASSUME OrderInv, published' = published, server'.pending = server.pending,
         server'.cid_next_exp_seq_num_ = server.cid_next_exp_seq_num_,
         server'.exited = server.exited, Round'
  PROVE  OrderInv'
<1>1. Continued(server', published')
  BY DEF OrderInv, Continued
<1>2. ReadAtOnce(server')
  BY DEF OrderInv, ReadAtOnce
<1>3. RequestsInOrder'
  BY DEF OrderInv, RequestsInOrder
<1> QED BY <1>1, <1>2, <1>3 DEF OrderInv

LEMMA OtherOrder ==
  ASSUME OrderInv, UNCHANGED <<server, published, backlog, receive_sockets_, at, left, received>>
  PROVE  OrderInv'
<1>1. Round'
  BY DEF OrderInv, Round
<1> QED BY <1>1, OrderStays

LEMMA StartOrder ==
  ASSUME Inv, OrderInv, NEW g \in Processes, Start(g)
  PROVE  OrderInv'
<1>1. /\ UNCHANGED <<receive_sockets_, at, left, received, server, published>>
      /\ backlog' = Append(backlog, g) /\ g \notin Connected
  BY DEF Start, thread
<1> DEFINE q == receive_sockets_ \o backlog
           p == receive_sockets_ \o Append(backlog, g)
           a == Len(receive_sockets_)
           b == Len(backlog)
<1>2. backlog \in Seq(Processes) /\ receive_sockets_ \in Seq(Processes)
  BY DEF Inv, ServerTypes
<1>3. a \in Nat /\ b \in Nat /\ Len(q) = a + b /\ Len(p) = a + b + 1
  BY <1>2
<1>4. \A i \in 1 .. (a + b) : q[i] \in Connected
  <2>1. \A i \in 1 .. a : receive_sockets_[i] \in Connected
    BY <1>2 DEF Connected, ToSet
  <2>2. \A i \in 1 .. b : backlog[i] \in Connected
    BY <1>2 DEF Connected, ToSet
  <2>3. \A i \in 1 .. (a + b) : q[i] = IF i <= a THEN receive_sockets_[i] ELSE backlog[i - a]
    BY <1>2
  <2> HIDE DEF a, b, q
  <2> QED BY <2>1, <2>2, <2>3, <1>3
<1>5. p[a + b + 1] = g /\ \A i \in 1 .. (a + b) : p[i] = q[i]
  BY <1>2
<1>6. Distinct(q)
  BY DEF OrderInv, Round
<1> HIDE DEF q, p, a, b
<1>7. Distinct(p)
  <2> SUFFICES ASSUME NEW i \in 1 .. Len(p), NEW j \in 1 .. Len(p), p[i] = p[j] PROVE i = j
    BY DEF Distinct
  <2>1. i \in 1 .. (a + b) \/ i = a + b + 1
    BY <1>3
  <2>2. j \in 1 .. (a + b) \/ j = a + b + 1
    BY <1>3
  <2>3. CASE i \in 1 .. (a + b) /\ j \in 1 .. (a + b)
    BY <2>3, <1>3, <1>5, <1>6 DEF Distinct
  <2> QED BY <2>1, <2>2, <2>3, <1>1, <1>4, <1>5
<1>8. Distinct(receive_sockets_' \o backlog')
  BY <1>1, <1>7 DEF p
<1>9. Round'
  BY <1>1, <1>8 DEF OrderInv, Round
<1> QED BY <1>1, <1>9, OrderStays

LEMMA PollOrder == ASSUME Inv, OrderInv, Poll PROVE OrderInv'
<1>1. /\ UNCHANGED <<server, published>> /\ at = "poll"
      /\ receive_sockets_' = receive_sockets_ \o backlog /\ left' = receive_sockets_'
      /\ backlog' = << >>
  BY DEF Poll
<1>2. backlog \in Seq(Processes) /\ receive_sockets_ \in Seq(Processes)
  BY DEF Inv, ServerTypes
<1>3. receive_sockets_' \o backlog' = receive_sockets_ \o backlog
  <2>1. receive_sockets_ \o backlog \in Seq(Processes)
    BY <1>2, ConcatProperties
  <2> QED BY <1>1, <2>1, ConcatEmptySeq
<1>4. Distinct(receive_sockets_' \o backlog') /\ Distinct(left')
  BY <1>1, <1>3 DEF OrderInv, Round
<1>5. server'.pending = << >>
  BY <1>1 DEF OrderInv, Round
<1>6. Len(server'.pending) = 0
  BY <1>5
<1>7. Round'
  BY <1>4, <1>5, <1>6 DEF Round
<1> QED BY <1>1, <1>7, OrderStays

LEMMA RespondOrder == ASSUME Inv, OrderInv, Respond PROVE OrderInv'
<1>1. /\ UNCHANGED <<backlog, receive_sockets_, left, received, published>>
      /\ at = "respond" /\ at' = "poll"
  BY DEF Respond
<1>2. /\ server'.pending = server.pending /\ server'.exited = server.exited
      /\ server'.cid_next_exp_seq_num_ = server.cid_next_exp_seq_num_
  BY RespondKeeps
<1>3. Round'
  BY <1>1, <1>2 DEF OrderInv, Round
<1> QED BY <1>1, <1>2, <1>3, OrderStays

LEMMA ServeSocketOrder == ASSUME Inv, OrderInv, ServeSocket PROVE OrderInv'
<1> DEFINE g == Head(left)
           old == Len(server.pending)
           new == Len(server'.pending)
           n == Len(left)
<1>1. at = "sockets" /\ left # << >> /\ g \in Processes /\ left \in Seq(Processes)
  <2>1. left \in Seq(Processes)
    BY DEF Inv, ServerTypes
  <2> QED BY <2>1, ServeSocketFacts
<1>2. PICK i \in SomeOf(up[g]), rx_time \in 1 .. MaxTime, k \in Sent(socket[g].outbound) :
        Serves(g, i, rx_time, k)
  BY ServeSocketFacts
<1>3. UNCHANGED <<backlog, receive_sockets_, at, published>> /\ left' = Tail(left)
  BY DEF ServeSocket
<1>4. n \in Nat /\ Len(left') = n - 1 /\ g = left[1] /\ n >= 1
      /\ \A j \in 1 .. (n - 1) : left'[j] = left[j + 1]
  <2>1. Len(left) # 0
    BY <1>1, EmptySeq
  <2> QED BY <2>1, <1>1, <1>3, HeadTailProperties
<1>5. i \in Nat
  <2>1. up[g] \in Seq(RequestUnits)
    BY <1>1 DEF Inv, ClientTypes
  <2> QED BY <2>1, SomeOfFacts
<1>6. /\ Takes(published, server, g, rx_time, server')
      /\ i = 0 => server' = server
      /\ received' = (received \/ i > 0)
  BY <1>2 DEF Serves
<1>7. /\ old \in Nat /\ new \in Nat /\ old <= new
      /\ \A j \in 1 .. new :
           /\ j <= old => server'.pending[j] = server.pending[j]
           /\ j > old => /\ server'.pending[j].request.from = g
                         /\ server'.pending[j].recv_time_ = rx_time
  <2>1. server \in Server /\ server' \in Server
    BY <1>6 DEF Inv, ServerTypes, Takes
  <2>2. old \in Nat /\ new \in Nat
    BY <2>1 DEF Server
  <2>3. Extended(server, server', g, rx_time)
    BY <1>6 DEF Takes
  <2> QED BY <2>2, <2>3 DEF Extended
<1>8. /\ \A a \in 1 .. n : \A j \in 1 .. old : server.pending[j].request.from # left[a]
      /\ \A a, b \in 1 .. n : left[a] = left[b] => a = b
  BY DEF OrderInv, Round, Distinct
<1>9. Continued(server', published')
  BY <1>3, <1>6 DEF OrderInv, Takes
<1>10. \A a, b \in 1 .. old :
          server.pending[a].request.from = server.pending[b].request.from
            => server.pending[a].recv_time_ = server.pending[b].recv_time_
  BY DEF OrderInv, ReadAtOnce
<1> HIDE DEF old, new, g, n
<1>11. ReadAtOnce(server')
  <2>1. ASSUME NEW a \in 1 .. new, NEW b \in 1 .. new,
               server'.pending[a].request.from = server'.pending[b].request.from
        PROVE  server'.pending[a].recv_time_ = server'.pending[b].recv_time_
    <3>1. \A j \in 1 .. new : j <= old => server'.pending[j].request.from # g
      BY <1>4, <1>7, <1>8
    <3>2. CASE a <= old /\ b <= old
      BY <3>2, <2>1, <1>7, <1>10
    <3>3. CASE a > old /\ b > old
      BY <3>3, <1>7
    <3>4. CASE a <= old /\ b > old
      BY <3>4, <3>1, <2>1, <1>7
    <3>5. CASE a > old /\ b <= old
      BY <3>5, <3>1, <2>1, <1>7
    <3> QED BY <3>2, <3>3, <3>4, <3>5, <1>7
  <2> QED BY <2>1 DEF ReadAtOnce, new
<1>12. Distinct(left')
  <2> SUFFICES ASSUME NEW a \in 1 .. Len(left'), NEW b \in 1 .. Len(left'), left'[a] = left'[b]
               PROVE  a = b
    BY DEF Distinct
  <2> QED BY <1>4, <1>8
<1>13. ASSUME NEW a \in 1 .. Len(left'), NEW j \in 1 .. new
       PROVE  server'.pending[j].request.from # left'[a]
  <2>1. a + 1 \in 1 .. n /\ 1 \in 1 .. n /\ left'[a] = left[a + 1] /\ a + 1 # 1
    BY <1>4
  <2>2. CASE j <= old
    BY <2>1, <2>2, <1>7, <1>8
  <2>3. CASE j > old
    BY <2>1, <2>3, <1>4, <1>7, <1>8
  <2> QED BY <2>2, <2>3, <1>7
<1>14. ~received' => server'.pending = << >>
  <2> SUFFICES ASSUME ~received' PROVE server'.pending = << >>
    OBVIOUS
  <2>1. ~received /\ ~(i > 0)
    BY <1>6
  <2>2. server.pending = << >>
    BY <2>1 DEF OrderInv, Round
  <2>3. i = 0
    BY <2>1, <1>5
  <2> QED BY <2>2, <2>3, <1>6
<1>15. at' = "sockets" /\ Distinct(receive_sockets_' \o backlog')
  BY <1>1, <1>3 DEF OrderInv, Round
<1>16. Round'
  BY <1>12, <1>13, <1>14, <1>15 DEF Round, new
<1>17. RequestsInOrder'
  BY <1>3 DEF OrderInv, RequestsInOrder
<1> QED BY <1>9, <1>11, <1>16, <1>17 DEF OrderInv

\* std::sort publishes every pending request,
LEMMA SortedOnto ==
  ASSUME NEW p \in Seq(Pending), NEW q, NEW f, SortedBy(p, q, f), NEW j \in 1 .. Len(p)
  PROVE  \E i \in 1 .. Len(p) : q[i] = p[j].request
<1> DEFINE n == Len(p)
           N == 1 .. n
<1>1. n \in Nat
  OBVIOUS
<1>2. f \in [N -> N] /\ \A a, b \in N : a < b => f[a] # f[b]
  BY DEF SortedBy
<1>3. \A i \in N : q[i] = p[f[i]].request
  BY DEF SortedBy
<1>4. j \in N
  OBVIOUS
<1> HIDE DEF n
<1>5. \A a, b \in N : f[a] = f[b] => a = b
  BY <1>1, <1>2
<1>6. f \in Injection(N, N)
  BY <1>2, <1>5 DEF Injection, IsInjective
<1>7. IsFiniteSet(N)
  BY <1>1, FS_Interval
<1>8. f \in Surjection(N, N)
  <2> HIDE DEF N
  <2> QED BY <1>6, <1>7, FS_Injection
<1>9. PICK i \in N : f[i] = j
  BY <1>4, <1>8 DEF Surjection
<1> QED BY <1>3, <1>9 DEF n

\* and of a short range those of one client in the order in which they were read.
LEMMA SortedInOrder ==
  ASSUME NEW s \in Server, NEW taken, Bound(s, taken), Continued(s, taken), ReadAtOnce(s),
         Len(s.pending) <= StableUpTo, NEW q, NEW f, SortedBy(s.pending, q, f),
         NEW i \in 1 .. Len(s.pending), NEW j \in 1 .. Len(s.pending), i < j
  PROVE  Before(q[i], q[j])
<1> DEFINE p == s.pending
<1>1. /\ f[i] \in 1 .. Len(p) /\ f[j] \in 1 .. Len(p)
      /\ q[i] = p[f[i]].request /\ q[j] = p[f[j]].request
      /\ p[f[i]].recv_time_ = p[f[j]].recv_time_ => f[i] < f[j]
  BY DEF SortedBy
<1>2. \A a, b \in 1 .. Len(p) : a < b => Before(p[a].request, p[b].request)
  BY DEF Continued
<1>3. \A a, b \in 1 .. Len(p) : p[a].request.from = p[b].request.from
                                  => p[a].recv_time_ = p[b].recv_time_
  BY DEF ReadAtOnce
<1>4. \A a \in 1 .. Len(p) : p[a].request.from = s.cid_tcp_socket_[p[a].request.client]
  BY DEF Bound
<1> HIDE DEF p
<1>5. SUFFICES ASSUME q[i].client = q[j].client PROVE q[i].n < q[j].n
  BY DEF Before
<1>6. p[f[i]].recv_time_ = p[f[j]].recv_time_
  BY <1>1, <1>3, <1>4, <1>5
<1>7. Before(p[f[i]].request, p[f[j]].request)
  BY <1>1, <1>2, <1>6
<1> QED BY <1>1, <1>5, <1>7 DEF Before

\* What is published continues what was: no client's request is left out, and each of its
\* requests comes before the next.
Ordered(taken) == \A i, j \in 1 .. Len(taken) : i < j => Before(taken[i], taken[j])

LEMMA SequencedContinues ==
  ASSUME NEW s \in Server, NEW taken \in Seq(Requests), Bound(s, taken), Continued(s, taken),
         ReadAtOnce(s), ~s.exited, Ordered(taken), Len(s.pending) <= StableUpTo,
         NEW q \in Seq(Requests), NEW f, SortedBy(s.pending, q, f),
         NEW r, r.pending = << >>, r.cid_next_exp_seq_num_ = s.cid_next_exp_seq_num_
  PROVE  Continued(r, taken \o q) /\ Ordered(taken \o q)
<1> DEFINE P == taken \o q
           a == Len(taken)
           b == Len(s.pending)
           next == s.cid_next_exp_seq_num_
<1>1. /\ Len(P) = a + b /\ a \in Nat /\ b \in Nat
      /\ \A i \in 1 .. a : P[i] = taken[i]
      /\ \A i \in 1 .. b : P[a + i] = q[i]
  <2>1. Len(q) = b
    BY DEF SortedBy
  <2>2. /\ Len(P) = a + Len(q) /\ a \in Nat /\ Len(q) \in Nat
        /\ \A i \in 1 .. a + Len(q) : P[i] = IF i <= a THEN taken[i] ELSE q[i - a]
    BY ConcatProperties
  <2> HIDE DEF P, a, b
  <2>3. \A i \in 1 .. a : P[i] = taken[i]
    BY <2>2
  <2>4. ASSUME NEW i \in 1 .. b PROVE P[a + i] = q[i]
    <3>1. a + i \in 1 .. a + Len(q) /\ ~(a + i <= a) /\ (a + i) - a = i
      BY <2>1, <2>2
    <3> QED BY <3>1, <2>2
  <2> QED BY <2>1, <2>2, <2>3, <2>4
<1>2. ASSUME NEW i \in 1 .. b
      PROVE  \E j \in 1 .. b : q[i] = s.pending[j].request
  BY DEF SortedBy
<1>3. ASSUME NEW j \in 1 .. b
      PROVE  \E i \in 1 .. b : q[i] = s.pending[j].request
  <2>1. s.pending \in Seq(Pending)
    BY DEF Server
  <2> QED BY <2>1, SortedOnto
<1>4. /\ \A i \in 1 .. a : \A j \in 1 .. b : Before(taken[i], s.pending[j].request)
      /\ \A i \in 1 .. a : taken[i].n < next[taken[i].client]
      /\ \A j \in 1 .. b : s.pending[j].request.n < next[s.pending[j].request.client]
      /\ \A c \in Clients : \A n \in 1 .. (next[c] - 1) :
           \/ \E i \in 1 .. a : taken[i].client = c /\ taken[i].n = n
           \/ \E j \in 1 .. b : s.pending[j].request.client = c /\ s.pending[j].request.n = n
  BY DEF Continued
<1>5. \A i, j \in 1 .. b : i < j => Before(q[i], q[j])
  BY SortedInOrder
<1>6. \A i, j \in 1 .. a : i < j => Before(taken[i], taken[j])
  BY DEF Ordered
<1>7. Len(r.pending) = 0 /\ r.cid_next_exp_seq_num_ = next
  OBVIOUS
<1> HIDE DEF P, a, b, next
<1>8. ASSUME NEW i \in 1 .. Len(P)
      PROVE  i \in 1 .. a \/ \E j \in 1 .. b : i = a + j
  <2>1. i \in 1 .. a \/ i - a \in 1 .. b
    BY <1>1
  <2>2. i = a + (i - a)
    BY <1>1
  <2> QED BY <2>1, <2>2
<1>9. Ordered(P)
  <2> SUFFICES ASSUME NEW i \in 1 .. Len(P), NEW j \in 1 .. Len(P), i < j
               PROVE  Before(P[i], P[j])
    BY DEF Ordered
  <2>1. CASE i \in 1 .. a /\ j \in 1 .. a
    BY <2>1, <1>1, <1>6
  <2>2. ASSUME i \in 1 .. a, NEW k \in 1 .. b, j = a + k PROVE Before(P[i], P[j])
    <3>1. PICK l \in 1 .. b : q[k] = s.pending[l].request
      BY <1>2
    <3>2. P[i] = taken[i] /\ P[j] = s.pending[l].request
      BY <3>1, <2>2, <1>1
    <3> QED BY <3>2, <2>2, <1>4
  <2>3. ASSUME NEW h \in 1 .. b, i = a + h, NEW k \in 1 .. b, j = a + k PROVE Before(P[i], P[j])
    <3>1. h < k
      BY <2>3, <1>1
    <3>2. P[i] = q[h] /\ P[j] = q[k]
      BY <2>3, <1>1
    <3> QED BY <3>1, <3>2, <1>5
  <2>4. ~(j \in 1 .. a /\ \E k \in 1 .. b : i = a + k)
    BY <1>1
  <2> QED BY <2>1, <2>2, <2>3, <2>4, <1>8
<1>10. Continued(r, P)
  <2>1. ASSUME NEW i \in 1 .. Len(P) PROVE P[i].n < next[P[i].client]
    <3>1. CASE i \in 1 .. a
      BY <3>1, <1>1, <1>4
    <3>2. ASSUME NEW k \in 1 .. b, i = a + k PROVE P[i].n < next[P[i].client]
      <4>1. PICK l \in 1 .. b : q[k] = s.pending[l].request
        BY <1>2
      <4>2. P[i] = s.pending[l].request
        BY <4>1, <3>2, <1>1
      <4> QED BY <4>2, <1>4
    <3> QED BY <3>1, <3>2, <1>8
  <2>2. ASSUME NEW c \in Clients, NEW n \in 1 .. (next[c] - 1)
        PROVE  \E i \in 1 .. Len(P) : P[i].client = c /\ P[i].n = n
    <3>1. CASE \E i \in 1 .. a : taken[i].client = c /\ taken[i].n = n
      <4>1. PICK i \in 1 .. a : taken[i].client = c /\ taken[i].n = n
        BY <3>1
      <4>2. i \in 1 .. Len(P) /\ P[i] = taken[i]
        BY <1>1
      <4> QED BY <4>1, <4>2
    <3>2. CASE \E j \in 1 .. b : s.pending[j].request.client = c /\ s.pending[j].request.n = n
      <4>1. PICK j \in 1 .. b : s.pending[j].request.client = c /\ s.pending[j].request.n = n
        BY <3>2
      <4>2. PICK i \in 1 .. b : q[i] = s.pending[j].request
        BY <1>3
      <4>3. a + i \in 1 .. Len(P) /\ P[a + i] = s.pending[j].request
        BY <1>1, <4>2
      <4> QED BY <4>1, <4>3
    <3> QED BY <3>1, <3>2, <1>4
  <2> QED BY <2>1, <2>2, <1>7 DEF Continued
<1> QED BY <1>9, <1>10 DEF P

LEMMA ContinuedInOrder ==
  ASSUME NEW s \in Server, NEW taken \in Seq(Requests), Len(s.pending) = 0, ~s.exited,
         Bound(s, taken), Continued(s, taken), Ordered(taken), NEW i \in 1 .. Len(taken)
  PROVE  /\ \A k \in 1 .. (i - 1) : taken[k].client = taken[i].client =>
              taken[k].from = taken[i].from /\ taken[k].n < taken[i].n
         /\ taken[i].n > 1 => \E k \in 1 .. (i - 1) :
              taken[k].client = taken[i].client /\ taken[k].n = taken[i].n - 1
<1> DEFINE a == Len(taken)
           next == s.cid_next_exp_seq_num_
           c == taken[i].client
           n == taken[i].n
<1>1. a \in Nat /\ i \in 1 .. a
  OBVIOUS
<1>2. \A k \in 1 .. a : taken[k].from = s.cid_tcp_socket_[taken[k].client]
  BY DEF Bound
<1>3. \A k \in 1 .. a : \A l \in 1 .. a : k < l => Before(taken[k], taken[l])
  BY DEF Ordered
<1>4. n < next[c] /\ \A m \in 1 .. (next[c] - 1) : \E k \in 1 .. a : taken[k].client = c /\ taken[k].n = m
  <2>1. c \in Clients
    BY TakenTypes
  <2> QED BY <2>1 DEF Continued
<1>5. next[c] \in Nat /\ n \in Nat
  <2>1. c \in Clients /\ n \in Nat
    BY TakenTypes
  <2>2. next \in [Clients -> Positive]
    BY DEF Server
  <2> QED BY <2>1, <2>2 DEF Positive
<1> HIDE DEF a, next, c, n
<1>6. ASSUME NEW k \in 1 .. (i - 1), taken[k].client = c
      PROVE  taken[k].from = taken[i].from /\ taken[k].n < n
  <2>1. k \in 1 .. a /\ k < i
    BY <1>1
  <2>2. Before(taken[k], taken[i])
    BY <2>1, <1>1, <1>3
  <2> QED BY <2>1, <2>2, <1>1, <1>2, <1>6 DEF Before, c, n
<1>7. ASSUME n > 1 PROVE \E k \in 1 .. (i - 1) : taken[k].client = c /\ taken[k].n = n - 1
  <2>1. n - 1 \in 1 .. (next[c] - 1)
    BY <1>4, <1>5, <1>7
  <2>2. PICK k \in 1 .. a : taken[k].client = c /\ taken[k].n = n - 1
    BY <2>1, <1>4
  <2>3. k # i
    BY <2>2, <1>5 DEF n
  <2>4. ~(i < k)
    <3> SUFFICES ASSUME i < k PROVE FALSE
      OBVIOUS
    <3>1. Before(taken[i], taken[k])
      BY <1>1, <1>3
    <3>2. n < n - 1
      BY <3>1, <2>2 DEF Before, c, n
    <3> QED BY <3>2, <1>5
  <2>5. k \in 1 .. (i - 1)
    BY <2>3, <2>4, <1>1
  <2> QED BY <2>2, <2>5
<1> QED BY <1>6, <1>7 DEF c, n

LEMMA PublishOrder ==
  ASSUME Inv, OrderInv, RoundsFit, SequenceAndPublish
  PROVE  OrderInv'
<1>1. /\ UNCHANGED <<backlog, receive_sockets_, left, received>>
      /\ at = "sockets" /\ at' = "respond" /\ left = << >> /\ ~server.exited
  BY DEF SequenceAndPublish, tcp_server
<1>2. /\ server \in Server /\ published \in Seq(Requests) /\ server.pending \in Seq(Pending)
      /\ Bound(server, published)
  BY DEF Inv, ServerTypes, EngineTypes, Server
<1>3. Len(left') = 0
  BY <1>1
<1>4. CASE received
  <2>1. PICK q \in Sorted(server.pending) : published' = published \o q
    BY <1>4 DEF SequenceAndPublish
  <2>2. server' = [server EXCEPT !.pending = << >>]
    BY <1>4 DEF SequenceAndPublish
  <2>3. /\ server' \in Server /\ server'.pending = << >> /\ server'.exited = server.exited
        /\ server'.cid_next_exp_seq_num_ = server.cid_next_exp_seq_num_
    <3> DEFINE none == << >>
    <3>1. none \in Seq(Pending)
      OBVIOUS
    <3>2. server' = [server EXCEPT !.pending = none]
      BY <2>2
    <3> HIDE DEF none
    <3>3. /\ server' \in Server /\ server'.pending = none /\ server'.exited = server.exited
          /\ server'.cid_next_exp_seq_num_ = server.cid_next_exp_seq_num_
      BY <3>1, <3>2, <1>2, NewPending
    <3> QED BY <3>3 DEF none
  <2>4. q \in Seq(Requests) /\ \E f : SortedBy(server.pending, q, f)
    BY <1>2, SortedFacts
  <2>5. Ordered(published)
    <3> SUFFICES ASSUME NEW i \in 1 .. Len(published), NEW j \in 1 .. Len(published), i < j
                 PROVE  Before(published[i], published[j])
      BY DEF Ordered
    <3>1. Len(published) \in Nat
      BY <1>2
    <3>2. i \in 1 .. (j - 1)
      BY <3>1
    <3> QED BY <3>2 DEF OrderInv, RequestsInOrder, Before
  <2>6. Continued(server', published') /\ Ordered(published')
    <3>1. Continued(server, published) /\ ReadAtOnce(server) /\ Len(server.pending) <= StableUpTo
      BY DEF OrderInv, RoundsFit
    <3>2. Continued(server', published \o q) /\ Ordered(published \o q)
      BY <3>1, <2>3, <2>4, <2>5, <1>1, <1>2, SequencedContinues
    <3> QED BY <3>2, <2>1
  <2>7. Bound(server', published') /\ published' \in Seq(Requests)
    BY PublishInv DEF Inv, EngineTypes
  <2>8. Len(server'.pending) = 0 /\ ~server'.exited
    <3>1. Len(server'.pending) = 0
      BY <2>3
    <3>2. ~server'.exited
      BY <2>3, <1>1
    <3> QED BY <3>1, <3>2
  <2>9. RequestsInOrder'
    <3> DEFINE P == published'
               s == server'
    <3>1. /\ P \in Seq(Requests) /\ s \in Server /\ Len(s.pending) = 0 /\ ~s.exited
          /\ Bound(s, P) /\ Continued(s, P) /\ Ordered(P)
      BY <2>3, <2>6, <2>7, <2>8
    <3> HIDE DEF P, s
    <3>2. ASSUME NEW i \in 1 .. Len(P)
          PROVE  /\ \A k \in 1 .. (i - 1) : P[k].client = P[i].client =>
                      P[k].from = P[i].from /\ P[k].n < P[i].n
                 /\ P[i].n > 1 => \E k \in 1 .. (i - 1) :
                      P[k].client = P[i].client /\ P[k].n = P[i].n - 1
      BY <3>1, ContinuedInOrder
    <3> QED BY <3>2 DEF RequestsInOrder, P
  <2>10. ReadAtOnce(server')
    BY <2>8 DEF ReadAtOnce
  <2>11. Round'
    BY <2>3, <2>8, <1>1, <1>3 DEF OrderInv, Round
  <2> QED BY <2>6, <2>9, <2>10, <2>11 DEF OrderInv
<1>5. CASE ~received
  <2>1. server' = server /\ published' = published
    BY <1>5 DEF SequenceAndPublish
  <2>2. server'.pending = << >>
    BY <2>1, <1>5 DEF OrderInv, Round
  <2>3. Round'
    BY <2>2, <1>1, <1>3 DEF OrderInv, Round
  <2> QED BY <2>1, <2>3, OrderStays
<1> QED BY <1>4, <1>5

LEMMA NextOrder == ASSUME Inv, OrderInv, RoundsFit, [Next]_vars PROVE OrderInv'
<1>1. ASSUME NEW g \in Processes, Start(g) PROVE OrderInv'
  BY <1>1, StartOrder
<1>2. ASSUME NEW g \in Processes, SendRequest(g) PROVE OrderInv'
  BY <1>2, OtherOrder DEF SendRequest, tcp_server, thread
<1>3. ASSUME NEW g \in Processes, SendAndRecv(g) PROVE OrderInv'
  BY <1>3, OtherOrder DEF SendAndRecv, tcp_server, thread
<1>4. CASE Poll
  BY <1>4, PollOrder
<1>5. CASE ServeSocket
  BY <1>5, ServeSocketOrder
<1>6. CASE SequenceAndPublish
  BY <1>6, PublishOrder
<1>7. CASE Respond
  BY <1>7, RespondOrder
<1>8. CASE MatchingEngine
  BY <1>8, OtherOrder DEF MatchingEngine, Answer, Fill, tcp_server, thread
<1>9. CASE UNCHANGED vars
  BY <1>9, OtherOrder DEF vars, tcp_server, thread
<1> QED BY <1>1, <1>2, <1>3, <1>4, <1>5, <1>6, <1>7, <1>8, <1>9 DEF Next, OrderServer

(***************************************************************************)
(* FIFOSequencer::sequenceAndPublish hands to the matching engine, of each *)
(* client id, the first requests of one process, each once and in the      *)
(* order in which it sent them, whatever short sends have lost and whoever *)
(* else uses the id: as long as every round of TCPServer::sendAndRecv      *)
(* reads no more requests than std::sort keeps in order.                   *)
(***************************************************************************)
THEOREM PathRequestsInOrder == Spec /\ []RoundsFit => []RequestsInOrder
<1>1. Init => OrderInv
  BY InitOrder
<1>2. Inv /\ OrderInv /\ RoundsFit /\ [Next]_vars => OrderInv'
  BY NextOrder
<1>3. OrderInv => RequestsInOrder
  BY DEF OrderInv
<1> QED BY <1>1, <1>2, <1>3, InvAlways, PTL DEF Spec
=============================================================================
