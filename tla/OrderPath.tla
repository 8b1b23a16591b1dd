----------------------------- MODULE OrderPath -----------------------------
(***************************************************************************)
(* The way of orders between trading clients and the matching engine:      *)
(* OrderGateway, the TCP connection, OrderServer with TCPServer and        *)
(* FIFOSequencer, and back.                                                *)
(*                                                                         *)
(* A connection is a stream of units: the code sends a sequence number and *)
(* then a body, and a read may end between the two. A delay of the network *)
(* is a delay of the step that sends.                                      *)
(* Two processes may have the same client id: a client that was started    *)
(* twice, or again.                                                        *)
(*                                                                         *)
(* Operators whose comment starts with "Defect:" are variants of the       *)
(* definition that follows them, which some property must exclude.         *)
(***************************************************************************)
EXTENDS Integers, Sequences, SequencesExt, FiniteSets

CONSTANTS Processes,     \* trading clients, each with one connection
          Clients,       \* client ids: several processes may have one
          None,          \* no socket
          MaxPending,    \* ME_MAX_PENDING_REQUESTS
          StableUpTo,    \* std::sort keeps equal elements in order up to this length
          MaxRequests,   \* bound on the requests of all processes
          MaxFills,      \* bound on the responses that no request of the client asked for
          MaxShort,      \* bound on the short sends
          MaxTime        \* bound on the receive times told apart in a round

ASSUME ProcessAssumption == None \notin Processes
ASSUME BoundAssumption ==
  /\ MaxPending \in Nat /\ StableUpTo \in Nat /\ MaxRequests \in Nat
  /\ MaxFills \in Nat /\ MaxShort \in Nat /\ MaxTime \in Nat \ {0}

VARIABLES
  gateway,    \* of each process: OrderGateway with its TCPSocket
  up,         \* units on the way to the exchange
  down,       \* units on the way to the process
  shorts,     \* short sends so far
  backlog,    \* connections that are not accepted yet
  receive_sockets_, socket,            \* TCPServer and its TCPSockets
  at, left, received,                  \* where its thread is: OrderServer::run
  server,     \* the maps of OrderServer and pending_client_requests_
  published,  \* all requests written to the engine's queue
  handled,    \* how many of them the engine has taken
  answered,   \* how many responses each client was sent by the engine
  fills,      \* how many of these answered no request
  responses   \* from the engine to OrderServer

network == <<up, down, shorts>>
tcp_server == <<backlog, receive_sockets_, socket>>
thread == <<at, left, received>>
engine == <<handled, answered, fills>>
vars == <<gateway, network, tcp_server, thread, server, published, engine, responses>>

\* In a gateway, got is what it has written to incoming_responses_; exited: FATAL or a
\* failed ASSERT has ended the exchange.
Init ==
  /\ \E ids \in [Processes -> Clients] :
       gateway = [g \in Processes |-> [client_id_ |-> ids[g],
                                       next_outgoing_seq_num_ |-> 1, next_exp_seq_num_ |-> 1,
                                       outbound |-> << >>, inbound |-> << >>, got |-> << >>]]
  /\ up = [g \in Processes |-> << >>]
  /\ down = [g \in Processes |-> << >>]
  /\ shorts = 0
  /\ backlog = << >> /\ receive_sockets_ = << >>
  /\ socket = [g \in Processes |-> [outbound |-> << >>, inbound |-> << >>]]
  /\ at = "poll" /\ left = << >> /\ received = FALSE
  /\ server = [cid_tcp_socket_ |-> [c \in Clients |-> None],
               cid_next_exp_seq_num_ |-> [c \in Clients |-> 1],
               cid_next_outgoing_seq_num_ |-> [c \in Clients |-> 1],
               pending |-> << >>, exited |-> FALSE]
  /\ published = << >> /\ handled = 0 /\ fills = 0 /\ responses = << >>
  /\ answered = [c \in Clients |-> 0]

-----------------------------------------------------------------------------
(* Streams. *)

\* TCPSocket::send, twice: the sequence number, then the message.
Units(seq, body) == <<[seq |-> seq], [body |-> body]>>

\* The loop of both recvCallbacks: the whole messages of a buffer,
Messages(s) == [k \in 1 .. (Len(s) \div 2) |-> [seq |-> s[2 * k - 1].seq, body |-> s[2 * k].body]]

\* and what memcpy keeps for the next call.
Rest(s) == SubSeq(s, 2 * (Len(s) \div 2) + 1, Len(s))

\* ::send() of TCPSocket::sendAndRecv: the kernel takes all of the buffer or, when it has
\* no room, fewer messages; next_send_valid_index_ = 0 drops the others.
Sent(outbound) ==
  {k \in 0 .. Len(outbound) : k % 2 = 0 /\ (k < Len(outbound) => shorts < MaxShort)}
ShortOf(outbound, k) == IF k < Len(outbound) THEN 1 ELSE 0

\* recvmsg(): some of the units that are under way.
SomeOf(stream) == IF stream = << >> THEN {0} ELSE 1 .. Len(stream)

-----------------------------------------------------------------------------
(* The trading client. *)

Connected == ToSet(backlog) \cup ToSet(receive_sockets_)

\* OrderGateway::start: connect() succeeds while the exchange listens.
Start(g) ==
  /\ g \notin Connected /\ ~server.exited
  /\ backlog' = Append(backlog, g)
  /\ UNCHANGED <<gateway, network, receive_sockets_, socket, thread, server,
                 published, engine, responses>>

\* How many requests a process has numbered.
Numbered(g) == gateway[g].next_outgoing_seq_num_ - 1
Total == FoldFunction(+, 0, [g \in Processes |-> Numbered(g)])

\* The loop of OrderGateway::run over outgoing_requests_, one request of the TradeEngine.
SendRequest(g) ==
  /\ g \in Connected /\ Total < MaxRequests
  /\ LET n == gateway[g].next_outgoing_seq_num_
     IN gateway' = [gateway EXCEPT
          ![g].outbound = @ \o Units(n, [client |-> gateway[g].client_id_, from |-> g, n |-> n]),
          ![g].next_outgoing_seq_num_ = @ + 1]
  /\ UNCHANGED <<network, tcp_server, thread, server, published, engine, responses>>

\* Defect: the sequence number is not looked at.
TakeResponseUnchecked(gw, m) ==
  [gw EXCEPT !.next_exp_seq_num_ = @ + 1, !.got = Append(@, m.body)]

\* OrderGateway::recvCallback, one message.
TakeResponse(gw, m) ==
  IF m.body.client # gw.client_id_ \/ m.seq # gw.next_exp_seq_num_ THEN gw
  ELSE [gw EXCEPT !.next_exp_seq_num_ = @ + 1, !.got = Append(@, m.body)]

\* Its loop.
TakeResponses(gw, msgs) ==
  LET read[k \in 0 .. Len(msgs)] == IF k = 0 THEN gw ELSE TakeResponse(read[k - 1], msgs[k])
  IN  read[Len(msgs)]

\* TCPSocket::sendAndRecv in OrderGateway::run: what has come is read, then the buffer sent.
SendAndRecv(g) ==
  /\ \E i \in SomeOf(down[g]), k \in Sent(gateway[g].outbound) :
       LET inbound == gateway[g].inbound \o SubSeq(down[g], 1, i)
           read == TakeResponses(gateway[g], Messages(inbound))
       IN /\ gateway' = [gateway EXCEPT ![g] = [read EXCEPT !.inbound = Rest(inbound),
                                                            !.outbound = << >>]]
          /\ down' = [down EXCEPT ![g] = SubSeq(@, i + 1, Len(@))]
          /\ up' = [up EXCEPT ![g] = @ \o SubSeq(gateway[g].outbound, 1, k)]
          /\ shorts' = shorts + ShortOf(gateway[g].outbound, k)
  /\ UNCHANGED <<tcp_server, thread, server, published, engine, responses>>

-----------------------------------------------------------------------------
(* OrderServer::run. *)

\* TCPServer::poll: all waiting connections are accepted. No socket is registered for
\* EPOLLOUT, so send_sockets_ stays empty, and none is ever removed.
Poll ==
  /\ at = "poll" /\ ~server.exited
  /\ receive_sockets_' = receive_sockets_ \o backlog
  /\ backlog' = << >>
  /\ at' = "sockets" /\ left' = receive_sockets_' /\ received' = FALSE
  /\ UNCHANGED <<gateway, network, socket, server, published, engine, responses>>

\* Defect: room for one request more.
addClientRequestOffByOne(s, request) ==
  IF Len(s.pending) > MaxPending THEN [s EXCEPT !.exited = TRUE]
  ELSE [s EXCEPT !.pending = Append(@, request)]

\* FIFOSequencer::addClientRequest: FATAL ends the process.
addClientRequest(s, request) ==
  IF Len(s.pending) >= MaxPending THEN [s EXCEPT !.exited = TRUE]
  ELSE [s EXCEPT !.pending = Append(@, request)]

\* Defect: any socket may speak for the client.
BindLast(s, c, g) == [s EXCEPT !.cid_tcp_socket_[c] = g]

\* The first message from a client id binds it to its socket.
Bind(s, c, g) ==
  IF s.cid_tcp_socket_[c] = None THEN [s EXCEPT !.cid_tcp_socket_[c] = g] ELSE s

\* Defect: the first message from a client is taken, its socket is not kept.
TakeRequestUnbound(s, m, g, rx_time) ==
  LET c == m.body.client
  IN IF s.exited \/ s.cid_tcp_socket_[c] \notin {None, g} \/ m.seq # s.cid_next_exp_seq_num_[c]
     THEN s
     ELSE addClientRequest([s EXCEPT !.cid_next_exp_seq_num_[c] = @ + 1],
                           [recv_time_ |-> rx_time, request |-> m.body])

\* OrderServer::recvCallback, one message m of socket g.
TakeRequest(s, m, g, rx_time) ==
  LET c == m.body.client
      bound == Bind(s, c, g)
  IN IF s.exited THEN s
     ELSE IF bound.cid_tcp_socket_[c] # g \/ m.seq # s.cid_next_exp_seq_num_[c] THEN bound
     ELSE addClientRequest([bound EXCEPT !.cid_next_exp_seq_num_[c] = @ + 1],
                           [recv_time_ |-> rx_time, request |-> m.body])

\* Its loop.
TakeRequests(s, msgs, g, rx_time) ==
  LET read[k \in 0 .. Len(msgs)] ==
        IF k = 0 THEN s ELSE TakeRequest(read[k - 1], msgs[k], g, rx_time)
  IN  read[Len(msgs)]

\* Defect: only the last socket counts.
ReceivedLast(read_size) == read_size > 0

\* recv |= socket->sendAndRecv()
Received(read_size) == received \/ read_size > 0

\* TCPServer::sendAndRecv, one socket: TCPSocket::sendAndRecv reads what has arrived, then
\* sends the buffer. The receive time is that of the last byte of the read. The reads of a
\* round may have come in any order; those of two rounds are never compared.
ServeSocket ==
  /\ at = "sockets" /\ left # << >> /\ ~server.exited
  /\ LET g == Head(left)
     IN \E i \in SomeOf(up[g]), rx_time \in 1 .. MaxTime, k \in Sent(socket[g].outbound) :
          LET inbound == socket[g].inbound \o SubSeq(up[g], 1, i)
          IN /\ server' = TakeRequests(server, Messages(inbound), g, rx_time)
             /\ up' = [up EXCEPT ![g] = SubSeq(@, i + 1, Len(@))]
             /\ received' = Received(i)
             /\ socket' = [socket EXCEPT ![g] = [outbound |-> << >>, inbound |-> Rest(inbound)]]
             /\ down' = [down EXCEPT ![g] = @ \o SubSeq(socket[g].outbound, 1, k)]
             /\ shorts' = shorts + ShortOf(socket[g].outbound, k)
  /\ left' = Tail(left)
  /\ UNCHANGED <<gateway, backlog, receive_sockets_, at, published, engine, responses>>

\* The requests in the order that std::sort may give to pending: any arrangement by time, of
\* short ranges only the one that leaves equal times as they were (insertion sort).
Sorted(p) ==
  LET N == 1 .. Len(p)
      Order == {f \in [N -> N] : \A i, j \in N : i < j =>
                  /\ f[i] # f[j]
                  /\ p[f[i]].recv_time_ <= p[f[j]].recv_time_
                  /\ (Len(p) <= StableUpTo /\ p[f[i]].recv_time_ = p[f[j]].recv_time_)
                        => f[i] < f[j]}
  IN {[i \in N |-> p[f[i]].request] : f \in Order}

\* The end of TCPServer::sendAndRecv: recvFinishedCallback, FIFOSequencer::sequenceAndPublish.
SequenceAndPublish ==
  /\ at = "sockets" /\ left = << >> /\ ~server.exited
  /\ IF received
     THEN /\ \E p \in Sorted(server.pending) : published' = published \o p
          /\ server' = [server EXCEPT !.pending = << >>]
     ELSE UNCHANGED <<published, server>>
  /\ at' = "respond"
  /\ UNCHANGED <<gateway, network, tcp_server, left, received, engine, responses>>

\* OrderServer::run, one response of outgoing_responses_; st is the server and its sockets.
SendResponse(st, r) ==
  LET g == st.server.cid_tcp_socket_[r.client]
  IN IF g = None THEN [st EXCEPT !.server.exited = TRUE]
     ELSE [server |-> [st.server EXCEPT !.cid_next_outgoing_seq_num_[r.client] = @ + 1],
           socket |-> [st.socket EXCEPT ![g].outbound =
                         @ \o Units(st.server.cid_next_outgoing_seq_num_[r.client], r)]]

\* Its loop.
SendResponses(st, rs) ==
  LET sent[k \in 0 .. Len(rs)] == IF k = 0 THEN st ELSE SendResponse(sent[k - 1], rs[k])
  IN  sent[Len(rs)]

Respond ==
  /\ at = "respond"
  /\ LET done == SendResponses([server |-> server, socket |-> socket], responses)
     IN server' = done.server /\ socket' = done.socket
  /\ responses' = << >>
  /\ at' = "poll"
  /\ UNCHANGED <<gateway, network, backlog, receive_sockets_, left, received,
                 published, engine>>

OrderServer == Poll \/ ServeSocket \/ SequenceAndPublish \/ Respond

-----------------------------------------------------------------------------
(* The matching engine, reduced to whom it answers: MEOrderBook has the rest. *)

Handled(c) == \E i \in 1 .. handled : published[i].client = c

\* sendClientResponse(), to client c: its next response, about its request number to.
SendClientResponse(c, to) ==
  /\ answered' = [answered EXCEPT ![c] = @ + 1]
  /\ responses' = Append(responses, [client |-> c, n |-> answered[c] + 1, to |-> to])

\* processClientRequest(): add() accepts a new order, cancel() answers a cancel.
Answer ==
  /\ handled < Len(published) /\ ~server.exited
  /\ handled' = handled + 1
  /\ SendClientResponse(published[handled + 1].client, published[handled + 1].n)
  /\ UNCHANGED <<gateway, network, tcp_server, thread, server, published, fills>>

\* match(), on the request taken last: one of the two FILLED it sends for each match, to the
\* client of the request or to one with a resting order. Both have sent a request before.
Fill(c) ==
  /\ Handled(c) /\ fills < MaxFills /\ ~server.exited
  /\ fills' = fills + 1
  /\ SendClientResponse(c, 0)
  /\ UNCHANGED <<gateway, network, tcp_server, thread, server, published, handled>>

MatchingEngine == Answer \/ \E c \in Clients : Fill(c)

-----------------------------------------------------------------------------
Next ==
  \/ \E g \in Processes : Start(g) \/ SendRequest(g) \/ SendAndRecv(g)
  \/ OrderServer
  \/ MatchingEngine

\* Every thread polls in a loop, and TCP delivers; no order need be filled. That some
\* gateway with something to do does it is less than what a fair scheduler gives, and enough.
Fairness ==
  /\ WF_vars(\E g \in Processes : SendAndRecv(g))
  /\ WF_vars(OrderServer)
  /\ WF_vars(Answer)

Spec == Init /\ [][Next]_vars /\ Fairness
-----------------------------------------------------------------------------
(* Properties. *)

Requests == [client : Clients, from : Processes, n : Nat \ {0}]
Answers == [client : Clients, n : Nat \ {0}, to : Nat]

\* The maps, buffers and queues hold what their types allow, and pending_client_requests_
\* never more than ME_MAX_PENDING_REQUESTS (FIFOSequencer::addClientRequest).
TypeOK ==
  /\ \A g \in Processes : /\ Numbered(g) \in Nat
                          /\ ToSet(gateway[g].got) \subseteq Answers
                          /\ Len(gateway[g].inbound) <= 1 /\ Len(socket[g].inbound) <= 1
  /\ shorts \in 0 .. MaxShort /\ fills \in 0 .. MaxFills
  /\ Connected \subseteq Processes /\ ToSet(left) \subseteq ToSet(receive_sockets_)
  /\ at \in {"poll", "sockets", "respond"} /\ received \in BOOLEAN
  /\ server.cid_tcp_socket_ \in [Clients -> Processes \cup {None}]
  /\ Len(server.pending) <= MaxPending /\ server.exited \in BOOLEAN
  /\ \A i \in 1 .. Len(published) : published[i] \in Requests
  /\ handled \in 0 .. Len(published) /\ ToSet(responses) \subseteq Answers

\* What OrderServer and FIFOSequencer hand to the matching engine is, for each client id,
\* a sequence without gap or repetition of the first requests of one process, in the order
\* in which that process sent them: whatever was lost before, and whoever else uses the id.
RequestsInOrder ==
  \A i \in 1 .. Len(published) :
    LET r == published[i]
        earlier == {k \in 1 .. (i - 1) : published[k].client = r.client}
    IN  /\ \A k \in earlier : published[k].from = r.from /\ published[k].n < r.n
        /\ r.n > 1 => \E k \in earlier : published[k].n = r.n - 1

\* The exchange ends only in FIFOSequencer::addClientRequest, when as many requests as it
\* has room for were read in one round: whatever the engine answers and to whom, the ASSERT
\* on the client's socket in OrderServer::run does not fail.
ExitsOnlyWhenFull == server.exited => Len(server.pending) = MaxPending

\* What OrderGateway hands to its TradeEngine is the engine's first responses to the
\* client, without gap or repetition, and only in the process whose requests were taken;
\* and no response ends the exchange.
ResponsesInOrder ==
  ExitsOnlyWhenFull /\ \A g \in Processes :
    LET got == gateway[g].got
    IN /\ \A i \in 1 .. Len(got) : got[i].client = gateway[g].client_id_ /\ got[i].n = i
       /\ got # << >> => \E i \in 1 .. handled : published[i].from = g

\* A process that has sent requests has, at some later time, the answer to its latest one,
\* unless a send was short, the exchange has ended, or the client id belongs to another
\* socket: no round of OrderServer leaves a request behind. (By ResponsesInOrder it then
\* has all earlier ones, and the bound on requests makes one the last.)
Served ==
  \A g \in Processes :
    Numbered(g) > 0 ~>
      \/ \E i \in 1 .. Len(gateway[g].got) : gateway[g].got[i].to = Numbered(g)
      \/ shorts > 0 \/ server.exited
      \/ server.cid_tcp_socket_[gateway[g].client_id_] \notin {None, g}
=============================================================================
