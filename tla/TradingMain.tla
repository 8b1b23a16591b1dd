---------------------------- MODULE TradingMain ----------------------------
(***************************************************************************)
(* The life of a trading client: main() starts the trade engine, the order *)
(* gateway and the market data consumer, sends the random orders of the    *)
(* RANDOM algorithm, waits until nothing happens any more, and ends it     *)
(* all.  The threads: main, with a logger of its own; TradeEngine::run(),  *)
(* which takes responses and market updates from two lock-free queues (the *)
(* numbers of what came in, was handled and was read); the gateway and the *)
(* consumer, which fill them; and the logger's.                            *)
(*                                                                         *)
(* How long it was silent is not modelled: main may stop waiting at any    *)
(* time, and messages may arrive just then.  That main sleeps ten seconds  *)
(* before it deletes the engine is taken to be longer than the engine's    *)
(* thread needs to leave run(), which nothing joins.                       *)
(*                                                                         *)
(* Operators whose comment starts with "Defect:" are variants of the       *)
(* definition that follows them, which some property must exclude.         *)
(***************************************************************************)
EXTENDS Logger

CONSTANTS Elements,        \* what pushValue() can put into the queue of a logger
          Lines,           \* formats and arguments of log()
          MaxIterations,   \* iterations of the loop for random orders
          MaxWaits,        \* bound on the iterations of the loop that waits for silence
          MaxUpdates,      \* bound on the market updates
          MaxOrders,       \* bound on the requests of a strategy
          MaxResponses     \* bound on the responses

ASSUME LineAssumption ==
  /\ {"c", "%"} \subseteq Elements
  /\ Lines \subseteq [s : Seq({"c", "%"}), args : Seq(Seq(Elements))]
ASSUME TrafficAssumption ==
  /\ MaxIterations \in Nat \ {0} /\ MaxWaits \in Nat
  /\ MaxUpdates \in Nat /\ MaxOrders \in Nat /\ MaxResponses \in Nat

VARIABLES
  algo_type,
  line,        \* the format and arguments of each of main's calls of log()
  main,        \* where main() is
  iteration,   \* of its loop for random orders
  waits,       \* iterations of the loop that waits for silence
  sent,        \* client requests, from main or from the engine's thread
  queue,       \* each of the engine's queues: what came in, was handled, was read
  engine,      \* where TradeEngine::run() is
  run_,        \* TradeEngine::run_
  producing,   \* run_ of the gateway and of the consumer
  logged,      \* what main's calls of log() before the latest should write (not in the code)
  at_stop      \* what had come in when stop() was called (not in the code)

engine_vars == <<sent, queue, engine, run_, producing>>
main_vars == <<iteration, waits, logged>>
vars == <<algo_type, line, log_vars, engine_vars, main, main_vars, at_stop>>

Queues == {"responses", "updates"}

size(q) == queue[q].in - queue[q].read

Init ==
  /\ algo_type \in {"RANDOM", "MAKER"}
  /\ line \in Lines
  /\ LogInit
  /\ main = "log_engine" /\ iteration = 0 /\ waits = 0 /\ logged = << >>
  /\ sent = 0 /\ queue = [q \in Queues |-> [in |-> 0, handled |-> 0, read |-> 0]]
  /\ engine = "off" /\ run_ = FALSE /\ producing = {}
  /\ at_stop = [q \in Queues |-> 0]

-----------------------------------------------------------------------------
(* main(): logging, starting, and the random orders. *)

\* main is done with a statement (out of log(), if it was one) and goes on to the next.
GoOn(from, to) == main = from /\ Logged /\ main' = to

\* logger->log().
CallLog(from, to) ==
  /\ GoOn(from, to)
  /\ caller' = [s |-> line.s, args |-> line.args, value |-> << >>]
  /\ logged' = IF main = "log_engine" THEN << >> ELSE logged \o Line(line.s, line.args)
  /\ UNCHANGED <<algo_type, line, queue_, file_, writer, running_, closed, fatal, engine_vars,
                 iteration, at_stop>>

\* "Starting ...", and "Stopping early ...".
LogLine(from, to) == CallLog(from, to) /\ UNCHANGED waits

\* TradeEngine::start().
StartEngine ==
  /\ GoOn("start_engine", "log_gateway")
  /\ run_' = TRUE /\ engine' = "responses"
  /\ UNCHANGED <<algo_type, line, log_vars, sent, queue, producing, main_vars, at_stop>>

\* OrderGateway::start() and MarketDataConsumer::start().
StartProducer(q, from, to) ==
  /\ GoOn(from, to)
  /\ producing' = producing \cup {q}
  /\ UNCHANGED <<algo_type, line, log_vars, sent, queue, engine, run_, main_vars, at_stop>>

Starting ==
  \/ LogLine("log_engine", "start_engine") \/ StartEngine
  \/ LogLine("log_gateway", "start_gateway")
  \/ StartProducer("responses", "start_gateway", "log_consumer")
  \/ LogLine("log_consumer", "start_consumer")
  \/ StartProducer("updates", "start_consumer", IF algo_type = "RANDOM" THEN "new" ELSE "wait")

\* sendClientRequest() from main: a new order, and a cancel of it or of an earlier one.
SendNew ==
  /\ GoOn("new", "cancel")
  /\ sent' = sent + 1
  /\ UNCHANGED <<algo_type, line, log_vars, queue, engine, run_, producing, main_vars, at_stop>>

\* The loop ends after its iterations, or, with a line in the log, when it was silent for
\* too long.
SendCancel ==
  /\ \/ iteration + 1 < MaxIterations /\ GoOn("cancel", "new")
     \/ iteration + 1 = MaxIterations /\ GoOn("cancel", "wait")
     \/ GoOn("cancel", "log_silence")
  /\ sent' = sent + 1 /\ iteration' = iteration + 1
  /\ UNCHANGED <<algo_type, line, log_vars, queue, engine, run_, producing, waits, logged, at_stop>>

\* One iteration of the loop that waits for silence: "Waiting till no activity ...".
LogWait ==
  /\ waits < MaxWaits /\ waits' = waits + 1
  /\ CallLog("wait", "wait")

Sending == SendNew \/ SendCancel \/ LogLine("log_silence", "wait") \/ LogWait

-----------------------------------------------------------------------------
(* main(): the end. *)

\* Defect: the engine is told to end before the queues are empty.
CallStopEnding ==
  /\ GoOn("wait", "stop")
  /\ at_stop' = [q \in Queues |-> queue[q].in]
  /\ run_' = FALSE
  /\ UNCHANGED <<algo_type, line, log_vars, sent, queue, engine, producing, main_vars>>

\* The wait for silence ends, and TradeEngine::stop() begins.
CallStop ==
  /\ GoOn("wait", "stop")
  /\ at_stop' = [q \in Queues |-> queue[q].in]
  /\ UNCHANGED <<algo_type, line, log_vars, engine_vars, main_vars>>

\* Defect: stop() looks at the responses only.
CheckResponsesOnly ==
  /\ GoOn("stop", "report") /\ size("responses") = 0
  /\ UNCHANGED <<algo_type, line, log_vars, engine_vars, main_vars, at_stop>>

\* stop() looks at one queue and then at the other, and sleeps unless both are empty.
CheckResponses ==
  /\ GoOn("stop", "check_updates") /\ size("responses") = 0
  /\ UNCHANGED <<algo_type, line, log_vars, engine_vars, main_vars, at_stop>>

CheckUpdates ==
  /\ GoOn("check_updates", IF size("updates") = 0 THEN "report" ELSE "stop")
  /\ UNCHANGED <<algo_type, line, log_vars, engine_vars, main_vars, at_stop>>

\* stop() logs the positions, and then ends the engine's loop.
ReportPositions ==
  /\ GoOn("report", "end_run")
  /\ UNCHANGED <<algo_type, line, log_vars, engine_vars, main_vars, at_stop>>

EndRun(from, to) ==
  /\ GoOn(from, to)
  /\ run_' = FALSE
  /\ UNCHANGED <<algo_type, line, log_vars, sent, queue, engine, producing, main_vars, at_stop>>

\* stop() of the consumer and of the gateway.
StopProducer(q, from, to) ==
  /\ GoOn(from, to)
  /\ producing' = producing \ {q}
  /\ UNCHANGED <<algo_type, line, log_vars, sent, queue, engine, run_, main_vars, at_stop>>

\* sleep_for(10s): by then the engine's thread is out of run().
Sleep ==
  /\ GoOn("sleep", "delete_logger") /\ engine = "left"
  /\ UNCHANGED <<algo_type, line, log_vars, engine_vars, main_vars, at_stop>>

\* delete logger: ~Logger().
DeleteLogger ==
  /\ \/ GoOn("delete_logger", "join") /\ StopWriter
     \/ GoOn("join", "delete_engine") /\ CloseFile
  /\ UNCHANGED <<algo_type, line, engine_vars, main_vars, at_stop>>

\* ~TradeEngine() is the last step that matters: it ends the loop again.
Stopping ==
  \/ CallStop \/ CheckResponses \/ CheckUpdates \/ ReportPositions
  \/ EndRun("end_run", "stop_consumer")
  \/ StopProducer("updates", "stop_consumer", "stop_gateway")
  \/ StopProducer("responses", "stop_gateway", "sleep")
  \/ Sleep \/ DeleteLogger
  \/ EndRun("delete_engine", "exited")

Log == LogStep /\ UNCHANGED <<algo_type, line, engine_vars, main, main_vars, at_stop>>

Main == Log \/ Starting \/ Sending \/ Stopping

-----------------------------------------------------------------------------
(* The other threads, while the process lives. *)

Alive == ~fatal /\ main # "exited"

\* Defect: an element is handled without a look whether there is one.
HandleMessageUnchecked(q) ==
  /\ Alive /\ engine = q /\ queue[q].handled = queue[q].read
  /\ queue' = [queue EXCEPT ![q].handled = @ + 1]
  /\ \/ UNCHANGED sent
     \/ algo_type # "RANDOM" /\ sent < MaxOrders /\ sent' = sent + 1
  /\ UNCHANGED <<algo_type, line, log_vars, engine, run_, producing, main, main_vars, at_stop>>

\* run(): onOrderUpdate() or onMarketUpdate() of the next element, from which a strategy
\* may send a request.
HandleMessage(q) ==
  /\ Alive /\ engine = q /\ queue[q].handled = queue[q].read
  /\ size(q) > 0
  /\ queue' = [queue EXCEPT ![q].handled = @ + 1]
  /\ \/ UNCHANGED sent
     \/ algo_type # "RANDOM" /\ sent < MaxOrders /\ sent' = sent + 1
  /\ UNCHANGED <<algo_type, line, log_vars, engine, run_, producing, main, main_vars, at_stop>>

\* updateReadIndex(), after the element is handled.
AdvanceReadIndex(q) ==
  /\ Alive /\ engine = q /\ queue[q].handled > queue[q].read
  /\ queue' = [queue EXCEPT ![q].read = @ + 1]
  /\ UNCHANGED <<algo_type, line, log_vars, sent, engine, run_, producing, main, main_vars, at_stop>>

\* A queue is empty: on to the other, and then to the test of run_.
NextQueue ==
  /\ Alive
  /\ \/ engine = "responses" /\ size("responses") = 0 /\ engine' = "updates"
     \/ engine = "updates" /\ size("updates") = 0 /\ engine' = "test"
     \/ engine = "test" /\ engine' = IF run_ THEN "responses" ELSE "left"
  /\ UNCHANGED <<algo_type, line, log_vars, sent, queue, run_, producing, main, main_vars, at_stop>>

EngineRun == NextQueue \/ \E q \in Queues : HandleMessage(q) \/ AdvanceReadIndex(q)

\* The gateway and the consumer put what they receive into the engine's queues.
Arrive(q) ==
  /\ Alive /\ q \in producing
  /\ queue[q].in < IF q = "responses" THEN MaxResponses ELSE MaxUpdates
  /\ q = "responses" => sent > 0
  /\ queue' = [queue EXCEPT ![q].in = @ + 1]
  /\ UNCHANGED <<algo_type, line, log_vars, sent, engine, run_, producing, main, main_vars, at_stop>>

WriteLog == Alive /\ FlushQueue /\ UNCHANGED <<algo_type, line, engine_vars, main, main_vars, at_stop>>

Next == Main \/ EngineRun \/ WriteLog \/ \E q \in Queues : Arrive(q)

\* Every thread goes on unless it waits; the market need not.
Fairness == WF_vars(Main) /\ WF_vars(EngineRun) /\ WF_vars(WriteLog)

Spec == Init /\ [][Next]_vars /\ Fairness

-----------------------------------------------------------------------------
\* The types, and that run() handles and reads only what came in, one after the other.
TypeOK ==
  /\ \A q \in Queues : /\ queue[q].handled \in queue[q].read .. (queue[q].read + 1)
                       /\ queue[q].handled \in 0 .. queue[q].in
  /\ engine \in {"off", "responses", "updates", "test", "left"}
  /\ writer \in {"read", "written", "flushed", "left"}
  /\ run_ \in BOOLEAN /\ running_ \in BOOLEAN /\ closed \in BOOLEAN /\ fatal \in BOOLEAN
  /\ producing \subseteq Queues /\ sent \in Nat
  /\ iteration \in 0 .. MaxIterations /\ waits \in 0 .. MaxWaits

\* When the logger closes its file, it holds every line main logged, when it started, gave up
\* sending or waited, complete, in order and with its arguments in place of the placeholders,
\* however the two threads took turns; and log() ends the process just when arguments and
\* placeholders are not equally many.
LogComplete ==
  /\ closed => file_ = logged \o Line(line.s, line.args) /\ ArgumentsFit(line.s, line.args)
  /\ fatal => ~ArgumentsFit(line.s, line.args)

\* The positions that stop() reports have in them every response and update that was in a
\* queue when stop() was called, although more arrive while it looks at one queue after the
\* other.
StopDrains == main = "end_run" => \A q \in Queues : queue[q].handled >= at_stop[q]

\* The client ends once the market is quiet: stop(), the join of the logger and the wait for
\* the engine's thread are not left waiting for each other.
Exits == <>(fatal \/ main = "exited")
=============================================================================
