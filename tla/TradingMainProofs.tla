------------------------- MODULE TradingMainProofs -------------------------
(***************************************************************************)
(* For every number of messages and every algorithm: TradeEngine::run()    *)
(* handles only what is in its queues, and TradeEngine::stop() reports     *)
(* positions that have in them all that had come in when it was called.    *)
(* For every format and every arguments: the log is complete.              *)
(***************************************************************************)
EXTENDS TradingMain, FiniteSetTheorems, WellFoundedInduction, SequenceTheorems, TLAPS

\* Where main() is, from its start to the end of its loop for random orders.
Early == {"log_engine", "start_engine", "log_gateway", "start_gateway", "log_consumer",
          "start_consumer"}
Late == {"log_silence", "wait", "stop", "check_updates", "report", "end_run", "stop_consumer",
         "stop_gateway", "sleep", "delete_logger", "join", "delete_engine", "exited"}

\* The loop for random orders has not used up its iterations while it runs, and the one that
\* waits keeps to its bound.
LoopOK ==
  /\ main \in Early \cup {"new", "cancel"} \cup Late
  /\ iteration \in 0 .. MaxIterations /\ waits \in 0 .. MaxWaits
  /\ main \in Early => iteration = 0
  /\ main \in {"new", "cancel"} => iteration < MaxIterations

\* What came in, was handled and was read of a queue: the element at the read index may be
\* handled before the index moves.
Counts == [in : Nat, handled : Nat, read : Nat]
InStep(c) == c.read <= c.handled /\ c.handled <= c.read + 1 /\ c.handled <= c.in

QueuesOK ==
  /\ queue \in [Queues -> Counts]
  /\ \A q \in Queues : InStep(queue[q])
  /\ at_stop \in [Queues -> Nat]

\* A queue that stop() has found empty since it was called.
Drained(q) == queue[q].handled >= at_stop[q]

\* What stop() has established at each of its steps: the queues only grow, and a queue that
\* was empty once has had everything handled that was in it when stop() was called.
StopOK ==
  /\ main \in {"stop", "check_updates"} => \A q \in Queues : at_stop[q] <= queue[q].in
  /\ main = "check_updates" => Drained("responses")
  /\ main \in {"report", "end_run"} => \A q \in Queues : Drained(q)

FlagsOK ==
  /\ engine \in {"off", "responses", "updates", "test", "left"}
  /\ writer \in {"read", "written", "flushed", "left"}
  /\ run_ \in BOOLEAN /\ running_ \in BOOLEAN /\ closed \in BOOLEAN /\ fatal \in BOOLEAN
  /\ producing \subseteq Queues /\ sent \in Nat

Inv == LoopOK /\ QueuesOK /\ StopOK /\ FlagsOK

-----------------------------------------------------------------------------
LEMMA InitInv == Init => Inv
<1> SUFFICES ASSUME Init PROVE Inv
  OBVIOUS
<1>1. LoopOK
  <2>1. main = "log_engine" /\ iteration = 0 /\ waits = 0
    BY DEF Init
  <2>2. 0 \in 0 .. MaxIterations /\ 0 \in 0 .. MaxWaits
    BY TrafficAssumption
  <2> QED BY <2>1, <2>2 DEF LoopOK, Early
<1>2. QueuesOK
  <2> DEFINE c == [in |-> 0, handled |-> 0, read |-> 0]
  <2>1. c \in Counts /\ InStep(c)
    BY DEF Counts, InStep
  <2>2. queue = [q \in Queues |-> c] /\ at_stop = [q \in Queues |-> 0]
    BY DEF Init
  <2> HIDE DEF c
  <2> QED BY <2>1, <2>2 DEF QueuesOK
<1>3. StopOK /\ FlagsOK
  BY DEF Init, LogInit, StopOK, FlagsOK
<1> QED BY <1>1, <1>2, <1>3 DEF Inv

\* The logger's steps leave the engine, its queues and main() alone.
LEMMA LogSteps ==
  ASSUME Inv, LogStep \/ FlushQueue,
         UNCHANGED <<algo_type, line, engine_vars, main, main_vars, at_stop>>
  PROVE  Inv'
<1>1. /\ writer' \in {"read", "written", "flushed", "left"}
      /\ running_' \in BOOLEAN /\ closed' \in BOOLEAN /\ fatal' \in BOOLEAN
  BY DEF Inv, FlagsOK, LogStep, PushArgument, TakeArgument, PushCharacter, WrongArguments,
         FlushQueue, WriteElement, UpdateReadIndex, FlushFile, TestRunning
<1> QED BY <1>1 DEF Inv, LoopOK, QueuesOK, StopOK, Drained, FlagsOK, engine_vars, main_vars

\* One count of one queue goes up.
LEMMA CountUp ==
  ASSUME QueuesOK, NEW q \in Queues, NEW c \in Counts, InStep(c),
         queue[q].in <= c.in, queue[q].handled <= c.handled, queue' = [queue EXCEPT ![q] = c],
         UNCHANGED <<main, at_stop>>, StopOK
  PROVE  QueuesOK' /\ StopOK'
<1>1. /\ queue'[q] = c /\ \A r \in Queues : r # q => queue'[r] = queue[r]
      /\ queue' \in [Queues -> Counts]
  BY DEF QueuesOK
<1>2. QueuesOK'
  BY <1>1 DEF QueuesOK, InStep
<1>3. ASSUME NEW r \in Queues
      PROVE  /\ at_stop[r] <= queue[r].in => at_stop[r] <= queue'[r].in
             /\ Drained(r) => Drained(r)'
  <2>1. queue[r] \in Counts /\ queue'[r] \in Counts /\ at_stop[r] \in Nat
    BY <1>1 DEF QueuesOK
  <2>2. CASE r = q
    BY <2>1, <2>2, <1>1 DEF Counts, Drained
  <2>3. CASE r # q
    BY <2>1, <2>3, <1>1 DEF Drained
  <2> QED BY <2>2, <2>3
<1>4. "responses" \in Queues
  BY DEF Queues
<1>5. StopOK'
  BY <1>3, <1>4 DEF StopOK
<1> QED BY <1>2, <1>5

LEMMA EngineSteps == ASSUME Inv, EngineRun PROVE Inv'
<1>1. ASSUME NEW q \in Queues, HandleMessage(q) PROVE Inv'
  <2> DEFINE c == [queue[q] EXCEPT !.handled = @ + 1]
  <2>1. queue[q] \in Counts /\ InStep(queue[q])
    BY DEF Inv, QueuesOK
  <2>2. c \in Counts /\ c.in = queue[q].in /\ c.handled = queue[q].handled + 1 /\ c.read = queue[q].read
    BY <2>1 DEF Counts
  <2>3. /\ queue' = [queue EXCEPT ![q] = c] /\ queue[q].handled = queue[q].read
        /\ queue[q].in - queue[q].read > 0
    BY <1>1 DEF HandleMessage, size
  <2>4. UNCHANGED <<main, at_stop, iteration, waits, log_vars, engine, run_, producing>>
    BY <1>1 DEF HandleMessage, main_vars
  <2>5. InStep(c) /\ queue[q].in <= c.in /\ queue[q].handled <= c.handled
    BY <2>1, <2>2, <2>3 DEF InStep, Counts
  <2>6. sent' \in Nat
    BY <1>1 DEF HandleMessage, Inv, FlagsOK
  <2> HIDE DEF c
  <2>7. QueuesOK' /\ StopOK'
    BY <2>2, <2>3, <2>4, <2>5, CountUp DEF Inv
  <2> QED BY <2>4, <2>6, <2>7 DEF Inv, LoopOK, FlagsOK, log_vars
<1>2. ASSUME NEW q \in Queues, AdvanceReadIndex(q) PROVE Inv'
  <2> DEFINE c == [queue[q] EXCEPT !.read = @ + 1]
  <2>1. queue[q] \in Counts /\ InStep(queue[q])
    BY DEF Inv, QueuesOK
  <2>2. c \in Counts /\ c.in = queue[q].in /\ c.handled = queue[q].handled /\ c.read = queue[q].read + 1
    BY <2>1 DEF Counts
  <2>3. queue' = [queue EXCEPT ![q] = c] /\ queue[q].handled > queue[q].read
    BY <1>2 DEF AdvanceReadIndex
  <2>4. UNCHANGED <<main, at_stop, iteration, waits, log_vars, engine, run_, producing, sent>>
    BY <1>2 DEF AdvanceReadIndex, main_vars
  <2>5. InStep(c) /\ queue[q].in <= c.in /\ queue[q].handled <= c.handled
    BY <2>1, <2>2, <2>3 DEF InStep, Counts
  <2> HIDE DEF c
  <2>7. QueuesOK' /\ StopOK'
    BY <2>2, <2>3, <2>4, <2>5, CountUp DEF Inv
  <2> QED BY <2>4, <2>7 DEF Inv, LoopOK, FlagsOK, log_vars
<1>3. CASE NextQueue
  <2>1. /\ engine' \in {"off", "responses", "updates", "test", "left"}
        /\ UNCHANGED <<main, at_stop, iteration, waits, queue, log_vars, run_, producing, sent>>
    BY <1>3 DEF NextQueue, main_vars
  <2> QED BY <2>1, ZenonT(60) DEF Inv, LoopOK, QueuesOK, StopOK, Drained, FlagsOK, log_vars
<1> QED BY <1>1, <1>2, <1>3 DEF EngineRun

LEMMA ArriveStep == ASSUME Inv, NEW q \in Queues, Arrive(q) PROVE Inv'
<2> DEFINE c == [queue[q] EXCEPT !.in = @ + 1]
<2>1. queue[q] \in Counts /\ InStep(queue[q])
  BY DEF Inv, QueuesOK
<2>2. c \in Counts /\ c.in = queue[q].in + 1 /\ c.handled = queue[q].handled /\ c.read = queue[q].read
  BY <2>1 DEF Counts
<2>3. queue' = [queue EXCEPT ![q] = c]
  BY DEF Arrive
<2>4. UNCHANGED <<main, at_stop, iteration, waits, log_vars, engine, run_, producing, sent>>
  BY DEF Arrive, main_vars
<2>5. InStep(c) /\ queue[q].in <= c.in /\ queue[q].handled <= c.handled
  BY <2>1, <2>2, <2>3 DEF InStep, Counts
<2> HIDE DEF c
<2>7. QueuesOK' /\ StopOK'
  BY <2>2, <2>3, <2>4, <2>5, CountUp DEF Inv
<2> QED BY <2>4, <2>7 DEF Inv, LoopOK, FlagsOK, log_vars

\* main(): only stop() has to do with the queues.
LEMMA MainSteps == ASSUME Inv, Main PROVE Inv'
<1>1. CASE Log
  BY <1>1, LogSteps DEF Log
<1>2. CASE Starting
  <2>1. /\ main \in Early /\ main' \in Early \cup {"new", "wait"} /\ main' # main
        /\ UNCHANGED <<iteration, waits, queue, at_stop, sent, writer, running_, closed, fatal>>
    BY <1>2 DEF Starting, LogLine, CallLog, StartEngine, StartProducer, GoOn, Early, engine_vars,
                main_vars, log_vars
  <2>2. engine' \in {engine, "responses"} /\ run_' \in {run_, TRUE} /\ producing' \subseteq Queues
    <3>1. producing \subseteq Queues
      BY DEF Inv, FlagsOK
    <3>2. producing' \subseteq Queues
      BY <1>2, <3>1 DEF Starting, LogLine, CallLog, StartEngine, StartProducer, engine_vars, Queues
    <3>3. engine' \in {engine, "responses"}
      BY <1>2, Zenon DEF Starting, LogLine, CallLog, StartEngine, StartProducer, engine_vars
    <3>4. run_' \in {run_, TRUE}
      BY <1>2, Zenon DEF Starting, LogLine, CallLog, StartEngine, StartProducer, engine_vars
    <3> QED BY <3>2, <3>3, <3>4
  <2>3. LoopOK'
    <3>1. iteration' = 0 /\ waits' \in 0 .. MaxWaits
      BY <2>1 DEF Inv, LoopOK
    <3>2. 0 \in 0 .. MaxIterations /\ 0 < MaxIterations
      BY TrafficAssumption
    <3> QED BY <3>1, <3>2, <2>1 DEF LoopOK, Late
  <2>4. QueuesOK' /\ StopOK' /\ FlagsOK'
    BY <2>1, <2>2, ZenonT(60) DEF Inv, QueuesOK, StopOK, FlagsOK, Early
  <2> QED BY <2>3, <2>4 DEF Inv
<1>3. CASE SendNew \/ SendCancel
  <2>1. /\ UNCHANGED <<queue, at_stop, engine, run_, producing, waits, log_vars>> /\ sent' = sent + 1
        /\ \/ main = "new" /\ main' = "cancel" /\ iteration' = iteration
           \/ /\ main = "cancel" /\ iteration' = iteration + 1
              /\ (main' = "new" /\ iteration + 1 < MaxIterations) \/ main' \in {"log_silence", "wait"}
    BY <1>3 DEF SendNew, SendCancel, GoOn, main_vars
  <2>2. MaxIterations \in Nat /\ iteration \in Nat /\ iteration < MaxIterations
    BY <2>1, TrafficAssumption DEF Inv, LoopOK
  <2>3. LoopOK'
    <3>0. waits' \in 0 .. MaxWaits
      BY <2>1 DEF Inv, LoopOK
    <3>1. CASE main' = "cancel" /\ iteration' = iteration
      BY <3>0, <3>1, <2>2 DEF LoopOK, Early, Late
    <3>2. CASE main' = "new" /\ iteration' = iteration + 1 /\ iteration + 1 < MaxIterations
      BY <3>0, <3>2, <2>2 DEF LoopOK, Early, Late
    <3>3. CASE main' \in {"log_silence", "wait"} /\ iteration' = iteration + 1
      BY <3>0, <3>3, <2>2 DEF LoopOK, Early, Late
    <3> QED BY <2>1, <3>1, <3>2, <3>3
  <2>4. QueuesOK'
    BY <2>1 DEF Inv, QueuesOK
  <2>5. StopOK'
    BY <2>1 DEF StopOK
  <2>6. FlagsOK'
    <3>1. sent' \in Nat
      BY <2>1 DEF Inv, FlagsOK
    <3> QED BY <3>1, <2>1, Zenon DEF Inv, FlagsOK, log_vars
  <2> QED BY <2>3, <2>4, <2>5, <2>6 DEF Inv
<1>4. CASE LogLine("log_silence", "wait") \/ LogWait
  <2>1. /\ main \in {"log_silence", "wait"} /\ main' = "wait"
        /\ waits' = waits \/ (waits < MaxWaits /\ waits' = waits + 1)
        /\ UNCHANGED <<iteration, queue, at_stop, writer, running_, closed, fatal>>
        /\ UNCHANGED <<sent, engine, run_, producing>>
    BY <1>4 DEF LogLine, LogWait, CallLog, GoOn, engine_vars
  <2>2. waits' \in 0 .. MaxWaits
    <3>1. waits \in 0 .. MaxWaits /\ MaxWaits \in Nat
      BY TrafficAssumption DEF Inv, LoopOK
    <3> QED BY <2>1, <3>1
  <2>3. LoopOK'
    BY <2>1, <2>2 DEF Inv, LoopOK, Early, Late
  <2>4. QueuesOK' /\ StopOK'
    BY <2>1 DEF Inv, QueuesOK, StopOK
  <2>5. FlagsOK'
    BY <2>1, Zenon DEF Inv, FlagsOK
  <2> QED BY <2>3, <2>4, <2>5 DEF Inv
<1>5. CASE Stopping
  <2>1. /\ main \in Late /\ main' \in Late
        /\ UNCHANGED <<iteration, waits, queue, sent, engine, writer, fatal>>
    BY <1>5 DEF Stopping, CallStop, CheckResponses, CheckUpdates, ReportPositions, EndRun,
                StopProducer, Sleep, DeleteLogger, StopWriter, CloseFile, GoOn, Late, engine_vars,
                main_vars, log_vars
  <2>2. /\ run_' \in {run_, FALSE} /\ producing' \subseteq Queues
        /\ running_' \in {running_, FALSE} /\ closed' \in {closed, TRUE}
    BY <1>5 DEF Stopping, CallStop, CheckResponses, CheckUpdates, ReportPositions, EndRun,
                StopProducer, Sleep, DeleteLogger, StopWriter, CloseFile, engine_vars, log_vars,
                Inv, FlagsOK
  <2>3. LoopOK' /\ FlagsOK'
    <3>1. LoopOK'
      BY <2>1 DEF Inv, LoopOK, Early, Late
    <3>2. FlagsOK'
      BY <2>1, <2>2, Zenon DEF Inv, FlagsOK
    <3> QED BY <3>1, <3>2
  <2>4. CASE CallStop
    <3>1. main' = "stop" /\ at_stop' = [q \in Queues |-> queue[q].in] /\ UNCHANGED queue
      BY <2>4 DEF CallStop, GoOn, engine_vars
    <3>2. \A q \in Queues : queue[q].in \in Nat
      BY DEF Inv, QueuesOK, Counts
    <3>3. QueuesOK'
      BY <3>1, <3>2 DEF Inv, QueuesOK
    <3>4. StopOK'
      BY <3>1, <3>2 DEF StopOK
    <3> QED BY <2>3, <3>3, <3>4 DEF Inv
  <2>5. CASE ~CallStop
    <3>1. UNCHANGED at_stop
      BY <1>5, <2>5 DEF Stopping, CheckResponses, CheckUpdates, ReportPositions, EndRun,
                        StopProducer, Sleep, DeleteLogger
    <3>2. QueuesOK'
      BY <2>1, <3>1 DEF Inv, QueuesOK
    \* An empty queue: what was handled is all that came in.
    <3>3. ASSUME NEW q \in Queues, size(q) = 0, at_stop[q] <= queue[q].in PROVE Drained(q)
      <4>1. queue[q] \in Counts /\ InStep(queue[q]) /\ at_stop[q] \in Nat
        BY DEF Inv, QueuesOK
      <4> QED BY <3>3, <4>1 DEF size, Drained, InStep, Counts
    <3>4. \/ main = "stop" /\ main' = "check_updates" /\ size("responses") = 0
          \/ main = "check_updates" /\ main' = "stop"
          \/ main = "check_updates" /\ main' = "report" /\ size("updates") = 0
          \/ main = "report" /\ main' = "end_run"
          \/ main' \notin {"stop", "check_updates", "report", "end_run"}
      BY <1>5, <2>5 DEF Stopping, CheckResponses, CheckUpdates, ReportPositions, EndRun,
                        StopProducer, Sleep, DeleteLogger, GoOn
    <3>5. "responses" \in Queues /\ "updates" \in Queues
          /\ \A q \in Queues : q = "responses" \/ q = "updates"
      BY DEF Queues
    <3>6. \A q \in Queues : Drained(q)' <=> Drained(q)
      BY <2>1, <3>1 DEF Drained
    <3>7. StopOK'
      BY <2>1, <3>1, <3>3, <3>4, <3>5, <3>6 DEF Inv, StopOK
    <3> QED BY <2>3, <3>2, <3>7 DEF Inv
  <2> QED BY <2>4, <2>5
<1> QED BY <1>1, <1>2, <1>3, <1>4, <1>5 DEF Main, Sending

LEMMA NextInv == Inv /\ [Next]_vars => Inv'
<1> SUFFICES ASSUME Inv, [Next]_vars PROVE Inv'
  OBVIOUS
<1>1. CASE WriteLog
  BY <1>1, LogSteps DEF WriteLog
<1>2. CASE UNCHANGED vars
  <2>1. /\ UNCHANGED <<main, iteration, waits>> /\ UNCHANGED <<queue, at_stop>>
        /\ UNCHANGED <<engine, run_, producing, sent>>
        /\ UNCHANGED <<writer, running_, closed, fatal>>
    BY <1>2 DEF vars, engine_vars, main_vars, log_vars
  <2>2. LoopOK' /\ QueuesOK' /\ StopOK'
    BY <2>1 DEF Inv, LoopOK, QueuesOK, StopOK, Drained
  <2>3. FlagsOK'
    BY <2>1, Zenon DEF Inv, FlagsOK
  <2> QED BY <2>2, <2>3 DEF Inv
<1> QED BY <1>1, <1>2, MainSteps, EngineSteps, ArriveStep DEF Next

\* TradeEngine::run() reads each queue one element behind what it handles and never past
\* what came in, and the random orders stay within their iterations.
THEOREM ClientTypeCorrect == Spec => []TypeOK
<1>1. Inv => TypeOK
  <2> SUFFICES ASSUME Inv PROVE TypeOK
    OBVIOUS
  <2>1. ASSUME NEW q \in Queues
        PROVE  /\ queue[q].handled \in queue[q].read .. (queue[q].read + 1)
               /\ queue[q].handled \in 0 .. queue[q].in
    <3>1. queue[q] \in Counts /\ InStep(queue[q])
      BY DEF Inv, QueuesOK
    <3> QED BY <3>1 DEF Counts, InStep
  <2> QED BY <2>1 DEF TypeOK, Inv, FlagsOK, LoopOK
<1> QED BY <1>1, InitInv, NextInv, PTL DEF Spec

\* TradeEngine::stop() looks at one queue after the other while messages keep arriving;
\* even so, once it reports the positions every message is handled that was in either queue
\* when it was called.
THEOREM StopHandlesAll == Spec => []StopDrains
<1>1. Inv => StopDrains
  BY DEF Inv, StopOK, Drained, StopDrains
<1> QED BY <1>1, InitInv, NextInv, PTL DEF Spec
-----------------------------------------------------------------------------
(* The log. Where main() may still have to wait for a call of log() to end. *)

InCall == {"start_engine", "start_gateway", "start_consumer", "wait"}

\* What has been pushed so far: an element is still in the queue just after it was written.
Unwritten == IF writer = "written" THEN Tail(queue_) ELSE queue_
Pushed == file_ \o Unwritten

\* n is the length of the run of % that ends with the i-th character.
IsRun(s, i, n) ==
  /\ n \in 0 .. i
  /\ \A k \in 1 .. i : k > i - n => s[k] = "%"
  /\ n < i => s[i - n] # "%"

\* log() does not stop between the two characters of an escaped %.
Between(s, i) == (\E n : IsRun(s, i, n)) /\ (IsWritten(s, i) \/ IsPlaceholder(s, i))

Taken(s, i) == Cardinality(PlaceholdersUpTo(s, i))

\* log() is behind the i-th character: it has taken an argument for every placeholder up to
\* there, and has pushed, or is about to push with the present argument, what is due.
ReadUpTo(i) ==
  /\ i \in 0 .. Len(line.s) /\ Between(line.s, i)
  /\ caller.s = SubSeq(line.s, i + 1, Len(line.s))
  /\ Taken(line.s, i) \in 0 .. Len(line.args)
  /\ caller.args = SubSeq(line.args, Taken(line.s, i) + 1, Len(line.args))
  /\ Pushed \o caller.value = logged \o Parts(line.s, line.args)[i]

LogTypes ==
  /\ line \in Lines /\ logged \in Seq(Elements)
  /\ caller \in [s : Seq({"c", "%"}), args : Seq(Seq(Elements)), value : Seq(Elements)]
  /\ queue_ \in Seq(Elements) /\ file_ \in Seq(Elements)
  /\ writer = "written" => queue_ # << >>

OutOfCall == caller.s = << >> /\ caller.args = << >> /\ caller.value = << >>

CallOK ==
  /\ main = "log_engine" => Pushed = << >>
  /\ main # "log_engine" => \E i \in Nat : ReadUpTo(i)
  /\ main \notin InCall => OutOfCall
  /\ main \notin {"log_engine", "start_engine"} => ArgumentsFit(line.s, line.args)

\* The writer is told to end only when all is written, and nothing is pushed any more.
CloseOK ==
  /\ ~running_ => queue_ = << >> /\ main \in {"join", "delete_engine", "exited"}
  /\ closed => ~running_

LogInv == LogTypes /\ CallOK /\ CloseOK /\ (fatal => ~ArgumentsFit(line.s, line.args))

-----------------------------------------------------------------------------
(* Induction over the characters of a format: the least number that is a counterexample. *)

LEMMA LeastNatural ==
  ASSUME NEW T \in SUBSET Nat, T # {}
  PROVE  \E n \in T : \A m \in T : n <= m
<1> DEFINE R == OpToRel(<, Nat)
<1>1. IsWellFoundedOn(R, Nat)
  BY NatLessThanWellFounded
<1>2. ASSUME NEW x \in Nat, NEW y \in Nat, y < x PROVE <<y, x>> \in R
  BY <1>2 DEF OpToRel
<1> HIDE DEF R
<1>3. PICK x \in T : \A y \in T : ~(<<y, x>> \in R)
  BY <1>1, WFMin
<1>4. ASSUME NEW m \in T PROVE x <= m
  <2>1. m \in Nat /\ x \in Nat /\ <<m, x>> \notin R
    BY <1>3
  <2>2. ~(m < x)
    BY <2>1, <1>2
  <2> QED BY <2>1, <2>2
<1> QED BY <1>4

\* A set with 0 and with the successor of each of its members below n has all numbers up to n.
LEMMA UpTo ==
  ASSUME NEW n \in Nat, NEW T, 0 \in T, \A k \in 1 .. n : k - 1 \in T => k \in T
  PROVE  \A k \in 0 .. n : k \in T
<1> DEFINE Missing == {k \in 0 .. n : k \notin T}
<1>1. SUFFICES ASSUME Missing # {} PROVE FALSE
  OBVIOUS
<1>2. PICK k \in Missing : \A m \in Missing : k <= m
  <2>1. Missing \in SUBSET Nat
    OBVIOUS
  <2> HIDE DEF Missing
  <2> QED BY <1>1, <2>1, LeastNatural
<1>3. k \in 1 .. n /\ k - 1 \in 0 .. n /\ k - 1 \notin Missing
  BY <1>2
<1> QED BY <1>2, <1>3

-----------------------------------------------------------------------------
(* What the first characters of a format put into a line. *)

PartsAre(s, args, n, parts) ==
  parts = [k \in 0 .. n |-> IF k = 0 THEN << >> ELSE parts[k - 1] \o Part(s, args, k)]

LEMMA PartsExist ==
  ASSUME NEW s, NEW args, NEW n \in Nat
  PROVE  \E parts : PartsAre(s, args, n, parts)
<1> DEFINE T == {m \in Nat : \E parts : PartsAre(s, args, m, parts)}
<1>1. 0 \in T
  <2>1. PartsAre(s, args, 0, [k \in 0 .. 0 |-> << >>])
    BY DEF PartsAre
  <2> QED BY <2>1
<1>2. ASSUME NEW m \in 1 .. n, m - 1 \in T PROVE m \in T
  <2>1. PICK f : PartsAre(s, args, m - 1, f)
    BY <1>2
  <2> DEFINE g == [k \in 0 .. m |-> IF k < m THEN f[k] ELSE f[m - 1] \o Part(s, args, m)]
  <2>2. ASSUME NEW k \in 0 .. m
        PROVE  g[k] = IF k = 0 THEN << >> ELSE g[k - 1] \o Part(s, args, k)
    <3>1. CASE k = m
      BY <3>1
    <3>2. CASE k # m
      <4>1. k \in 0 .. (m - 1) /\ g[k] = f[k] /\ (k # 0 => g[k - 1] = f[k - 1])
        BY <3>2
      <4>2. f[k] = IF k = 0 THEN << >> ELSE f[k - 1] \o Part(s, args, k)
        BY <2>1, <4>1 DEF PartsAre
      <4> QED BY <4>1, <4>2
    <3> QED BY <3>1, <3>2
  <2>3. g = [k \in 0 .. m |-> g[k]]
    OBVIOUS
  <2> HIDE DEF g
  <2>4. PartsAre(s, args, m, g)
    BY <2>2, <2>3 DEF PartsAre
  <2> QED BY <2>4
<1> HIDE DEF T
<1>3. n \in T
  BY <1>1, <1>2, UpTo
<1> QED BY <1>3 DEF T

LEMMA PartsFacts ==
  ASSUME NEW s, NEW args, Len(s) \in Nat
  PROVE  /\ Parts(s, args)[0] = << >>
         /\ \A n \in 1 .. Len(s) : Parts(s, args)[n] = Parts(s, args)[n - 1] \o Part(s, args, n)
<1>1. \E parts : PartsAre(s, args, Len(s), parts)
  BY PartsExist
<1> DEFINE f == CHOOSE parts : PartsAre(s, args, Len(s), parts)
<1>2. PartsAre(s, args, Len(s), f)
  BY <1>1
<1>3. Parts(s, args) = f
  BY DEF Parts, PartsAre
<1> HIDE DEF f
<1>4. \A n \in 0 .. Len(s) : f[n] = IF n = 0 THEN << >> ELSE f[n - 1] \o Part(s, args, n)
  BY <1>2 DEF PartsAre
<1>5. f[0] = << >>
  <2>1. 0 \in 0 .. Len(s)
    OBVIOUS
  <2> QED BY <1>4, <2>1, Zenon
<1>6. ASSUME NEW n \in 1 .. Len(s) PROVE f[n] = f[n - 1] \o Part(s, args, n)
  <2>1. n \in 0 .. Len(s) /\ n # 0
    OBVIOUS
  <2> QED BY <1>4, <2>1, Zenon
<1> QED BY <1>3, <1>5, <1>6

-----------------------------------------------------------------------------
(* Runs of % and placeholders. *)

LEMMA Parity ==
  ASSUME NEW n \in Nat
  PROVE  n % 2 \in {0, 1} /\ (n % 2 = 0 <=> (n + 1) % 2 = 1)
OBVIOUS

LEMMA RunIsPercentRun ==
  ASSUME NEW s, NEW i \in Nat, NEW n, IsRun(s, i, n)
  PROVE  PercentRun(s, i) = n
<1>1. ASSUME NEW m, IsRun(s, i, m) PROVE m = n
  <2>1. ASSUME NEW a \in 0 .. i, NEW b \in 0 .. i, a < b, a < i => s[i - a] # "%",
               \A k \in 1 .. i : k > i - b => s[k] = "%"
        PROVE  FALSE
    <3>1. i - a \in 1 .. i /\ i - a > i - b /\ a < i
      BY <2>1
    <3> QED BY <2>1, <3>1
  <2>2. m \in 0 .. i /\ n \in 0 .. i
    BY <1>1 DEF IsRun
  <2>3. ~(m < n) /\ ~(n < m)
    BY <1>1, <2>1, <2>2 DEF IsRun
  <2> QED BY <2>2, <2>3
<1>2. n \in 0 .. i
  BY DEF IsRun
<1>3. \A m \in 0 .. i : IsRun(s, i, m) <=> /\ \A k \in 1 .. i : k > i - m => s[k] = "%"
                                           /\ m < i => s[i - m] # "%"
  BY DEF IsRun
<1>4. PercentRun(s, i) = CHOOSE m \in 0 .. i : IsRun(s, i, m)
  BY DEF PercentRun, IsRun
<1> QED BY <1>1, <1>2, <1>4

\* The next character makes a run longer or ends it.
LEMMA RunGoesOn ==
  ASSUME NEW s, NEW i \in Nat, NEW n, IsRun(s, i, n)
  PROVE  IF s[i + 1] = "%" THEN IsRun(s, i + 1, n + 1) ELSE IsRun(s, i + 1, 0)
<1>1. CASE s[i + 1] = "%"
  <2>1. n + 1 \in 0 .. (i + 1) /\ (i + 1) - (n + 1) = i - n
    BY DEF IsRun
  <2>2. ASSUME NEW k \in 1 .. (i + 1), k > i - n PROVE s[k] = "%"
    <3>1. k = i + 1 \/ k \in 1 .. i
      OBVIOUS
    <3> QED BY <3>1, <2>2, <1>1 DEF IsRun
  <2>3. n + 1 < i + 1 => s[i - n] # "%"
    BY DEF IsRun
  <2> QED BY <1>1, <2>1, <2>2, <2>3 DEF IsRun
<1>2. CASE s[i + 1] # "%"
  BY <1>2 DEF IsRun
<1> QED BY <1>1, <1>2

\* What log() looks at: the rest of the format, or of the arguments.
LEMMA RestFacts ==
  ASSUME NEW S, NEW s \in Seq(S), NEW i \in 0 .. Len(s)
  PROVE  LET rest == SubSeq(s, i + 1, Len(s))
         IN  /\ rest \in Seq(S) /\ Len(rest) = Len(s) - i
             /\ \A k \in 1 .. (Len(s) - i) : rest[k] = s[i + k]
             /\ i < Len(s) => rest # << >> /\ Head(rest) = s[i + 1] /\ Tail(rest) = SubSeq(s, i + 2, Len(s))
             /\ rest = << >> <=> i = Len(s)
<1> DEFINE rest == SubSeq(s, i + 1, Len(s))
<1>1. rest \in Seq(S) /\ Len(rest) = Len(s) - i
  BY SubSeqProperties
<1>2. \A k \in 1 .. (Len(s) - i) : rest[k] = s[i + k]
  BY SubSeqProperties
<1>3. ASSUME i < Len(s)
      PROVE  rest # << >> /\ Head(rest) = s[i + 1] /\ Tail(rest) = SubSeq(s, i + 2, Len(s))
  <2>1. i + 1 \in 1 .. Len(s) /\ Len(s) \in (i + 1) .. Len(s)
    BY <1>3
  <2>2. Head(rest) = s[i + 1] /\ Tail(rest) = SubSeq(s, (i + 1) + 1, Len(s))
    BY <2>1, HeadTailOfSubSeq
  <2>3. (i + 1) + 1 = i + 2
    OBVIOUS
  <2>4. rest # << >>
    BY <1>1, <1>3, EmptySeq
  <2> HIDE DEF rest
  <2> QED BY <2>2, <2>3, <2>4
<1>4. rest = << >> <=> i = Len(s)
  <2> HIDE DEF rest
  <2>1. ASSUME rest = << >> PROVE i = Len(s)
    BY <1>1, <2>1
  <2>2. ASSUME i = Len(s) PROVE rest = << >>
    BY <1>1, <2>2, EmptySeq
  <2> QED BY <2>1, <2>2
<1> QED BY <1>1, <1>2, <1>3, <1>4

\* The three things log() can find behind the i-th character.
NextIsEscaped(s, i) ==
  /\ i + 2 <= Len(s) /\ s[i + 1] = "%" /\ s[i + 2] = "%" /\ Between(s, i + 2)
  /\ ~IsPlaceholder(s, i + 1) /\ ~IsWritten(s, i + 1)
  /\ ~IsPlaceholder(s, i + 2) /\ IsWritten(s, i + 2)
NextIsPlaceholder(s, i) == IsPlaceholder(s, i + 1) /\ Between(s, i + 1)
NextIsPlain(s, i) == ~IsPlaceholder(s, i + 1) /\ IsWritten(s, i + 1) /\ Between(s, i + 1)

LEMMA NextCharacter ==
  ASSUME NEW s \in Seq({"c", "%"}), NEW i \in 0 .. Len(s), i < Len(s), Between(s, i)
  PROVE  LET rest == SubSeq(s, i + 1, Len(s))
         IN  /\ Escaped(rest) => NextIsEscaped(s, i)
             /\ Placeholder(rest) => NextIsPlaceholder(s, i)
             /\ ~Escaped(rest) /\ ~Placeholder(rest) => NextIsPlain(s, i)
<1> DEFINE rest == SubSeq(s, i + 1, Len(s))
<1> SUFFICES /\ Escaped(rest) => NextIsEscaped(s, i)
             /\ Placeholder(rest) => NextIsPlaceholder(s, i)
             /\ ~Escaped(rest) /\ ~Placeholder(rest) => NextIsPlain(s, i)
  BY Zenon
<1>1. PICK n : IsRun(s, i, n)
  BY DEF Between
<1>2. n \in Nat /\ PercentRun(s, i) = n
  <2>1. n \in Nat
    BY <1>1 DEF IsRun
  <2>2. i \in Nat
    OBVIOUS
  <2> QED BY <1>1, <2>1, <2>2, RunIsPercentRun
<1>3. /\ rest # << >> /\ Len(rest) = Len(s) - i /\ rest[1] = s[i + 1]
      /\ i + 2 <= Len(s) => rest[2] = s[i + 2]
  <2>1. /\ rest # << >> /\ Len(rest) = Len(s) - i
        /\ \A k \in 1 .. (Len(s) - i) : rest[k] = s[i + k]
    BY RestFacts
  <2> QED BY <2>1
<1> HIDE DEF rest
<1>4. CASE s[i + 1] = "%"
  <2>1. n % 2 = 0
    BY <1>2, <1>4 DEF Between, IsPlaceholder, IsWritten
  <2>2. IsRun(s, i + 1, n + 1) /\ PercentRun(s, i + 1) = n + 1 /\ (n + 1) % 2 = 1
    <3>1. IsRun(s, i + 1, n + 1)
      BY <1>1, <1>4, RunGoesOn
    <3>2. PercentRun(s, i + 1) = n + 1
      BY <3>1, RunIsPercentRun
    <3> QED BY <1>2, <2>1, <3>1, <3>2, Parity
  <2>3. CASE Escaped(rest)
    <3>1. i + 2 <= Len(s) /\ s[i + 2] = "%"
      BY <1>3, <2>3 DEF Escaped
    <3>2. (i + 1) + 1 = i + 2 /\ (n + 1) + 1 = n + 2 /\ n + 2 \in Nat /\ i + 1 \in Nat /\ n + 1 \in Nat
      BY <1>2
    <3>3. IsRun(s, i + 2, n + 2)
      BY <2>2, <3>1, <3>2, RunGoesOn
    <3>4. PercentRun(s, i + 2) = n + 2
      BY <3>3, RunIsPercentRun
    <3>5. (n + 2) % 2 = 0
      BY <1>2, <2>1
    <3>6. ~IsPlaceholder(s, i + 1) /\ ~IsWritten(s, i + 1)
      BY <2>2, <3>1, <3>2 DEF IsPlaceholder, IsWritten
    <3>7. ~IsPlaceholder(s, i + 2) /\ IsWritten(s, i + 2)
      BY <3>4, <3>5 DEF IsPlaceholder, IsWritten
    <3>8. NextIsEscaped(s, i)
      BY <1>4, <3>1, <3>3, <3>6, <3>7 DEF NextIsEscaped, Between
    <3> QED BY <2>3, <3>8 DEF Placeholder
  <2>4. CASE ~Escaped(rest)
    <3>1. Placeholder(rest)
      BY <1>3, <1>4, <2>4 DEF Placeholder
    <3>2. i + 1 = Len(s) \/ s[(i + 1) + 1] # "%"
      <4>1. (i + 1) + 1 = i + 2
        OBVIOUS
      <4> QED BY <1>3, <1>4, <2>4, <4>1 DEF Escaped
    <3>3. NextIsPlaceholder(s, i)
      BY <2>2, <3>2 DEF NextIsPlaceholder, IsPlaceholder, Between
    <3> QED BY <2>4, <3>1, <3>3
  <2> QED BY <2>3, <2>4
<1>5. CASE s[i + 1] # "%"
  <2>1. ~Escaped(rest) /\ ~Placeholder(rest)
    BY <1>3, <1>5 DEF Escaped, Placeholder
  <2>2. IsRun(s, i + 1, 0)
    BY <1>1, <1>5, RunGoesOn
  <2>3. PercentRun(s, i + 1) = 0 /\ 0 % 2 = 0
    BY <2>2, RunIsPercentRun
  <2>4. NextIsPlain(s, i)
    BY <2>2, <2>3 DEF NextIsPlain, IsPlaceholder, IsWritten, Between
  <2> QED BY <2>1, <2>4
<1> QED BY <1>4, <1>5

LEMMA AtStartOfFormat == ASSUME NEW s PROVE Between(s, 0)
<1>1. IsRun(s, 0, 0)
  BY DEF IsRun
<1>2. PercentRun(s, 0) = 0 /\ 0 % 2 = 0
  BY <1>1, RunIsPercentRun
<1> QED BY <1>1, <1>2 DEF Between, IsWritten

\* The number of placeholders up to a character.
LEMMA TakenFacts ==
  ASSUME NEW s, Len(s) \in Nat, NEW i \in 0 .. Len(s)
  PROVE  /\ Taken(s, i) \in Nat /\ Taken(s, 0) = 0
         /\ Taken(s, i) <= Cardinality(Placeholders(s))
         /\ Taken(s, Len(s)) = Cardinality(Placeholders(s))
         /\ i < Len(s) =>
              Taken(s, i + 1) = IF IsPlaceholder(s, i + 1) THEN Taken(s, i) + 1 ELSE Taken(s, i)
<1>1. IsFiniteSet(Placeholders(s))
  <2>1. IsFiniteSet(1 .. Len(s))
    BY FS_Interval
  <2>2. Placeholders(s) \subseteq 1 .. Len(s)
    BY DEF Placeholders
  <2> QED BY <2>1, <2>2, FS_Subset
<1>2. /\ IsFiniteSet(PlaceholdersUpTo(s, i)) /\ Taken(s, i) \in Nat
      /\ Taken(s, i) <= Cardinality(Placeholders(s))
  <2>1. PlaceholdersUpTo(s, i) \subseteq Placeholders(s)
    BY DEF PlaceholdersUpTo
  <2> QED BY <1>1, <2>1, FS_Subset, FS_CardinalityType DEF Taken
<1>3. Taken(s, 0) = 0
  <2>1. PlaceholdersUpTo(s, 0) = {}
    BY DEF PlaceholdersUpTo, Placeholders
  <2> QED BY <2>1, FS_EmptySet DEF Taken
<1>4. Taken(s, Len(s)) = Cardinality(Placeholders(s))
  <2>1. PlaceholdersUpTo(s, Len(s)) = Placeholders(s)
    BY DEF PlaceholdersUpTo, Placeholders
  <2> QED BY <2>1 DEF Taken
<1>5. ASSUME i < Len(s), IsPlaceholder(s, i + 1) PROVE Taken(s, i + 1) = Taken(s, i) + 1
  <2>1. /\ PlaceholdersUpTo(s, i + 1) = PlaceholdersUpTo(s, i) \cup {i + 1}
        /\ i + 1 \notin PlaceholdersUpTo(s, i)
    BY <1>5 DEF PlaceholdersUpTo, Placeholders
  <2> QED BY <1>2, <2>1, FS_AddElement DEF Taken
<1>6. ASSUME i < Len(s), ~IsPlaceholder(s, i + 1) PROVE Taken(s, i + 1) = Taken(s, i)
  <2>1. PlaceholdersUpTo(s, i + 1) = PlaceholdersUpTo(s, i)
    BY <1>6 DEF PlaceholdersUpTo, Placeholders
  <2> QED BY <2>1 DEF Taken
<1> QED BY <1>2, <1>3, <1>4, <1>5, <1>6

\* What is put into a line is a sequence of elements, as far as there are arguments.
LEMMA PartsAreElements ==
  ASSUME NEW s \in Seq({"c", "%"}), NEW args \in Seq(Seq(Elements)), NEW i \in 0 .. Len(s),
         Taken(s, i) <= Len(args)
  PROVE  /\ Parts(s, args)[i] \in Seq(Elements)
         /\ i # 0 => Part(s, args, i) \in Seq(Elements)
<1> DEFINE T == {k \in 0 .. Len(s) : Taken(s, k) <= Len(args) => Parts(s, args)[k] \in Seq(Elements)}
<1>1. Len(s) \in Nat /\ Len(args) \in Nat
  OBVIOUS
<1>2. ASSUME NEW k \in 1 .. Len(s), Taken(s, k) <= Len(args) PROVE Part(s, args, k) \in Seq(Elements)
  <2>1. CASE IsPlaceholder(s, k)
    <3>1. k - 1 \in 0 .. Len(s) /\ k - 1 < Len(s) /\ (k - 1) + 1 = k
      OBVIOUS
    <3>2. Taken(s, k - 1) \in Nat /\ Taken(s, k) = Taken(s, k - 1) + 1
      BY <1>1, <2>1, <3>1, TakenFacts
    <3>3. Taken(s, k) \in 1 .. Len(args)
      BY <1>1, <1>2, <3>2
    <3>4. args[Taken(s, k)] \in Seq(Elements)
      BY <3>3, ElementOfSeq
    <3> QED BY <2>1, <3>4 DEF Part, Taken
  <2>2. CASE ~IsPlaceholder(s, k)
    <3>1. s[k] \in Elements
      <4>1. s[k] \in {"c", "%"}
        BY ElementOfSeq
      <4> QED BY <4>1, LineAssumption
    <3>2. <<s[k]>> \in Seq(Elements) /\ << >> \in Seq(Elements)
      BY <3>1
    <3> QED BY <2>2, <3>2 DEF Part
  <2> QED BY <2>1, <2>2
<1>3. 0 \in T
  <2>1. Parts(s, args)[0] = << >> /\ 0 \in 0 .. Len(s)
    BY <1>1, PartsFacts
  <2>2. << >> \in Seq(Elements)
    OBVIOUS
  <2> QED BY <2>1, <2>2
<1>4. ASSUME NEW k \in 1 .. Len(s), k - 1 \in T PROVE k \in T
  <2>1. SUFFICES ASSUME Taken(s, k) <= Len(args) PROVE Parts(s, args)[k] \in Seq(Elements)
    OBVIOUS
  <2>2. k - 1 \in 0 .. Len(s) /\ k - 1 < Len(s) /\ (k - 1) + 1 = k
    OBVIOUS
  <2>3. Taken(s, k - 1) \in Nat /\ Taken(s, k) \in {Taken(s, k - 1), Taken(s, k - 1) + 1}
    BY <1>1, <2>2, TakenFacts
  <2>4. Parts(s, args)[k - 1] \in Seq(Elements)
    BY <1>1, <1>4, <2>1, <2>3
  <2>5. Part(s, args, k) \in Seq(Elements)
    BY <1>2, <2>1
  <2>6. Parts(s, args)[k] = Parts(s, args)[k - 1] \o Part(s, args, k)
    BY <1>1, PartsFacts
  <2> QED BY <2>4, <2>5, <2>6, ConcatProperties
<1>5. i \in T
  <2> HIDE DEF T
  <2> QED BY <1>1, <1>3, <1>4, UpTo
<1> QED BY <1>2, <1>5

\* The line of a call whose arguments fit.
LEMMA LineIsElements ==
  ASSUME NEW s \in Seq({"c", "%"}), NEW args \in Seq(Seq(Elements)), ArgumentsFit(s, args)
  PROVE  Line(s, args) \in Seq(Elements)
<1>1. Len(s) \in Nat /\ Len(args) \in Nat /\ Len(s) \in 0 .. Len(s)
  OBVIOUS
<1>2. Taken(s, Len(s)) = Len(args)
  BY <1>1, TakenFacts DEF ArgumentsFit
<1> QED BY <1>1, <1>2, PartsAreElements DEF Line

-----------------------------------------------------------------------------
(* Pushing and writing. *)

LEMMA ThreeTogether ==
  ASSUME NEW a \in Seq(Elements), NEW b \in Seq(Elements), NEW c \in Seq(Elements)
  PROVE  (a \o b) \o c = a \o (b \o c)
BY ConcatAssociative

LEMMA LineTypes ==
  ASSUME LogTypes
  PROVE  line.s \in Seq({"c", "%"}) /\ line.args \in Seq(Seq(Elements))
BY LineAssumption DEF LogTypes

LEMMA PushedType == ASSUME LogTypes PROVE Unwritten \in Seq(Elements) /\ Pushed \in Seq(Elements)
<1>1. Unwritten \in Seq(Elements)
  <2>1. CASE writer = "written"
    BY <2>1, HeadTailProperties DEF LogTypes, Unwritten
  <2>2. CASE writer # "written"
    BY <2>2 DEF LogTypes, Unwritten
  <2> QED BY <2>1, <2>2
<1> QED BY <1>1, ConcatProperties DEF Pushed, LogTypes

LEMMA PushOne ==
  ASSUME LogTypes, NEW e \in Elements, PushValue(e), UNCHANGED <<file_, writer>>
  PROVE  Pushed' = Pushed \o <<e>> /\ queue_' \in Seq(Elements) /\ queue_' # << >>
<1>1. queue_' = Append(queue_, e) /\ queue_ \in Seq(Elements) /\ file_ \in Seq(Elements)
  BY DEF PushValue, LogTypes
<1>2. queue_' \in Seq(Elements) /\ queue_' # << >>
  BY <1>1, AppendProperties
<1>3. Unwritten \in Seq(Elements) /\ <<e>> \in Seq(Elements)
  BY PushedType
<1>4. Unwritten' = Append(Unwritten, e)
  <2>1. CASE writer = "written"
    <3>1. queue_ # << >>
      BY <2>1 DEF LogTypes
    <3>2. Tail(Append(queue_, e)) = Append(Tail(queue_), e)
      BY <1>1, <3>1, HeadTailAppend
    <3> QED BY <1>1, <2>1, <3>2 DEF Unwritten
  <2>2. CASE writer # "written"
    BY <1>1, <2>2 DEF Unwritten
  <2> QED BY <2>1, <2>2
<1>5. Append(Unwritten, e) = Unwritten \o <<e>>
  BY <1>3, AppendIsConcat
<1>6. (file_ \o Unwritten) \o <<e>> = file_ \o (Unwritten \o <<e>>)
  BY <1>1, <1>3, ConcatAssociative
<1> QED BY <1>2, <1>4, <1>5, <1>6 DEF Pushed

\* The writer changes only where the elements are.
LEMMA WriterKeeps ==
  ASSUME LogTypes, FlushQueue
  PROVE  /\ Pushed' = Pushed /\ queue_' \in Seq(Elements) /\ file_' \in Seq(Elements)
         /\ writer' = "written" => queue_' # << >>
         /\ queue_ = << >> => queue_' = << >>
         /\ UNCHANGED <<caller, running_, closed, fatal>>
<1>1. queue_ \in Seq(Elements) /\ file_ \in Seq(Elements)
  BY DEF LogTypes
<1>2. CASE WriteElement
  <2>1. /\ queue_ # << >> /\ file_' = Append(file_, Head(queue_)) /\ queue_' = queue_
        /\ writer = "read" /\ writer' = "written"
    BY <1>2 DEF WriteElement
  <2>2. /\ Head(queue_) \in Elements /\ Tail(queue_) \in Seq(Elements)
        /\ <<Head(queue_)>> \in Seq(Elements)
    BY <1>1, <2>1, HeadTailProperties
  <2>3. queue_ = <<Head(queue_)>> \o Tail(queue_)
    BY <1>1, <2>1, <2>2
  <2>4. file_' = file_ \o <<Head(queue_)>> /\ file_' \in Seq(Elements)
    BY <1>1, <2>1, <2>2, AppendIsConcat, AppendProperties
  <2>5. file_' \o Tail(queue_) = file_ \o (<<Head(queue_)>> \o Tail(queue_))
    BY <1>1, <2>2, <2>4, ConcatAssociative
  <2>6. Pushed' = Pushed
    BY <2>1, <2>3, <2>5 DEF Pushed, Unwritten
  <2> QED BY <1>1, <1>2, <2>1, <2>4, <2>6 DEF WriteElement
<1>3. CASE UpdateReadIndex
  <2>1. queue_ # << >> /\ writer = "written" /\ writer' = "read" /\ queue_' = Tail(queue_) /\ file_' = file_
    BY <1>3 DEF UpdateReadIndex, LogTypes
  <2>2. Tail(queue_) \in Seq(Elements)
    BY <1>1, <2>1, HeadTailProperties
  <2>3. Pushed' = Pushed
    BY <2>1 DEF Pushed, Unwritten
  <2> QED BY <1>1, <1>3, <2>1, <2>2, <2>3 DEF UpdateReadIndex
<1>4. CASE FlushFile
  BY <1>1, <1>4 DEF FlushFile, Pushed, Unwritten
<1>5. CASE TestRunning
  BY <1>1, <1>5 DEF TestRunning, Pushed, Unwritten
<1> QED BY <1>2, <1>3, <1>4, <1>5 DEF FlushQueue

-----------------------------------------------------------------------------
(* The steps of log(). *)

\* Where a call is, with what its arguments are typed as.
Typed(i) ==
  /\ line.s \in Seq({"c", "%"}) /\ line.args \in Seq(Seq(Elements)) /\ Len(line.s) \in Nat
  /\ Pushed \in Seq(Elements) /\ logged \in Seq(Elements) /\ caller.value \in Seq(Elements)
  /\ Parts(line.s, line.args)[i] \in Seq(Elements) /\ Taken(line.s, i) \in Nat
  /\ Len(line.args) \in Nat

LEMMA CallFacts ==
  ASSUME LogTypes, CallOK, main # "log_engine", NEW i, ReadUpTo(i)
  PROVE  Typed(i)
<1>1. line.s \in Seq({"c", "%"}) /\ line.args \in Seq(Seq(Elements))
  BY LineTypes
<1>2. Len(line.s) \in Nat /\ Len(line.args) \in Nat
  BY <1>1
<1>3. Pushed \in Seq(Elements) /\ caller.value \in Seq(Elements)
  BY PushedType DEF LogTypes
<1>4. /\ i \in 0 .. Len(line.s) /\ Taken(line.s, i) \in 0 .. Len(line.args)
  BY DEF ReadUpTo
<1>5. Parts(line.s, line.args)[i] \in Seq(Elements)
  BY <1>1, <1>2, <1>4, PartsAreElements
<1>6. logged \in Seq(Elements)
  BY DEF LogTypes
<1> QED BY <1>1, <1>2, <1>3, <1>4, <1>5, <1>6 DEF Typed

\* A step of log() is one of a call that runs.
LEMMA LogStepInCall ==
  ASSUME CallOK, LogStep
  PROVE  main \in InCall /\ main # "log_engine" /\ ~fatal /\ \E i \in Nat : ReadUpTo(i)
<1>1. ~OutOfCall /\ ~fatal
  BY DEF LogStep, PushArgument, TakeArgument, PushCharacter, WrongArguments, OutOfCall, Placeholder
<1>2. main \in InCall
  BY <1>1 DEF CallOK
<1> QED BY <1>1, <1>2 DEF CallOK, InCall

\* What a step of log() has to show.
CallGoesOn ==
  /\ caller' \in [s : Seq({"c", "%"}), args : Seq(Seq(Elements)), value : Seq(Elements)]
  /\ queue_' \in Seq(Elements) /\ (writer = "written" => queue_' # << >>)
  /\ \E j \in Nat : ReadUpTo(j)'

LEMMA PushArgumentGoesOn ==
  ASSUME LogTypes, CallOK, main # "log_engine", NEW i \in Nat, ReadUpTo(i), Typed(i), PushArgument,
         UNCHANGED <<line, main, logged>>
  PROVE  CallGoesOn
<1> DEFINE v == caller.value
<1>1. /\ v # << >> /\ v \in Seq(Elements) /\ PushValue(Head(v)) /\ UNCHANGED <<file_, writer>>
      /\ caller' = [caller EXCEPT !.value = Tail(v)]
      /\ caller \in [s : Seq({"c", "%"}), args : Seq(Seq(Elements)), value : Seq(Elements)]
  BY DEF PushArgument, LogTypes
<1>2. /\ Head(v) \in Elements /\ Tail(v) \in Seq(Elements) /\ <<Head(v)>> \in Seq(Elements)
  BY <1>1, HeadTailProperties
<1>3. v = <<Head(v)>> \o Tail(v)
  BY <1>1, <1>2
<1>4. Pushed' = Pushed \o <<Head(v)>> /\ queue_' \in Seq(Elements) /\ queue_' # << >>
  BY <1>1, <1>2, PushOne
<1>5. caller'.s = caller.s /\ caller'.args = caller.args /\ caller'.value = Tail(v)
  BY <1>1
<1>6. Pushed' \o Tail(v) = Pushed \o v
  <2>1. Pushed \in Seq(Elements)
    BY DEF Typed
  <2>2. (Pushed \o <<Head(v)>>) \o Tail(v) = Pushed \o (<<Head(v)>> \o Tail(v))
    BY <1>2, <2>1, ThreeTogether
  <2> QED BY <1>3, <1>4, <2>2
<1>7. logged' = logged
  OBVIOUS
<1> HIDE DEF v
<1>8. Pushed \o v = logged \o Parts(line.s, line.args)[i]
  BY DEF ReadUpTo, v
<1>9. ReadUpTo(i)'
  BY <1>5, <1>6, <1>7, <1>8 DEF ReadUpTo
<1>10. caller' \in [s : Seq({"c", "%"}), args : Seq(Seq(Elements)), value : Seq(Elements)]
  BY <1>1, <1>2
<1> QED BY <1>4, <1>9, <1>10 DEF CallGoesOn

\* Between two elements of the format all that is due has been pushed.
LEMMA AllPushed ==
  ASSUME NEW i, ReadUpTo(i), Typed(i), caller.value = << >>
  PROVE  Pushed = logged \o Parts(line.s, line.args)[i]
<1>1. Pushed \o << >> = Pushed
  BY ConcatEmptySeq DEF Typed
<1> QED BY <1>1 DEF ReadUpTo

LEMMA TakeArgumentGoesOn ==
  ASSUME LogTypes, CallOK, main # "log_engine", NEW i \in Nat, ReadUpTo(i), Typed(i), TakeArgument,
         UNCHANGED <<line, main, logged>>
  PROVE  CallGoesOn
<1> DEFINE s == line.s
           args == line.args
           n == Taken(s, i)
<1>1. /\ s \in Seq({"c", "%"}) /\ args \in Seq(Seq(Elements)) /\ Len(s) \in Nat /\ Len(args) \in Nat
      /\ i \in 0 .. Len(s) /\ n \in 0 .. Len(args) /\ Between(s, i)
      /\ caller.s = SubSeq(s, i + 1, Len(s)) /\ caller.args = SubSeq(args, n + 1, Len(args))
  BY DEF Typed, ReadUpTo
<1>2. /\ Placeholder(caller.s) /\ caller.args # << >> /\ caller.value = << >>
      /\ caller' = [s |-> Tail(caller.s), args |-> Tail(caller.args), value |-> Head(caller.args)]
      /\ UNCHANGED <<file_, writer, queue_>>
  BY DEF TakeArgument
<1>3. Pushed = logged \o Parts(s, args)[i] /\ Pushed' = Pushed /\ logged' = logged
  BY <1>2, AllPushed DEF Pushed, Unwritten
<1>4. Pushed \in Seq(Elements) /\ logged \in Seq(Elements) /\ Parts(s, args)[i] \in Seq(Elements)
  BY DEF Typed
<1> HIDE DEF s, args, n
<1>5. i < Len(s)
  <2>1. caller.s # << >>
    BY <1>2 DEF Placeholder
  <2> QED BY <1>1, <2>1, RestFacts
<1>6. n < Len(args)
  BY <1>1, <1>2, RestFacts
<1>7. NextIsPlaceholder(s, i)
  BY <1>1, <1>2, <1>5, NextCharacter
<1>8. /\ Tail(caller.s) = SubSeq(s, i + 2, Len(s)) /\ Tail(caller.s) \in Seq({"c", "%"})
  <2> DEFINE rest == SubSeq(s, i + 1, Len(s))
  <2>1. Tail(rest) = SubSeq(s, i + 2, Len(s)) /\ rest \in Seq({"c", "%"}) /\ rest # << >>
    BY <1>1, <1>5, RestFacts
  <2>2. Tail(rest) \in Seq({"c", "%"})
    <3> HIDE DEF rest
    <3> QED BY <2>1, HeadTailProperties
  <2> QED BY <1>1, <2>1, <2>2
<1>9. /\ Tail(caller.args) = SubSeq(args, n + 2, Len(args)) /\ Head(caller.args) = args[n + 1]
      /\ Tail(caller.args) \in Seq(Seq(Elements)) /\ Head(caller.args) \in Seq(Elements)
  <2> DEFINE rest == SubSeq(args, n + 1, Len(args))
  <2>1. /\ Tail(rest) = SubSeq(args, n + 2, Len(args)) /\ Head(rest) = args[n + 1]
        /\ rest \in Seq(Seq(Elements)) /\ rest # << >>
    <3>1. args \in Seq(Seq(Elements)) /\ n \in 0 .. Len(args)
      BY <1>1
    <3> QED BY <1>6, <3>1, RestFacts, ZenonT(40)
  <2>2. Tail(rest) \in Seq(Seq(Elements)) /\ Head(rest) \in Seq(Elements)
    <3> HIDE DEF rest
    <3> QED BY <2>1, HeadTailProperties
  <2> QED BY <1>1, <2>1, <2>2
<1>10. Taken(s, i + 1) = n + 1
  BY <1>1, <1>5, <1>7, TakenFacts DEF n, NextIsPlaceholder
<1>11. Part(s, args, i + 1) = Head(caller.args)
  BY <1>7, <1>9, <1>10 DEF NextIsPlaceholder, Part, Taken
<1>12. Parts(s, args)[i + 1] = Parts(s, args)[i] \o Head(caller.args)
  <2>1. i + 1 \in 1 .. Len(s) /\ (i + 1) - 1 = i
    BY <1>1, <1>5
  <2>2. Parts(s, args)[i + 1] = Parts(s, args)[(i + 1) - 1] \o Part(s, args, i + 1)
    BY <1>1, <2>1, PartsFacts
  <2> QED BY <1>11, <2>1, <2>2
<1>13. Pushed \o Head(caller.args) = logged \o Parts(s, args)[i + 1]
  <2>1. (logged \o Parts(s, args)[i]) \o Head(caller.args) = logged \o (Parts(s, args)[i] \o Head(caller.args))
    BY <1>4, <1>9, ThreeTogether
  <2> QED BY <1>3, <1>12, <2>1
<1>14. /\ i + 1 \in 0 .. Len(s) /\ n + 1 \in 0 .. Len(args)
       /\ (i + 1) + 1 = i + 2 /\ (n + 1) + 1 = n + 2 /\ i + 1 \in Nat
  BY <1>1, <1>5, <1>6
<1>15. ReadUpTo(i + 1)'
  <2>1. caller'.s = Tail(caller.s) /\ caller'.args = Tail(caller.args) /\ caller'.value = Head(caller.args)
    BY <1>2
  <2>2. s' = s /\ args' = args
    BY DEF s, args
  <2>3. Between(s, i + 1)
    BY <1>7 DEF NextIsPlaceholder
  <2>4. /\ i + 1 \in 0 .. Len(s) /\ Between(s, i + 1)
        /\ caller'.s = SubSeq(s, (i + 1) + 1, Len(s))
        /\ Taken(s, i + 1) \in 0 .. Len(args)
        /\ caller'.args = SubSeq(args, Taken(s, i + 1) + 1, Len(args))
        /\ Pushed' \o caller'.value = logged' \o Parts(s, args)[i + 1]
    BY <1>3, <1>8, <1>9, <1>10, <1>13, <1>14, <2>1, <2>3
  <2> QED BY <2>4 DEF ReadUpTo, s, args
<1>16. caller' \in [s : Seq({"c", "%"}), args : Seq(Seq(Elements)), value : Seq(Elements)]
  BY <1>2, <1>8, <1>9
<1> QED BY <1>2, <1>14, <1>15, <1>16 DEF CallGoesOn, LogTypes

LEMMA PushCharacterGoesOn ==
  ASSUME LogTypes, CallOK, main # "log_engine", NEW i \in Nat, ReadUpTo(i), Typed(i), PushCharacter,
         UNCHANGED <<line, main, logged>>
  PROVE  CallGoesOn
<1> DEFINE s == line.s
           args == line.args
           rest == SubSeq(s, i + 1, Len(s))
           e == Head(rest)
<1>1. /\ s \in Seq({"c", "%"}) /\ args \in Seq(Seq(Elements)) /\ Len(s) \in Nat
      /\ i \in 0 .. Len(s) /\ Between(s, i) /\ Taken(s, i) \in 0 .. Len(args)
      /\ caller.s = rest /\ caller.args = SubSeq(args, Taken(s, i) + 1, Len(args))
  BY DEF Typed, ReadUpTo
<1>2. /\ ~Placeholder(rest) /\ rest # << >> /\ caller.value = << >>
      /\ PushValue(e) /\ UNCHANGED <<file_, writer>>
      /\ caller' = [caller EXCEPT !.s = IF Escaped(rest) THEN Tail(Tail(rest)) ELSE Tail(rest)]
  BY <1>1 DEF PushCharacter
<1>3. Pushed = logged \o Parts(s, args)[i] /\ logged' = logged
  BY <1>2, AllPushed
<1>4. Pushed \in Seq(Elements) /\ logged \in Seq(Elements) /\ Parts(s, args)[i] \in Seq(Elements)
  BY DEF Typed
<1>5. caller.args \in Seq(Seq(Elements)) /\ caller \in [s : Seq({"c", "%"}), args : Seq(Seq(Elements)), value : Seq(Elements)]
  BY DEF LogTypes
<1> HIDE DEF s, args
<1>6. i < Len(s)
  BY <1>1, <1>2, RestFacts
<1>7. rest \in Seq({"c", "%"}) /\ e = s[i + 1] /\ Tail(rest) = SubSeq(s, i + 2, Len(s))
  BY <1>1, <1>6, RestFacts
<1>8. /\ Escaped(rest) => NextIsEscaped(s, i)
      /\ ~Escaped(rest) => NextIsPlain(s, i)
  BY <1>1, <1>2, <1>6, NextCharacter
<1> HIDE DEF rest
<1>9. e \in Elements /\ <<e>> \in Seq(Elements)
  <2>1. e \in {"c", "%"}
    BY <1>2, <1>7, HeadTailProperties
  <2> QED BY <2>1, LineAssumption
<1> HIDE DEF e
<1>10. Pushed' = Pushed \o <<e>> /\ queue_' \in Seq(Elements) /\ queue_' # << >>
  BY <1>2, <1>9, PushOne
<1>11. PICK j \in Nat :
         /\ j \in 0 .. Len(s) /\ Between(s, j) /\ Taken(s, j) = Taken(s, i)
         /\ Parts(s, args)[j] = Parts(s, args)[i] \o <<e>>
         /\ caller'.s = SubSeq(s, j + 1, Len(s)) /\ caller'.s \in Seq({"c", "%"})
  <2>1. i + 1 \in 0 .. Len(s) /\ i + 1 \in 1 .. Len(s) /\ (i + 1) - 1 = i /\ (i + 1) + 1 = i + 2
    BY <1>1, <1>6
  <2>2. Parts(s, args)[i + 1] = Parts(s, args)[i] \o Part(s, args, i + 1)
    BY <1>1, <2>1, PartsFacts
  <2>3. Tail(rest) \in Seq({"c", "%"})
    BY <1>2, <1>7, HeadTailProperties
  <2>4. CASE ~Escaped(rest)
    <3>1. ~IsPlaceholder(s, i + 1) /\ IsWritten(s, i + 1) /\ Between(s, i + 1)
      BY <1>8, <2>4 DEF NextIsPlain
    <3>2. Part(s, args, i + 1) = <<e>>
      BY <1>7, <3>1 DEF Part
    <3>3. Taken(s, i + 1) = Taken(s, i)
      BY <1>1, <1>6, <3>1, TakenFacts
    <3>4. caller'.s = Tail(rest)
      BY <1>2, <1>5, <2>4
    <3>5. caller'.s = SubSeq(s, (i + 1) + 1, Len(s)) /\ caller'.s \in Seq({"c", "%"})
      BY <1>7, <2>1, <2>3, <3>4
    <3>6. i + 1 \in Nat
      OBVIOUS
    <3> QED BY <2>1, <2>2, <3>1, <3>2, <3>3, <3>5, <3>6
  <2>5. CASE Escaped(rest)
    <3>1. /\ i + 2 <= Len(s) /\ s[i + 1] = "%" /\ s[i + 2] = "%" /\ Between(s, i + 2)
          /\ ~IsPlaceholder(s, i + 1) /\ ~IsWritten(s, i + 1)
          /\ ~IsPlaceholder(s, i + 2) /\ IsWritten(s, i + 2)
      BY <1>8, <2>5 DEF NextIsEscaped
    <3>2. /\ i + 2 \in 0 .. Len(s) /\ i + 2 \in 1 .. Len(s) /\ (i + 2) - 1 = i + 1 /\ i + 1 < Len(s)
          /\ i + 2 \in Nat /\ (i + 1) + 2 = (i + 2) + 1
      BY <1>1, <3>1
    <3>3. Part(s, args, i + 1) = << >> /\ Part(s, args, i + 2) = <<e>>
      BY <1>7, <3>1 DEF Part
    <3>4. Parts(s, args)[i + 1] = Parts(s, args)[i]
      BY <1>4, <2>2, <3>3, ConcatEmptySeq
    <3>5. Parts(s, args)[i + 2] = Parts(s, args)[i] \o <<e>>
      <4>1. Parts(s, args)[i + 2] = Parts(s, args)[(i + 2) - 1] \o Part(s, args, i + 2)
        BY <1>1, <3>2, PartsFacts
      <4> QED BY <3>2, <3>3, <3>4, <4>1
    <3>6. Taken(s, i + 2) = Taken(s, i)
      <4>1. Taken(s, i + 1) = Taken(s, i)
        BY <1>1, <1>6, <3>1, TakenFacts
      <4>2. Taken(s, (i + 1) + 1) = Taken(s, i + 1)
        BY <1>1, <2>1, <3>1, <3>2, TakenFacts
      <4> QED BY <2>1, <4>1, <4>2
    <3>7. /\ Tail(Tail(rest)) = SubSeq(s, (i + 2) + 1, Len(s))
          /\ Tail(Tail(rest)) \in Seq({"c", "%"})
      <4> DEFINE next == SubSeq(s, (i + 1) + 1, Len(s))
      <4>1. Tail(next) = SubSeq(s, (i + 1) + 2, Len(s)) /\ next # << >> /\ next \in Seq({"c", "%"})
        BY <1>1, <2>1, <3>2, RestFacts
      <4>2. next = Tail(rest)
        BY <1>7, <2>1
      <4> HIDE DEF next
      <4>3. Tail(next) \in Seq({"c", "%"})
        BY <4>1, HeadTailProperties
      <4> QED BY <3>2, <4>1, <4>2, <4>3
    <3>8. caller'.s = Tail(Tail(rest))
      BY <1>2, <1>5, <2>5
    <3> QED BY <3>1, <3>2, <3>5, <3>6, <3>7, <3>8
  <2> QED BY <2>4, <2>5
<1>12. caller'.args = caller.args /\ caller'.value = << >>
  BY <1>2, <1>5
<1>13. Pushed' \o << >> = logged \o Parts(s, args)[j]
  <2>1. (logged \o Parts(s, args)[i]) \o <<e>> = logged \o (Parts(s, args)[i] \o <<e>>)
    BY <1>4, <1>9, ThreeTogether
  <2>2. Pushed \o <<e>> \in Seq(Elements)
    BY <1>4, <1>9, ConcatProperties
  <2>3. Pushed' \o << >> = Pushed'
    BY <1>10, <2>2, ConcatEmptySeq
  <2> QED BY <1>3, <1>10, <1>11, <2>1, <2>3
<1>14. ReadUpTo(j)'
  <2>1. /\ j \in 0 .. Len(s) /\ Between(s, j)
        /\ caller'.s = SubSeq(s, j + 1, Len(s))
        /\ Taken(s, j) \in 0 .. Len(args)
        /\ caller'.args = SubSeq(args, Taken(s, j) + 1, Len(args))
        /\ Pushed' \o caller'.value = logged' \o Parts(s, args)[j]
    BY <1>1, <1>3, <1>11, <1>12, <1>13
  <2> QED BY <2>1 DEF ReadUpTo, s, args
<1>15. caller' \in [s : Seq({"c", "%"}), args : Seq(Seq(Elements)), value : Seq(Elements)]
  <2>1. caller' = [caller EXCEPT !.s = caller'.s]
    BY <1>2, <1>5
  <2> QED BY <1>5, <1>11, <2>1
<1> QED BY <1>10, <1>14, <1>15 DEF CallGoesOn

\* FATAL() is only for arguments that do not fit.
LEMMA WrongArgumentsDoNotFit ==
  ASSUME NEW i \in Nat, ReadUpTo(i), Typed(i), WrongArguments
  PROVE  ~ArgumentsFit(line.s, line.args)
<1> DEFINE s == line.s
           args == line.args
           n == Taken(s, i)
<1>1. /\ s \in Seq({"c", "%"}) /\ args \in Seq(Seq(Elements)) /\ Len(s) \in Nat /\ Len(args) \in Nat
      /\ i \in 0 .. Len(s) /\ n \in 0 .. Len(args) /\ Between(s, i)
      /\ caller.s = SubSeq(s, i + 1, Len(s)) /\ caller.args = SubSeq(args, n + 1, Len(args))
  BY DEF Typed, ReadUpTo
<1>2. \/ Placeholder(caller.s) /\ caller.args = << >>
      \/ caller.s = << >> /\ caller.args # << >>
  BY DEF WrongArguments
<1> HIDE DEF s, args, n
<1>3. /\ caller.s = << >> <=> i = Len(s)
      /\ caller.args = << >> <=> n = Len(args)
  <2>1. caller.s = << >> <=> i = Len(s)
    BY <1>1, RestFacts
  <2>2. caller.args = << >> <=> n = Len(args)
    BY <1>1, RestFacts
  <2> QED BY <2>1, <2>2
<1>4. CASE Placeholder(caller.s) /\ caller.args = << >>
  <2>1. caller.s # << >>
    BY <1>4 DEF Placeholder
  <2>2. i < Len(s) /\ i + 1 \in 0 .. Len(s)
    <3>1. Len(s) \in Nat /\ i \in 0 .. Len(s) /\ i # Len(s)
      BY <1>1, <1>3, <2>1, Zenon
    <3> QED BY <3>1
  <2>3. IsPlaceholder(s, i + 1)
    BY <1>1, <1>4, <2>2, NextCharacter DEF NextIsPlaceholder
  <2>4. Taken(s, i + 1) = n + 1
    BY <1>1, <2>2, <2>3, TakenFacts DEF n
  <2>5. n + 1 <= Cardinality(Placeholders(s))
    BY <1>1, <2>2, <2>4, TakenFacts
  <2>6. Cardinality(Placeholders(s)) # Len(args)
    BY <1>1, <1>3, <1>4, <2>5
  <2> QED BY <2>6 DEF ArgumentsFit, s, args
<1>5. CASE caller.s = << >> /\ caller.args # << >>
  <2>1. Taken(s, Len(s)) = Cardinality(Placeholders(s))
    BY <1>1, TakenFacts
  <2>2. Cardinality(Placeholders(s)) # Len(args)
    BY <1>1, <1>3, <1>5, <2>1 DEF n
  <2> QED BY <2>2 DEF ArgumentsFit, s, args
<1> QED BY <1>2, <1>4, <1>5

-----------------------------------------------------------------------------
(* The invariant of the log. *)

LEMMA InitLogInv == Init => LogInv
<1> SUFFICES ASSUME Init PROVE LogInv
  OBVIOUS
<1>1. /\ main = "log_engine" /\ line \in Lines /\ queue_ = << >> /\ file_ = << >> /\ writer = "read"
      /\ caller = [s |-> << >>, args |-> << >>, value |-> << >>]
      /\ running_ = TRUE /\ closed = FALSE /\ fatal = FALSE /\ logged = << >>
  BY DEF Init, LogInit
<1>2. LogTypes
  <2>1. << >> \in Seq({"c", "%"}) /\ << >> \in Seq(Seq(Elements)) /\ << >> \in Seq(Elements)
    OBVIOUS
  <2> QED BY <1>1, <2>1 DEF LogTypes
<1>3. Pushed = << >>
  <2>1. Unwritten = << >>
    BY <1>1 DEF Unwritten
  <2> QED BY <1>1, <2>1, ConcatEmptySeq DEF Pushed
<1>4. CallOK
  BY <1>1, <1>3 DEF CallOK, OutOfCall, InCall
<1>5. CloseOK /\ (fatal => ~ArgumentsFit(line.s, line.args))
  BY <1>1 DEF CloseOK
<1> QED BY <1>2, <1>4, <1>5 DEF LogInv

\* log() and the writer.
LEMMA LogStepKeeps ==
  ASSUME LogInv, LogStep, UNCHANGED <<line, main, logged>>
  PROVE  LogInv'
<1>1. LogTypes /\ CallOK /\ CloseOK /\ main \in InCall /\ main # "log_engine" /\ ~fatal
  BY LogStepInCall DEF LogInv
<1>2. PICK i \in Nat : ReadUpTo(i)
  BY <1>1, LogStepInCall
<1>3. Typed(i)
  BY <1>1, <1>2, CallFacts
<1>4. running_ /\ UNCHANGED <<file_, writer, running_, closed>>
  <2>1. UNCHANGED <<file_, writer, running_, closed>>
    BY DEF LogStep, PushArgument, TakeArgument, PushCharacter, WrongArguments
  <2>2. running_
    BY <1>1 DEF CloseOK, InCall
  <2> QED BY <2>1, <2>2
<1>5. CASE PushArgument \/ TakeArgument \/ PushCharacter
  <2>1. CallGoesOn /\ fatal' = fatal
    BY <1>1, <1>2, <1>3, <1>5, PushArgumentGoesOn, TakeArgumentGoesOn, PushCharacterGoesOn
       DEF PushArgument, TakeArgument, PushCharacter
  <2>2. LogTypes'
    BY <1>1, <1>4, <2>1 DEF LogTypes, CallGoesOn
  <2>3. CallOK'
    BY <1>1, <2>1 DEF CallOK, CallGoesOn
  <2>4. CloseOK'
    BY <1>1, <1>4 DEF CloseOK
  <2> QED BY <1>1, <2>1, <2>2, <2>3, <2>4 DEF LogInv
<1>6. CASE WrongArguments
  <2>1. ~ArgumentsFit(line.s, line.args)
    BY <1>2, <1>3, <1>6, WrongArgumentsDoNotFit
  <2>2. UNCHANGED <<caller, queue_>> /\ Pushed' = Pushed /\ logged' = logged
    BY <1>4, <1>6 DEF WrongArguments, Pushed, Unwritten
  <2>3. LogTypes'
    BY <1>1, <1>4, <2>2 DEF LogTypes
  <2>4. ReadUpTo(i)'
    BY <1>2, <2>2 DEF ReadUpTo
  <2>5. CallOK'
    BY <1>1, <2>2, <2>4 DEF CallOK
  <2>6. CloseOK'
    BY <1>1, <1>4 DEF CloseOK
  <2> QED BY <2>1, <2>3, <2>5, <2>6 DEF LogInv
<1> QED BY <1>5, <1>6 DEF LogStep

LEMMA FlushQueueKeeps ==
  ASSUME LogInv, FlushQueue, UNCHANGED <<line, main, logged>>
  PROVE  LogInv'
<1>1. LogTypes /\ CallOK /\ CloseOK
  BY DEF LogInv
<1>2. /\ Pushed' = Pushed /\ queue_' \in Seq(Elements) /\ file_' \in Seq(Elements)
      /\ writer' = "written" => queue_' # << >>
      /\ queue_ = << >> => queue_' = << >>
      /\ UNCHANGED <<caller, running_, closed, fatal>>
  BY <1>1, WriterKeeps
<1>3. LogTypes'
  BY <1>1, <1>2 DEF LogTypes
<1>4. \A i \in Nat : ReadUpTo(i) => ReadUpTo(i)'
  BY <1>2 DEF ReadUpTo
<1>5. OutOfCall' <=> OutOfCall
  BY <1>2 DEF OutOfCall
<1>6. CallOK'
  BY <1>1, <1>2, <1>4, <1>5 DEF CallOK
<1>7. CloseOK'
  BY <1>1, <1>2 DEF CloseOK
<1> QED BY <1>2, <1>3, <1>6, <1>7 DEF LogInv

\* A call that is over has pushed its line.
LEMMA CallIsOver ==
  ASSUME LogInv, OutOfCall, main # "log_engine"
  PROVE  /\ ArgumentsFit(line.s, line.args)
         /\ Pushed = logged \o Line(line.s, line.args)
         /\ Line(line.s, line.args) \in Seq(Elements) /\ logged \in Seq(Elements)
<1>1. PICK i \in Nat : ReadUpTo(i)
  BY DEF LogInv, CallOK
<1>2. Typed(i)
  BY <1>1, CallFacts DEF LogInv
<1> DEFINE s == line.s
           args == line.args
           n == Taken(s, i)
<1>3. /\ s \in Seq({"c", "%"}) /\ args \in Seq(Seq(Elements)) /\ Len(s) \in Nat /\ Len(args) \in Nat
      /\ i \in 0 .. Len(s) /\ n \in 0 .. Len(args)
      /\ << >> = SubSeq(s, i + 1, Len(s)) /\ << >> = SubSeq(args, n + 1, Len(args))
      /\ logged \in Seq(Elements) /\ caller.value = << >>
  BY <1>1, <1>2 DEF Typed, ReadUpTo, OutOfCall
<1>4. Pushed = logged \o Parts(s, args)[i]
  BY <1>1, <1>2, <1>3, AllPushed
<1> HIDE DEF s, args, n
<1>5. i = Len(s)
  BY <1>3, RestFacts
<1>6. n = Len(args)
  BY <1>3, RestFacts
<1>7. Taken(s, Len(s)) = Cardinality(Placeholders(s))
  BY <1>3, TakenFacts
<1>8. ArgumentsFit(s, args)
  BY <1>5, <1>6, <1>7 DEF ArgumentsFit, n
<1>9. Line(s, args) \in Seq(Elements)
  BY <1>3, <1>8, LineIsElements
<1> QED BY <1>3, <1>4, <1>5, <1>8, <1>9 DEF Line, s, args

\* main() calls log(): the line before is complete.
LEMMA CallLogKeeps ==
  ASSUME LogInv, NEW from, NEW to, CallLog(from, to), to \in InCall,
         from \notin {"join", "delete_engine", "exited"}, from = "log_engine" <=> to = "start_engine"
  PROVE  LogInv'
<1>1. /\ caller' = [s |-> line.s, args |-> line.args, value |-> << >>]
      /\ UNCHANGED <<line, queue_, file_, writer, running_, closed, fatal>> /\ ~fatal /\ OutOfCall
      /\ main = from /\ main' = to
      /\ logged' = IF main = "log_engine" THEN << >> ELSE logged \o Line(line.s, line.args)
  BY DEF CallLog, GoOn, Logged, OutOfCall
<1>2. line.s \in Seq({"c", "%"}) /\ line.args \in Seq(Seq(Elements)) /\ Len(line.s) \in Nat /\ Len(line.args) \in Nat
  <2>1. line.s \in Seq({"c", "%"}) /\ line.args \in Seq(Seq(Elements))
    BY LineTypes DEF LogInv
  <2> QED BY <2>1
<1>3. Pushed' = Pushed
  BY <1>1 DEF Pushed, Unwritten
<1>4. Pushed = logged' /\ Pushed \in Seq(Elements)
  <2>1. Pushed \in Seq(Elements)
    BY PushedType DEF LogInv
  <2>2. CASE main = "log_engine"
    BY <1>1, <2>1, <2>2 DEF LogInv, CallOK
  <2>3. CASE main # "log_engine"
    <3>1. Pushed = logged \o Line(line.s, line.args)
      BY <1>1, <2>3, CallIsOver
    <3> QED BY <1>1, <2>1, <2>3, <3>1
  <2> QED BY <2>2, <2>3
<1>5. LogTypes'
  <2>1. << >> \in Seq(Elements)
    OBVIOUS
  <2> QED BY <1>1, <1>2, <1>4, <2>1 DEF LogInv, LogTypes
<1>6. ReadUpTo(0)'
  <2>1. Between(line.s, 0) /\ 0 \in 0 .. Len(line.s)
    BY <1>2, AtStartOfFormat
  <2>2. Taken(line.s, 0) = 0
    BY <1>2, <2>1, TakenFacts
  <2>3. Parts(line.s, line.args)[0] = << >>
    BY <1>2, PartsFacts
  <2>4. SubSeq(line.s, 0 + 1, Len(line.s)) = line.s /\ SubSeq(line.args, 0 + 1, Len(line.args)) = line.args
    BY <1>2, SubSeqFull
  <2>5. Pushed' \o caller'.value = logged' \o Parts(line.s, line.args)[0]
    BY <1>1, <1>3, <1>4, <2>3
  <2>6. 0 \in 0 .. Len(line.args) /\ caller'.s = line.s /\ caller'.args = line.args
    BY <1>1, <1>2
  <2> QED BY <1>1, <2>1, <2>2, <2>4, <2>5, <2>6 DEF ReadUpTo
<1>7. main # "log_engine" => ArgumentsFit(line.s, line.args)
  BY <1>1, CallIsOver
<1>8. CallOK'
  <2>1. main' \in InCall /\ main' # "log_engine"
    BY <1>1 DEF InCall
  <2>2. main' \notin {"log_engine", "start_engine"} => ArgumentsFit(line.s, line.args)
    BY <1>1, <1>7
  <2>3. 0 \in Nat
    OBVIOUS
  <2> QED BY <1>1, <1>6, <2>1, <2>2, <2>3 DEF CallOK
<1>9. CloseOK'
  <2>1. running_
    BY <1>1 DEF LogInv, CloseOK
  <2> QED BY <1>1, <2>1 DEF LogInv, CloseOK
<1> QED BY <1>1, <1>5, <1>8, <1>9 DEF LogInv

\* main() goes on with something else than the log.
LEMMA GoingOnKeeps ==
  ASSUME LogInv, OutOfCall, ~fatal, main # "log_engine", main' # "log_engine",
         UNCHANGED <<line, logged, caller, queue_, file_, writer, fatal>>, CloseOK'
  PROVE  LogInv'
<1>1. LogTypes'
  BY DEF LogInv, LogTypes
<1>2. Pushed' = Pushed
  BY DEF Pushed, Unwritten
<1>3. \A i \in Nat : ReadUpTo(i) => ReadUpTo(i)'
  BY <1>2 DEF ReadUpTo
<1>4. ArgumentsFit(line.s, line.args)
  BY CallIsOver
<1>5. OutOfCall'
  BY DEF OutOfCall
<1>6. CallOK'
  BY <1>3, <1>4, <1>5 DEF LogInv, CallOK
<1> QED BY <1>1, <1>6 DEF LogInv

LEMMA MainKeepsLog == ASSUME LogInv, Main PROVE LogInv'
<1>1. CASE Log
  BY <1>1, LogStepKeeps DEF Log, main_vars
<1>2. CASE \/ LogLine("log_engine", "start_engine") \/ LogLine("log_gateway", "start_gateway")
           \/ LogLine("log_consumer", "start_consumer") \/ LogLine("log_silence", "wait") \/ LogWait
  <2>1. PICK from \in {"log_engine", "log_gateway", "log_consumer", "log_silence", "wait"}, to \in InCall :
          CallLog(from, to) /\ (from = "log_engine" <=> to = "start_engine")
    BY <1>2 DEF LogLine, LogWait, InCall
  <2> QED BY <2>1, CallLogKeeps
<1>3. CASE Starting /\ ~LogLine("log_engine", "start_engine") /\ ~LogLine("log_gateway", "start_gateway")
           /\ ~LogLine("log_consumer", "start_consumer")
  <2>1. /\ OutOfCall /\ ~fatal
        /\ UNCHANGED <<line, logged, caller, queue_, file_, writer, fatal, running_, closed>>
        /\ \/ main = "start_engine" /\ main' = "log_gateway"
           \/ main = "start_gateway" /\ main' = "log_consumer"
           \/ main = "start_consumer" /\ main' \in {"new", "wait"}
    BY <1>3 DEF Starting, StartEngine, StartProducer, GoOn, Logged, OutOfCall, main_vars, log_vars
  <2>2. CloseOK'
    BY <2>1 DEF LogInv, CloseOK
  <2> QED BY <2>1, <2>2, GoingOnKeeps
<1>4. CASE SendNew \/ SendCancel
  <2>1. /\ OutOfCall /\ ~fatal
        /\ UNCHANGED <<line, logged, caller, queue_, file_, writer, fatal, running_, closed>>
        /\ main \in {"new", "cancel"} /\ main' \in {"new", "cancel", "log_silence", "wait"}
    BY <1>4 DEF SendNew, SendCancel, GoOn, Logged, OutOfCall, main_vars, log_vars
  <2>2. CloseOK'
    BY <2>1 DEF LogInv, CloseOK
  <2> QED BY <2>1, <2>2, GoingOnKeeps
<1>5. CASE Stopping
  <2>1. /\ OutOfCall /\ ~fatal /\ main \in Late /\ main' \in Late
        /\ UNCHANGED <<line, logged, caller, queue_, file_, writer, fatal>>
    BY <1>5 DEF Stopping, CallStop, CheckResponses, CheckUpdates, ReportPositions, EndRun,
                StopProducer, Sleep, DeleteLogger, StopWriter, CloseFile, GoOn, Logged, OutOfCall,
                main_vars, log_vars, Late
  <2>2. \/ UNCHANGED <<running_, closed>> /\ main \notin {"join", "exited"}
           /\ (main = "delete_engine" => main' = "exited")
        \/ queue_ = << >> /\ closed' = closed /\ main = "delete_logger" /\ main' = "join"
        \/ ~running_ /\ running_' = running_ /\ main' = "delete_engine"
    BY <1>5 DEF Stopping, CallStop, CheckResponses, CheckUpdates, ReportPositions, EndRun,
                StopProducer, Sleep, DeleteLogger, StopWriter, CloseFile, GoOn, log_vars
  <2>3. CloseOK'
    <3>1. CASE UNCHANGED <<running_, closed>> /\ main \notin {"join", "exited"}
               /\ (main = "delete_engine" => main' = "exited")
      BY <2>1, <3>1 DEF LogInv, CloseOK
    <3>2. CASE queue_ = << >> /\ closed' = closed /\ main = "delete_logger" /\ main' = "join"
      BY <2>1, <3>2 DEF LogInv, CloseOK
    <3>3. CASE ~running_ /\ running_' = running_ /\ main' = "delete_engine"
      BY <2>1, <3>3 DEF LogInv, CloseOK
    <3> QED BY <2>2, <3>1, <3>2, <3>3
  <2> QED BY <2>1, <2>3, GoingOnKeeps DEF Late
<1> QED BY <1>1, <1>2, <1>3, <1>4, <1>5 DEF Main, Starting, Sending

LEMMA NextLogInv == LogInv /\ [Next]_vars => LogInv'
<1> SUFFICES ASSUME LogInv, [Next]_vars PROVE LogInv'
  OBVIOUS
<1>1. CASE Main
  BY <1>1, MainKeepsLog
<1>2. CASE WriteLog
  BY <1>2, FlushQueueKeeps DEF WriteLog, main_vars
<1>3. ASSUME UNCHANGED <<line, log_vars, main, logged>> PROVE LogInv'
  <2>1. UNCHANGED <<line, caller, queue_, file_, writer, running_, closed, fatal, main, logged>>
    BY <1>3 DEF log_vars
  <2>2. Pushed' = Pushed /\ (OutOfCall' <=> OutOfCall)
    BY <2>1 DEF Pushed, Unwritten, OutOfCall
  <2>3. \A i \in Nat : ReadUpTo(i) => ReadUpTo(i)'
    BY <2>1, <2>2 DEF ReadUpTo
  <2>4. LogTypes' /\ CloseOK'
    BY <2>1 DEF LogInv, LogTypes, CloseOK
  <2>5. CallOK'
    BY <2>1, <2>2, <2>3 DEF LogInv, CallOK
  <2> QED BY <2>1, <2>4, <2>5 DEF LogInv
<1>4. CASE EngineRun
  <2>1. UNCHANGED <<line, log_vars, main, logged>>
    BY <1>4 DEF EngineRun, NextQueue, HandleMessage, AdvanceReadIndex, main_vars
  <2> QED BY <1>3, <2>1
<1>5. ASSUME NEW q \in Queues, Arrive(q) PROVE LogInv'
  <2>1. UNCHANGED <<line, log_vars, main, logged>>
    BY <1>5 DEF Arrive, main_vars
  <2> QED BY <1>3, <2>1
<1>6. CASE UNCHANGED vars
  BY <1>3, <1>6 DEF vars, main_vars
<1> QED BY <1>1, <1>2, <1>4, <1>5, <1>6 DEF Next

\* For every format and every arguments: the file that ~Logger() closes has every line that
\* main() logged, whole and with its arguments in their places, whatever the turns of main() and
\* flushQueue(), and log() calls FATAL() only for arguments that do not fit.
THEOREM LogIsComplete == Spec => []LogComplete
<1>1. LogInv => LogComplete
  <2> SUFFICES ASSUME LogInv PROVE LogComplete
    OBVIOUS
  <2> DEFINE l == Line(line.s, line.args)
  <2>1. ASSUME closed PROVE file_ = logged \o l /\ ArgumentsFit(line.s, line.args)
    <3>1. queue_ = << >> /\ main \in {"join", "delete_engine", "exited"}
      BY <2>1 DEF LogInv, CloseOK
    <3>2. OutOfCall
      BY <3>1 DEF LogInv, CallOK, InCall
    <3>3. ArgumentsFit(line.s, line.args) /\ Pushed = logged \o l
      BY <3>1, <3>2, CallIsOver
    <3>5. Unwritten = << >> /\ file_ \in Seq(Elements)
      BY <3>1 DEF LogInv, LogTypes, Unwritten
    <3>6. Pushed = file_
      BY <3>5, ConcatEmptySeq DEF Pushed
    <3> QED BY <3>3, <3>6
  <2>2. fatal => ~ArgumentsFit(line.s, line.args)
    BY DEF LogInv
  <2> QED BY <2>1, <2>2 DEF LogComplete
<1> QED BY <1>1, InitLogInv, NextLogInv, PTL DEF Spec
=============================================================================
