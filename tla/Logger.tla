------------------------------- MODULE Logger -------------------------------
(***************************************************************************)
(* Common::Logger: log() takes a format apart and pushes it, element by    *)
(* element, into a lock-free queue (a sequence here, see LFQueue); the     *)
(* logger's own thread, in flushQueue(), writes the elements to the file;  *)
(* the destructor ends that thread and closes the file.                    *)
(*                                                                         *)
(* A format is a sequence of "%" and of "c", which is any other character. *)
(* An argument is the sequence of the elements that pushValue() makes of   *)
(* it: one for a number, one per character for a string.                   *)
(*                                                                         *)
(* Operators whose comment starts with "Defect:" are variants of the       *)
(* definition that follows them, which some property must exclude.         *)
(***************************************************************************)
EXTENDS Integers, Sequences, SequencesExt

VARIABLES
  caller,      \* log() in its caller's thread: what is left of s, of args and of a value
  queue_,
  file_,       \* what was written to the file
  writer,      \* where flushQueue() is
  running_,
  closed,      \* the destructor has closed the file
  fatal        \* FATAL() has ended the process

log_vars == <<caller, queue_, file_, writer, running_, closed, fatal>>

LogInit ==
  /\ caller = [s |-> << >>, args |-> << >>, value |-> << >>]
  /\ queue_ = << >> /\ file_ = << >>
  /\ writer = "read" /\ running_ = TRUE
  /\ closed = FALSE /\ fatal = FALSE

-----------------------------------------------------------------------------
(* log(), in the thread that calls it. *)

\* The caller is out of log(), and can call it again.
Logged == caller.s = << >> /\ caller.args = << >> /\ caller.value = << >> /\ ~fatal

\* pushValue() of one element.
PushValue(element) == queue_' = Append(queue_, element)

\* The format goes on with an escaped %.
Escaped(s) == Len(s) > 1 /\ s[1] = "%" /\ s[2] = "%"

Placeholder(s) == s # << >> /\ s[1] = "%" /\ ~Escaped(s)

\* pushValue() of an argument, one of its elements after the other.
PushArgument ==
  /\ ~fatal /\ caller.value # << >>
  /\ PushValue(Head(caller.value))
  /\ caller' = [caller EXCEPT !.value = Tail(@)]
  /\ UNCHANGED <<file_, writer, running_, closed, fatal>>

\* A placeholder takes the next argument; log() calls itself for the rest.
TakeArgument ==
  /\ ~fatal /\ caller.value = << >> /\ Placeholder(caller.s) /\ caller.args # << >>
  /\ caller' = [s |-> Tail(caller.s), args |-> Tail(caller.args), value |-> Head(caller.args)]
  /\ UNCHANGED <<queue_, file_, writer, running_, closed, fatal>>

PushCharacter ==
  /\ ~fatal /\ caller.value = << >> /\ caller.s # << >> /\ ~Placeholder(caller.s)
  /\ PushValue(Head(caller.s))
  /\ caller' = [caller EXCEPT !.s = IF Escaped(@) THEN Tail(Tail(@)) ELSE Tail(@)]
  /\ UNCHANGED <<file_, writer, running_, closed, fatal>>

\* FATAL("missing arguments to log()") and FATAL("extra arguments provided to log()").
WrongArguments ==
  /\ ~fatal /\ caller.value = << >>
  /\ \/ Placeholder(caller.s) /\ caller.args = << >>
     \/ caller.s = << >> /\ caller.args # << >>
  /\ fatal' = TRUE
  /\ UNCHANGED <<caller, queue_, file_, writer, running_, closed>>

LogStep == PushArgument \/ TakeArgument \/ PushCharacter \/ WrongArguments

-----------------------------------------------------------------------------
(* flushQueue(), in the logger's thread. *)

WriteElement ==
  /\ ~fatal /\ writer = "read" /\ queue_ # << >>
  /\ file_' = Append(file_, Head(queue_))
  /\ writer' = "written"
  /\ UNCHANGED <<caller, queue_, running_, closed, fatal>>

UpdateReadIndex ==
  /\ ~fatal /\ writer = "written"
  /\ queue_' = Tail(queue_)
  /\ writer' = "read"
  /\ UNCHANGED <<caller, file_, running_, closed, fatal>>

\* Nothing more to read: flush, sleep, and look whether to go on.
FlushFile ==
  /\ ~fatal /\ writer = "read" /\ queue_ = << >>
  /\ writer' = "flushed"
  /\ UNCHANGED <<caller, queue_, file_, running_, closed, fatal>>

TestRunning ==
  /\ ~fatal /\ writer = "flushed"
  /\ writer' = IF running_ THEN "read" ELSE "left"
  /\ UNCHANGED <<caller, queue_, file_, running_, closed, fatal>>

FlushQueue == WriteElement \/ UpdateReadIndex \/ FlushFile \/ TestRunning

-----------------------------------------------------------------------------
(* ~Logger(), in the thread that deletes the logger. *)

\* Defect: the destructor does not wait for the queue.
StopWriterAtOnce ==
  /\ ~fatal
  /\ running_' = FALSE
  /\ UNCHANGED <<caller, queue_, file_, writer, closed, fatal>>

\* It waits until the queue is empty, and tells the thread to end.
StopWriter ==
  /\ ~fatal /\ queue_ = << >>
  /\ running_' = FALSE
  /\ UNCHANGED <<caller, queue_, file_, writer, closed, fatal>>

\* join() and close().
CloseFile ==
  /\ ~fatal /\ ~running_ /\ writer = "left"
  /\ closed' = TRUE
  /\ UNCHANGED <<caller, queue_, file_, writer, running_, fatal>>

-----------------------------------------------------------------------------
(* What a call of log() should write, told from the format as a whole. *)

\* The number of % without a break up to and with the i-th character.
PercentRun(s, i) == CHOOSE n \in 0 .. i :
  /\ \A k \in 1 .. i : k > i - n => s[k] = "%"
  /\ n < i => s[i - n] # "%"

\* In a run of % every second one is written; the last of an odd number is a placeholder,
\* the other odd ones are what escapes.
IsPlaceholder(s, i) == PercentRun(s, i) % 2 = 1 /\ (i = Len(s) \/ s[i + 1] # "%")
IsWritten(s, i) == PercentRun(s, i) % 2 = 0

Placeholders(s) == {i \in 1 .. Len(s) : IsPlaceholder(s, i)}

PlaceholdersUpTo(s, i) == {k \in Placeholders(s) : k <= i}

\* Whether the arguments are as many as the placeholders.
ArgumentsFit(s, args) == Cardinality(Placeholders(s)) = Len(args)

\* What the i-th character puts into the line, and what the first n do.
Part(s, args, i) ==
  IF IsPlaceholder(s, i) THEN args[Cardinality(PlaceholdersUpTo(s, i))]
  ELSE IF IsWritten(s, i) THEN <<s[i]>> ELSE << >>

Parts(s, args) ==
  LET parts[n \in 0 .. Len(s)] == IF n = 0 THEN << >> ELSE parts[n - 1] \o Part(s, args, n)
  IN  parts

Line(s, args) == Parts(s, args)[Len(s)]
=============================================================================
