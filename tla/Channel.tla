------------------------------ MODULE Channel ------------------------------
(***************************************************************************)
(* What a queue between two threads of the ecosystem promises: elements    *)
(* come out one at a time, in the order in which they were put in, each    *)
(* exactly once.  common/lf_queue.h says of its storage that it is         *)
(* "accessed in FIFO order" (line 52); module LFQueue is shown to          *)
(* implement this specification.                                           *)
(***************************************************************************)
EXTENDS Sequences

CONSTANTS Item,        \* what the queue carries
          None         \* before the first element was taken

VARIABLES queue,       \* elements published and not yet taken
          last         \* the element the consumer took last

Init == queue = <<>> /\ last = None

Put == \E i \in Item : queue' = Append(queue, i) /\ UNCHANGED last

Get == /\ queue # <<>>
       /\ last' = Head(queue)
       /\ queue' = Tail(queue)

Next == Put \/ Get

Spec == Init /\ [][Next]_<<queue, last>>
=============================================================================
