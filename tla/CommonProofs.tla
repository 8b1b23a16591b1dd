---------------------------- MODULE CommonProofs ----------------------------
(***************************************************************************)
(* The two containers of src/common that every component is built on.      *)
(*                                                                         *)
(* LFQueue delivers in FIFO order for every size of ring, as long as one   *)
(* thread produces and the lead stays within the ring: N elements when the *)
(* consumer reads only before updateReadIndex(), N - 1 when it reads once  *)
(* more afterwards.                                                        *)
(*                                                                         *)
(* MemPool never hands out a block that is in use, for every size and any  *)
(* pattern of allocations.                                                 *)
(***************************************************************************)
EXTENDS LFQueue, MemPool, FiniteSetTheorems, FunctionTheorems, TLAPS

-----------------------------------------------------------------------------
(* LFQueue. *)

\* The index arithmetic of the ring for arguments below 2 * N.
Wrap(i) == IF i < N THEN i ELSE i - N

\* Elements whose slot next_write_index_ and next_read_index_ have passed.
PassedByWriter(p) == IF ppc[p] = "count" THEN published + 1 ELSE published
PassedByReader    == IF cpc = "release" THEN released + 1 ELSE released

\* How far each history counter is ahead of the next one.
CountsAgree(p) ==
  /\ written = IF ppc[p] \in {"load", "store", "count"} THEN published + 1 ELSE published
  /\ taken = IF cpc \in {"advance", "release"} THEN released + 1 ELSE released
  /\ num_elements_ = published - released
  /\ released <= published
  /\ cpc \in {"use", "advance", "release"} => released < published

\* The traffic assumption, between two calls of getNextToWriteTo().
LeadIsBounded(p) ==
  /\ written - released <= MaxLead
  /\ ppc[p] = "fill" => written - released < MaxLead /\ written < MaxWrites

\* Where the two indices and the two threads' pointers stand, relative to
\* next_read_index_.
IndicesAgree(p) ==
  /\ next_write_index_ = Wrap(next_read_index_ + (PassedByWriter(p) - PassedByReader))
  /\ ppc[p] \in {"fill", "load", "store"} => wslot[p] = next_write_index_
  /\ ppc[p] = "store" => wload[p] = next_write_index_
  /\ cpc \in {"use", "advance"} => rslot = next_read_index_
  /\ cpc \in {"release", "reuse"} => rslot = Wrap(next_read_index_ + (N - 1))
  /\ cpc = "reuse" => ReadAfterRelease

\* Every element filled in and not yet passed by the reader is in its slot,
\* and so is the one the consumer still holds.
SlotsHoldElements ==
  /\ \A j \in Slots : j < written - PassedByReader =>
        store_[Wrap(next_read_index_ + j)] = PassedByReader + 1 + j
  /\ cpc \in {"release", "reuse"} => store_[rslot] = taken

Inv(p) == /\ TypeOK
          /\ CountsAgree(p)
          /\ LeadIsBounded(p)
          /\ IndicesAgree(p)
          /\ SlotsHoldElements
          /\ FIFO

-----------------------------------------------------------------------------
\* (i + 1) % size is a wrap when i is an index of the ring.
LEMMA NextIndex == \A i \in Slots : (i + 1) % N = Wrap(i + 1) /\ Wrap(i + 1) \in Slots
BY SizeAssumption, SMT DEF Slots, Wrap

\* Distances from the next index are one less than from this one.
LEMMA WrapStep ==
  \A i \in Slots, d \in 1 .. N : Wrap(Wrap(i + 1) + (d - 1)) = Wrap(i + d)
BY SizeAssumption, SMT DEF Slots, Wrap

\* N - 1 steps on from the next index is this one.
LEMMA WrapBack == \A i \in Slots : Wrap(Wrap(i + 1) + (N - 1)) = i
BY SizeAssumption, SMT DEF Slots, Wrap

\* What the theorems assume of the traffic: one producer thread, whose lead
\* never exceeds the slots that the consumer does not look at any more.
SingleProducer(p) == Producers = {p}
LeadFits == MaxLead <= IF ReadAfterRelease THEN N - 1 ELSE N

LEMMA InitInv == ASSUME NEW p, SingleProducer(p), Init PROVE Inv(p)
<1> USE SizeAssumption, BoundsAssumption
<1>1. TypeOK
  BY DEF Init, TypeOK, Slots
<1>2. CountsAgree(p) /\ LeadIsBounded(p) /\ SlotsHoldElements /\ FIFO
  BY DEF Init, SingleProducer, CountsAgree, LeadIsBounded, SlotsHoldElements, PassedByReader, FIFO, Slots
<1>3. IndicesAgree(p)
  BY DEF Init, SingleProducer, IndicesAgree, PassedByWriter, PassedByReader, Wrap
<1> QED BY <1>1, <1>2, <1>3 DEF Inv

LEMMA NextInv ==
  ASSUME NEW p, SingleProducer(p), LeadFits, Inv(p), [Next]_vars PROVE Inv(p)'
<1> USE SizeAssumption, BoundsAssumption, ModeAssumption DEF SingleProducer, Inv
<1>1. CASE GetNextToWriteTo(p)
  <2>1. written < MaxWrites /\ written - released < MaxLead
    <3>1. {q \in Producers : ppc[q] = "fill"} = {}
      BY <1>1 DEF GetNextToWriteTo
    <3>2. Cardinality({q \in Producers : ppc[q] = "fill"}) = 0
      BY <3>1, FS_EmptySet, Zenon
    <3> QED BY <3>2, <1>1 DEF GetNextToWriteTo, TypeOK
  <2>2. TypeOK'
    BY <1>1 DEF GetNextToWriteTo, TypeOK, ring, consumer, history
  <2>3. CountsAgree(p)' /\ LeadIsBounded(p)' /\ SlotsHoldElements' /\ FIFO'
    BY <1>1, <2>1 DEF GetNextToWriteTo, TypeOK, ring, consumer, history, CountsAgree, LeadIsBounded, SlotsHoldElements, PassedByReader, FIFO
  <2>4. IndicesAgree(p)'
    BY <1>1 DEF GetNextToWriteTo, TypeOK, ring, consumer, history, IndicesAgree, PassedByWriter, PassedByReader
  <2> QED BY <2>2, <2>3, <2>4
<1>2. CASE FillSlot(p)
  <2>1. TypeOK'
    BY <1>2 DEF FillSlot, TypeOK, consumer, LeadIsBounded
  <2>2. CountsAgree(p)' /\ LeadIsBounded(p)' /\ FIFO'
    BY <1>2 DEF FillSlot, TypeOK, consumer, CountsAgree, LeadIsBounded, FIFO
  <2>3. IndicesAgree(p)'
    BY <1>2 DEF FillSlot, TypeOK, consumer, IndicesAgree, PassedByWriter, PassedByReader
  <2>4. SlotsHoldElements'
    <3>1. /\ PassedByReader' = PassedByReader /\ PassedByWriter(p) = written
          /\ written' = written + 1 /\ next_read_index_' = next_read_index_
      BY <1>2 DEF FillSlot, consumer, TypeOK, CountsAgree, PassedByReader, PassedByWriter
    <3>2. PassedByReader \in released .. written /\ written - released < N
      BY <1>2 DEF FillSlot, TypeOK, CountsAgree, LeadIsBounded, LeadFits, PassedByReader
    <3>3. wslot[p] = Wrap(next_read_index_ + (written - PassedByReader))
      BY <1>2, <3>1 DEF FillSlot, IndicesAgree
    <3>4. \A i \in Slots : store_'[i] = IF i = wslot[p] THEN written + 1 ELSE store_[i]
      BY <1>2 DEF FillSlot, TypeOK
    <3>5. ASSUME NEW j \in Slots, j < written + 1 - PassedByReader
          PROVE  store_'[Wrap(next_read_index_ + j)] = PassedByReader + 1 + j
      <4>1. Wrap(next_read_index_ + j) \in Slots
        BY DEF TypeOK, Wrap, Slots
      <4>2. CASE j = written - PassedByReader
        <5>1. Wrap(next_read_index_ + j) = wslot[p] /\ written + 1 = PassedByReader + 1 + j
          BY <4>2, <3>3, <3>2 DEF TypeOK, Slots
        <5> QED BY <5>1, <4>1, <3>4
      <4>3. CASE j < written - PassedByReader
        <5>1. Wrap(next_read_index_ + j) # wslot[p]
          BY <4>3, <3>2, <3>3 DEF TypeOK, Wrap, Slots
        <5> QED BY <5>1, <4>1, <4>3, <3>4 DEF SlotsHoldElements
      <4> QED BY <4>2, <4>3, <3>5, <3>2 DEF TypeOK, Slots
    <3>6. ASSUME cpc \in {"release", "reuse"} PROVE store_'[rslot] = taken
      <4>1. rslot # wslot[p]
        BY <1>2, <3>6, <3>2, <3>3, SMTT(30) DEF FillSlot, TypeOK, IndicesAgree, LeadIsBounded, LeadFits, PassedByReader, Wrap, Slots
      <4> QED BY <4>1, <3>4, <3>6 DEF SlotsHoldElements, TypeOK
    <3>7. \A j \in Slots : j < written' - PassedByReader' =>
            store_'[Wrap(next_read_index_' + j)] = PassedByReader' + 1 + j
      <4> SUFFICES ASSUME NEW j \in Slots, j < written' - PassedByReader'
                   PROVE  store_'[Wrap(next_read_index_' + j)] = PassedByReader' + 1 + j
        OBVIOUS
      <4>1. j < written + 1 - PassedByReader
        BY <3>1, <3>2 DEF TypeOK, Slots
      <4>2. store_'[Wrap(next_read_index_ + j)] = PassedByReader + 1 + j
        BY <4>1, <3>5
      <4> QED BY <3>1, <4>2, Zenon
    <3>8. cpc' \in {"release", "reuse"} => store_'[rslot'] = taken'
      BY <1>2, <3>6 DEF FillSlot, consumer
    <3> QED BY <3>7, <3>8 DEF SlotsHoldElements, Wrap, Slots
  <2> QED BY <2>1, <2>2, <2>3, <2>4
<1>3. CASE LoadWriteIndex(p)
  BY <1>3 DEF LoadWriteIndex, TypeOK, ring, consumer, history, CountsAgree, LeadIsBounded, IndicesAgree, SlotsHoldElements, PassedByWriter, PassedByReader, FIFO
<1>4. CASE StoreWriteIndex(p)
  <2>1. next_write_index_' = Wrap(next_write_index_ + 1) /\ next_write_index_' \in Slots
    BY <1>4, NextIndex DEF StoreWriteIndex, TypeOK, IndicesAgree
  <2>2. TypeOK'
    BY <1>4, <2>1 DEF StoreWriteIndex, TypeOK, consumer, history
  <2>3. CountsAgree(p)' /\ LeadIsBounded(p)' /\ FIFO' /\ SlotsHoldElements'
    BY <1>4 DEF StoreWriteIndex, TypeOK, consumer, history, CountsAgree, LeadIsBounded, SlotsHoldElements, PassedByReader, FIFO
  <2>4. IndicesAgree(p)'
    BY <1>4, <2>1, SMTT(60) DEF StoreWriteIndex, TypeOK, consumer, history, CountsAgree, LeadIsBounded, LeadFits, IndicesAgree, PassedByWriter, PassedByReader, Wrap, Slots
  <2> QED BY <2>2, <2>3, <2>4
<1>5. CASE CountElement(p)
  <2>1. TypeOK'
    BY <1>5 DEF CountElement, TypeOK, consumer, CountsAgree
  <2>2. CountsAgree(p)' /\ LeadIsBounded(p)' /\ FIFO' /\ SlotsHoldElements'
    BY <1>5 DEF CountElement, TypeOK, consumer, CountsAgree, LeadIsBounded, SlotsHoldElements, PassedByReader, FIFO
  <2>3. IndicesAgree(p)'
    BY <1>5 DEF CountElement, TypeOK, consumer, IndicesAgree, PassedByWriter, PassedByReader
  <2> QED BY <2>1, <2>2, <2>3
<1>6. CASE GetNextToRead
  BY <1>6 DEF GetNextToRead, TypeOK, ring, producer, history, CountsAgree, LeadIsBounded, IndicesAgree, SlotsHoldElements, PassedByWriter, PassedByReader, FIFO
<1>7. CASE UseElement
  <2>1. store_[rslot] = released + 1
    <3>1. 0 \in Slots /\ 0 < written - PassedByReader /\ Wrap(next_read_index_ + 0) = rslot
      BY <1>7 DEF UseElement, TypeOK, CountsAgree, IndicesAgree, PassedByReader, Wrap, Slots
    <3> QED BY <3>1, <1>7 DEF UseElement, TypeOK, SlotsHoldElements, PassedByReader
  <2>2. TypeOK'
    BY <1>7, <2>1 DEF UseElement, TypeOK, ring, producer, CountsAgree
  <2>3. CountsAgree(p)' /\ LeadIsBounded(p)' /\ FIFO' /\ SlotsHoldElements'
    BY <1>7, <2>1 DEF UseElement, TypeOK, ring, producer, CountsAgree, LeadIsBounded, SlotsHoldElements, PassedByReader, FIFO
  <2>4. IndicesAgree(p)'
    BY <1>7 DEF UseElement, TypeOK, ring, producer, IndicesAgree, PassedByWriter, PassedByReader
  <2> QED BY <2>2, <2>3, <2>4
<1>8. CASE AdvanceReadIndex
  <2>1. next_read_index_' = Wrap(next_read_index_ + 1) /\ next_read_index_' \in Slots
    BY <1>8, NextIndex DEF AdvanceReadIndex, TypeOK
  <2>2. TypeOK'
    BY <1>8, <2>1 DEF AdvanceReadIndex, TypeOK, producer, history
  <2>3. CountsAgree(p)' /\ LeadIsBounded(p)' /\ FIFO'
    BY <1>8 DEF AdvanceReadIndex, TypeOK, producer, history, CountsAgree, LeadIsBounded, FIFO
  <2>4. IndicesAgree(p)'
    <3>0. PassedByWriter(p)' = PassedByWriter(p)
      BY <1>8 DEF AdvanceReadIndex, producer, history, PassedByWriter
    <3>1. PassedByWriter(p) \in released + 1 .. released + N
      BY <1>8 DEF AdvanceReadIndex, TypeOK, producer, history, CountsAgree, LeadIsBounded, LeadFits, PassedByWriter
    <3>2. PassedByReader = released /\ PassedByReader' = released + 1
      BY <1>8 DEF AdvanceReadIndex, history, PassedByReader
    <3>3. next_write_index_ = Wrap(next_read_index_ + (PassedByWriter(p) - released))
      BY <3>2 DEF IndicesAgree
    <3>4. next_write_index_ = Wrap(next_read_index_' + (PassedByWriter(p) - (released + 1)))
      <4> DEFINE d == PassedByWriter(p) - released
      <4>1. d \in 1 .. N /\ PassedByWriter(p) - (released + 1) = d - 1
        BY <3>1 DEF TypeOK
      <4>2. next_write_index_ = Wrap(next_read_index_ + d)
        BY <3>3
      <4> HIDE DEF d
      <4> QED BY <4>1, <4>2, <2>1, WrapStep DEF TypeOK
    <3>5. rslot = Wrap(next_read_index_' + (N - 1))
      BY <1>8, <2>1, WrapBack DEF AdvanceReadIndex, TypeOK, IndicesAgree
    <3> QED BY <1>8, <3>0, <3>2, <3>4, <3>5 DEF AdvanceReadIndex, TypeOK, producer, IndicesAgree
  <2>5. SlotsHoldElements'
    <3>1. store_[rslot] = taken
      <4>1. 0 \in Slots /\ 0 < written - PassedByReader /\ Wrap(next_read_index_ + 0) = rslot
        BY <1>8 DEF AdvanceReadIndex, TypeOK, CountsAgree, IndicesAgree, PassedByReader, Wrap, Slots
      <4> QED BY <4>1, <1>8 DEF AdvanceReadIndex, TypeOK, CountsAgree, SlotsHoldElements, PassedByReader
    <3>2. ASSUME NEW j \in Slots, j < written - PassedByReader'
          PROVE  store_[Wrap(next_read_index_' + j)] = PassedByReader' + 1 + j
      <4>1. PassedByReader = released /\ PassedByReader' = released + 1
        BY <1>8 DEF AdvanceReadIndex, history, PassedByReader
      <4>2. j + 1 \in Slots /\ j + 1 < written - PassedByReader
        BY <3>2, <4>1 DEF TypeOK, LeadIsBounded, LeadFits, Slots
      <4>3. Wrap(next_read_index_' + j) = Wrap(next_read_index_ + (j + 1))
        BY <2>1, <4>2 DEF TypeOK, Wrap, Slots
      <4>4. store_[Wrap(next_read_index_ + (j + 1))] = PassedByReader + 1 + (j + 1)
        BY <4>2 DEF SlotsHoldElements
      <4> QED BY <4>1, <4>3, <4>4 DEF TypeOK, Slots
    <3> QED BY <3>1, <3>2, <1>8 DEF AdvanceReadIndex, producer, history, SlotsHoldElements
  <2> QED BY <2>2, <2>3, <2>4, <2>5
<1>9. CASE ReleaseElement
  <2>1. TypeOK'
    BY <1>9 DEF ReleaseElement, TypeOK, producer, CountsAgree
  <2>2. CountsAgree(p)' /\ LeadIsBounded(p)' /\ FIFO' /\ SlotsHoldElements'
    BY <1>9 DEF ReleaseElement, TypeOK, producer, CountsAgree, LeadIsBounded, SlotsHoldElements, PassedByReader, FIFO
  <2>3. IndicesAgree(p)'
    BY <1>9 DEF ReleaseElement, TypeOK, producer, IndicesAgree, PassedByWriter, PassedByReader
  <2> QED BY <2>1, <2>2, <2>3
<1>10. CASE ReuseElement
  BY <1>10 DEF ReuseElement, TypeOK, ring, producer, history, CountsAgree, LeadIsBounded, IndicesAgree, SlotsHoldElements, PassedByWriter, PassedByReader, FIFO
<1>11. CASE UNCHANGED vars
  BY <1>11 DEF vars, ring, producer, consumer, history, TypeOK, CountsAgree, LeadIsBounded, IndicesAgree, SlotsHoldElements, PassedByWriter, PassedByReader, FIFO
<1> QED BY <1>1, <1>2, <1>3, <1>4, <1>5, <1>6, <1>7, <1>8, <1>9, <1>10, <1>11 DEF Next, Produce, Consume

-----------------------------------------------------------------------------
\* The thread interleavings never take the indices, the counter or the
\* pointers of LFQueue out of their types.
THEOREM TypeCorrect ==
  ASSUME NEW p, SingleProducer(p), LeadFits PROVE Spec => []TypeOK
<1>1. Init => Inv(p)
  BY InitInv
<1>2. Inv(p) /\ [Next]_vars => Inv(p)'
  BY NextInv
<1>3. Inv(p) => TypeOK
  BY DEF Inv
<1> QED BY <1>1, <1>2, <1>3, PTL DEF Spec

\* lf_queue.h:52, for a ring of any size: with one producer whose lead fits the
\* ring, the n-th element read is the n-th written.
THEOREM DeliversInOrder ==
  ASSUME NEW p, SingleProducer(p), LeadFits PROVE Spec => []FIFO
<1>1. Init => Inv(p)
  BY InitInv
<1>2. Inv(p) /\ [Next]_vars => Inv(p)'
  BY NextInv
<1>3. Inv(p) => FIFO
  BY DEF Inv
<1> QED BY <1>1, <1>2, <1>3, PTL DEF Spec

\* The ASSERT of updateReadIndex() (lf_queue.h:32) never fires.
THEOREM ReadsAreValid ==
  ASSUME NEW p, SingleProducer(p), LeadFits PROVE Spec => []ReadIsValid
<1>1. Init => Inv(p)
  BY InitInv
<1>2. Inv(p) /\ [Next]_vars => Inv(p)'
  BY NextInv
<1>3. Inv(p) => ReadIsValid
  BY DEF Inv, TypeOK, CountsAgree, ReadIsValid
<1> QED BY <1>1, <1>2, <1>3, PTL DEF Spec

-----------------------------------------------------------------------------
(* The ring implements the channel. *)

\* The elements after the t-th, up to the n-th.
Elements(t, n) == [i \in 1 .. (n - t) |-> t + i]

LEMMA ElementsPut ==
  ASSUME NEW t \in Nat, NEW n \in Nat, t <= n
  PROVE  Elements(t, n + 1) = Append(Elements(t, n), n + 1)
<1>1. Elements(t, n) \in Seq(Int) /\ Len(Elements(t, n)) = n - t
  BY DEF Elements
<1>2. Append(Elements(t, n), n + 1) = [i \in 1 .. (n - t + 1) |-> IF i = n - t + 1 THEN n + 1 ELSE t + i]
  BY <1>1 DEF Elements
<1> QED BY <1>2 DEF Elements

LEMMA ElementsGet ==
  ASSUME NEW t \in Nat, NEW n \in Nat, t < n
  PROVE  /\ Elements(t, n) # << >> /\ Head(Elements(t, n)) = t + 1
         /\ Tail(Elements(t, n)) = Elements(t + 1, n)
<1>1. Elements(t, n) \in Seq(Int) /\ Len(Elements(t, n)) = n - t
  BY DEF Elements
<1>2. Elements(t, n) # << >> /\ Head(Elements(t, n)) = t + 1
  BY <1>1 DEF Elements
<1>3. Tail(Elements(t, n)) = [i \in 1 .. (n - t - 1) |-> t + (i + 1)]
  BY <1>1 DEF Elements
<1>4. n - (t + 1) = n - t - 1 /\ \A i \in 1 .. (n - t - 1) : t + (i + 1) = t + 1 + i
  OBVIOUS
<1>5. [i \in 1 .. (n - t - 1) |-> t + (i + 1)] = [i \in 1 .. (n - (t + 1)) |-> t + 1 + i]
  BY <1>4
<1> QED BY <1>2, <1>3, <1>5 DEF Elements

LEMMA IndexWraps ==
  \A i \in Slots, j \in 0 .. N : (i + j) % N = Wrap(i + j)
BY SizeAssumption, SMT DEF Slots, Wrap

\* What lies between the indices are the elements published and not taken.
ContentsOK == Contents = Elements(taken, published)

LEMMA ContentsAre ==
  ASSUME NEW p, SingleProducer(p), LeadFits, Inv(p) PROVE ContentsOK
<1> DEFINE first == IF cpc = "advance" THEN next_read_index_ + 1 ELSE next_read_index_
<1> USE SizeAssumption, BoundsAssumption, ModeAssumption
<1>1. ASSUME NEW i \in 1 .. (published - taken) PROVE store_[(first + i - 1) % N] = taken + i
  <2>1. published <= written /\ written - released <= N /\ next_read_index_ \in Slots
    BY DEF Inv, TypeOK, CountsAgree, LeadIsBounded, LeadFits
  <2>2. CASE cpc = "advance"
    <3>1. i \in Slots /\ i < written - PassedByReader /\ PassedByReader + 1 + i = taken + i
      BY <2>1, <2>2 DEF Inv, TypeOK, CountsAgree, PassedByReader, Slots
    <3>2. first + i - 1 = next_read_index_ + i
      BY <2>1, <2>2 DEF Slots
    <3>3. (next_read_index_ + i) % N = Wrap(next_read_index_ + i)
      BY <2>1, <3>1, IndexWraps DEF Slots
    <3>4. store_[Wrap(next_read_index_ + i)] = PassedByReader + 1 + i
      BY <3>1 DEF Inv, SlotsHoldElements
    <3> QED BY <3>1, <3>2, <3>3, <3>4
  <2>3. CASE cpc # "advance"
    <3> DEFINE j == i - 1
    <3>1. j \in Slots /\ j < written - PassedByReader /\ PassedByReader + 1 + j = taken + i
      BY <2>1, <2>3 DEF Inv, TypeOK, CountsAgree, PassedByReader, Slots
    <3>2. first + i - 1 = next_read_index_ + j
      BY <2>1, <2>3 DEF Slots
    <3> HIDE DEF j, first
    <3>3. (next_read_index_ + j) % N = Wrap(next_read_index_ + j)
      BY <2>1, <3>1, IndexWraps DEF Slots
    <3>4. store_[Wrap(next_read_index_ + j)] = PassedByReader + 1 + j
      BY <3>1 DEF Inv, SlotsHoldElements
    <3> QED BY <3>1, <3>2, <3>3, <3>4
  <2> QED BY <2>2, <2>3
<1> QED BY <1>1 DEF ContentsOK, Contents, Elements

\* Publication puts an element in, the consumer's read takes one out, and every other
\* step leaves the channel alone.
LEMMA StepImplements ==
  ASSUME NEW p, SingleProducer(p), Inv(p), Inv(p)', ContentsOK, ContentsOK', [Next]_vars
  PROVE  [Abstract!Next]_<<Contents, got>>
<1>1. /\ got = taken /\ got' = taken' /\ taken \in Nat /\ published \in Nat /\ taken <= published
      /\ Contents = Elements(taken, published) /\ Contents' = Elements(taken', published')
  BY DEF Inv, FIFO, TypeOK, CountsAgree, ContentsOK, Elements
<1>2. CASE CountElement(p)
  <2>1. published' = published + 1 /\ UNCHANGED taken /\ UNCHANGED got
    BY <1>2 DEF CountElement, consumer
  <2>2. Contents' = Append(Contents, published + 1)
    BY <2>1, <1>1, ElementsPut
  <2>3. published + 1 \in 1 .. MaxWrites
    BY <2>1, <1>1 DEF Inv, TypeOK
  <2> QED BY <2>1, <2>2, <2>3 DEF Abstract!Next, Abstract!Put
<1>3. CASE UseElement
  <2>1. taken' = taken + 1 /\ UNCHANGED published
    BY <1>3 DEF UseElement
  <2>2. taken < published
    BY <1>1, <1>3 DEF UseElement, Inv, CountsAgree
  <2>3. Contents # << >> /\ got' = Head(Contents) /\ Contents' = Tail(Contents)
    BY <2>1, <2>2, <1>1, ElementsGet
  <2> QED BY <2>3 DEF Abstract!Next, Abstract!Get
<1>4. CASE UNCHANGED taken /\ UNCHANGED published
  BY <1>1, <1>4
<1>5. \/ CountElement(p) \/ UseElement \/ (UNCHANGED taken /\ UNCHANGED published)
  <2>1. (\E q \in Producers : Produce(q)) => Produce(p)
    BY DEF SingleProducer
  <2>2. ASSUME Produce(p) PROVE CountElement(p) \/ (UNCHANGED taken /\ UNCHANGED published)
    <3>1. CASE GetNextToWriteTo(p)
      BY <3>1 DEF GetNextToWriteTo, history
    <3>2. CASE FillSlot(p)
      BY <3>2 DEF FillSlot, history
    <3>3. CASE LoadWriteIndex(p)
      BY <3>3 DEF LoadWriteIndex, history
    <3>4. CASE StoreWriteIndex(p)
      BY <3>4 DEF StoreWriteIndex, history
    <3> QED BY <2>2, <3>1, <3>2, <3>3, <3>4 DEF Produce
  <2>3. ASSUME Consume PROVE UseElement \/ (UNCHANGED taken /\ UNCHANGED published)
    <3>1. CASE GetNextToRead
      BY <3>1 DEF GetNextToRead, history
    <3>2. CASE AdvanceReadIndex
      BY <3>2 DEF AdvanceReadIndex, history
    <3>3. CASE ReleaseElement
      BY <3>3 DEF ReleaseElement, history
    <3>4. CASE ReuseElement
      BY <3>4 DEF ReuseElement, history
    <3> QED BY <2>3, <3>1, <3>2, <3>3, <3>4 DEF Consume
  <2>4. UNCHANGED vars => UNCHANGED taken /\ UNCHANGED published
    BY DEF vars, history
  <2> QED BY <2>1, <2>2, <2>3, <2>4 DEF Next
<1> QED BY <1>2, <1>3, <1>4, <1>5

\* The ring of any size is a FIFO channel (lf_queue.h:52): with one producer whose lead fits
\* the ring, each step of the two threads is a Put, a Get or nothing to an observer.
THEOREM RingImplementsChannel ==
  ASSUME NEW p, SingleProducer(p), LeadFits PROVE Spec => ImplementsChannel
<1>1. Init => Inv(p)
  BY InitInv
<1>2. Inv(p) /\ [Next]_vars => Inv(p)'
  BY NextInv
<1>3. Inv(p) => ContentsOK
  BY ContentsAre
<1>4. Init => Abstract!Init
  <2>1. Init => Contents = << >>
    BY DEF Init, Contents
  <2> QED BY <2>1 DEF Init, Abstract!Init
<1>5. Inv(p) /\ Inv(p)' /\ ContentsOK /\ ContentsOK' /\ [Next]_vars => [Abstract!Next]_<<Contents, got>>
  BY StepImplements
<1> QED BY <1>1, <1>2, <1>3, <1>4, <1>5, PTL DEF Spec, ImplementsChannel, Abstract!Spec

-----------------------------------------------------------------------------
(* MemPool. *)

\* A block is marked in use exactly when an object lives in it.
MarksAgree == ~exited => \A i \in Store : is_free_[i] <=> \A o \in Objects : block[o] # i

PoolInv == /\ PoolTypeOK
       /\ BlockIsFree
       /\ Exclusive
       /\ MarksAgree

LEMMA NoBlockIsOutside == NoBlock \notin Store /\ \A i \in Store : i # NoBlock
BY PoolAssumption, NoBlockAssumption DEF Store

LEMMA InitPool == PoolInit => PoolInv
<1> SUFFICES ASSUME PoolInit PROVE PoolInv
  OBVIOUS
<1>1. PoolTypeOK
  <2>1. is_free_ \in [Store -> BOOLEAN] /\ block \in [Objects -> Store \cup {NoBlock}]
    BY Zenon DEF PoolInit
  <2>2. next_free_index_ \in Store
    BY PoolAssumption, SMT DEF PoolInit, Store
  <2>3. exited \in BOOLEAN
    BY Zenon DEF PoolInit
  <2> QED BY <2>1, <2>2, <2>3, Zenon DEF PoolTypeOK
<1>2. Held = {}
  BY Zenon DEF PoolInit, Held
<1>3. 0 \in Store
  BY PoolAssumption DEF Store
<1> QED BY <1>1, <1>2, <1>3, NoBlockIsOutside DEF PoolInit, PoolInv, BlockIsFree, Exclusive, MarksAgree

LEMMA NextPool == PoolInv /\ [PoolNext]_pool_vars => PoolInv'
<1> SUFFICES ASSUME PoolInv, [PoolNext]_pool_vars PROVE PoolInv'
  OBVIOUS
<1> USE PoolAssumption, NoBlockAssumption DEF PoolInv
<1>1. ASSUME NEW o \in Objects, Allocate(o) PROVE PoolInv'
  <2> DEFINE free == [is_free_ EXCEPT ![next_free_index_] = FALSE]
  <2>1. free \in [Store -> BOOLEAN] /\ is_free_' = free
    BY <1>1 DEF Allocate, PoolTypeOK
  <2>2. \/ exited' = FALSE /\ next_free_index_' \in Store /\ free[next_free_index_']
        \/ exited' = TRUE /\ next_free_index_' = next_free_index_
    <3>1. ASSUME NEW d \in 1 .. (PoolSize - 1), next_free_index_' = (next_free_index_ + d) % PoolSize
          PROVE  next_free_index_' \in Store
      BY <3>1, SMT DEF PoolTypeOK, Store
    <3> QED BY <3>1, <1>1 DEF Allocate, UpdateNextFreeIndex
  <2>3. CASE exited' = TRUE
    <3>1. block' = block
      BY <1>1, <2>3 DEF Allocate
    <3> QED BY <3>1, <2>1, <2>2, <2>3 DEF PoolTypeOK, BlockIsFree, Exclusive, MarksAgree, Held
  <2>4. CASE exited' = FALSE
    <3>1. block' = [block EXCEPT ![o] = next_free_index_]
      BY <1>1, <2>4 DEF Allocate
    <3>2. next_free_index_' \in Store /\ is_free_'[next_free_index_']
      BY <2>1, <2>2, <2>4
    <3>3. PoolTypeOK'
      BY <3>1, <3>2, <2>1, <2>4 DEF PoolTypeOK
    <3>4. /\ ~exited /\ block[o] = NoBlock /\ is_free_[next_free_index_]
          /\ \A q \in Objects : block[q] # next_free_index_
      BY <1>1 DEF Allocate, PoolTypeOK, MarksAgree
    <3>5. Exclusive'
      BY <3>1, <3>4 DEF Exclusive, Held, PoolTypeOK
    <3>6. BlockIsFree'
      <4> SUFFICES ASSUME NEW q \in Objects, block'[q] # NoBlock PROVE ~is_free_'[block'[q]]
        BY <3>2 DEF BlockIsFree, Held
      <4>1. CASE q = o
        BY <4>1, <3>1, <2>1 DEF PoolTypeOK
      <4>2. CASE q # o
        <5>1. block'[q] = block[q] /\ block[q] \in Store /\ block[q] # next_free_index_
          BY <4>2, <3>1, <3>4 DEF PoolTypeOK
        <5>2. ~is_free_[block[q]]
          BY <5>1, <3>4 DEF BlockIsFree, Held, PoolTypeOK, Store
        <5> QED BY <5>1, <5>2, <2>1 DEF PoolTypeOK
      <4> QED BY <4>1, <4>2
    <3>7. MarksAgree'
      <4> SUFFICES ASSUME NEW i \in Store
                   PROVE  is_free_'[i] <=> \A q \in Objects : block'[q] # i
        BY DEF MarksAgree, Store
      <4>1. CASE i = next_free_index_
        BY <4>1, <3>1, <2>1 DEF PoolTypeOK
      <4>2. CASE i # next_free_index_
        <5>1. is_free_'[i] = is_free_[i]
          BY <4>2, <2>1 DEF PoolTypeOK
        <5>2. ASSUME NEW q \in Objects PROVE block'[q] = i <=> block[q] = i
          <6>1. CASE q = o
            BY <6>1, <4>2, <3>1, <3>4, NoBlockIsOutside DEF PoolTypeOK
          <6>2. CASE q # o
            BY <6>2, <3>1 DEF PoolTypeOK
          <6> QED BY <6>1, <6>2
        <5>3. is_free_[i] <=> \A q \in Objects : block[q] # i
          BY <3>4 DEF MarksAgree
        <5> QED BY <5>1, <5>2, <5>3, Zenon
      <4> QED BY <4>1, <4>2
    <3> QED BY <3>3, <3>5, <3>6, <3>7
  <2> QED BY <2>3, <2>4, <2>2, Zenon
<1>2. ASSUME NEW o \in Objects, Deallocate(o) PROVE PoolInv'
  <2>1. block[o] \in Store /\ exited = FALSE /\ exited' = FALSE
    BY <1>2 DEF Deallocate, PoolTypeOK
  <2>2. PoolTypeOK'
    BY <1>2, <2>1 DEF Deallocate, PoolTypeOK
  <2>3. Exclusive'
    BY <1>2 DEF Deallocate, Exclusive, Held, PoolTypeOK
  <2>4. MarksAgree'
    <3> SUFFICES ASSUME NEW i \in Store
                 PROVE  is_free_'[i] <=> \A q \in Objects : block'[q] # i
      BY DEF MarksAgree, Store
    <3>1. CASE i = block[o]
      BY <3>1, <1>2, <2>1 DEF Deallocate, Exclusive, Held, PoolTypeOK, Store
    <3>2. CASE i # block[o]
      <4>1. is_free_'[i] = is_free_[i]
        BY <3>2, <1>2 DEF Deallocate, PoolTypeOK
      <4>2. \A q \in Objects : block'[q] = i <=> block[q] = i
        BY <3>2, <1>2 DEF Deallocate, PoolTypeOK, Store
      <4> QED BY <4>1, <4>2, <2>1 DEF MarksAgree
    <3> QED BY <3>1, <3>2
  <2>5. BlockIsFree'
    <3>1. is_free_'[next_free_index_']
      BY <1>2, <2>1 DEF Deallocate, BlockIsFree, PoolTypeOK
    <3>2. \A q \in Held' : ~is_free_'[block'[q]]
      BY <2>1, <2>2, <2>4 DEF MarksAgree, Held, PoolTypeOK
    <3> QED BY <3>1, <3>2 DEF BlockIsFree
  <2> QED BY <2>2, <2>3, <2>4, <2>5
<1>3. CASE UNCHANGED pool_vars
  BY <1>3 DEF pool_vars, PoolTypeOK, BlockIsFree, Exclusive, MarksAgree, Held
<1> QED BY <1>1, <1>2, <1>3 DEF PoolNext

\* No two orders, and no two price levels, ever share a block of their pool
\* (mem_pool.h:20-39).
THEOREM NeverShared == PoolSpec => []Exclusive
<1>1. PoolInv => Exclusive
  BY DEF PoolInv
<1> QED BY InitPool, NextPool, <1>1, PTL DEF PoolSpec

\* The ASSERTs on is_free_ (mem_pool.h:22 and 37) never fire.
THEOREM BlocksAreFree == PoolSpec => []BlockIsFree
<1>1. PoolInv => BlockIsFree
  BY DEF PoolInv
<1> QED BY InitPool, NextPool, <1>1, PTL DEF PoolSpec

-----------------------------------------------------------------------------
(* Capacity. *)

\* When the pool has given up, every block but the one it was about to hand out is in use.
AllInUse ==
  exited => /\ \A i \in Store : i # next_free_index_ => \E o \in Objects : block[o] = i
            /\ \A o \in Objects : block[o] # next_free_index_

LEMMA InitAllInUse == PoolInit => AllInUse
BY DEF PoolInit, AllInUse

LEMMA NextAllInUse == PoolInv /\ AllInUse /\ [PoolNext]_pool_vars => AllInUse'
<1> SUFFICES ASSUME PoolInv, AllInUse, [PoolNext]_pool_vars PROVE AllInUse'
  OBVIOUS
<1>1. ASSUME NEW o \in Objects, Allocate(o), exited' PROVE AllInUse'
  <2> DEFINE free == [is_free_ EXCEPT ![next_free_index_] = FALSE]
  <2>1. /\ ~exited /\ is_free_[next_free_index_] /\ \A i \in Store : ~free[i]
        /\ UNCHANGED next_free_index_ /\ UNCHANGED block
    BY <1>1 DEF Allocate, UpdateNextFreeIndex
  <2>2. \A i \in Store : is_free_[i] <=> \A q \in Objects : block[q] # i
    BY <2>1 DEF PoolInv, MarksAgree
  <2>3. next_free_index_ \in Store /\ is_free_ \in [Store -> BOOLEAN]
    BY DEF PoolInv, PoolTypeOK
  <2>4. \A q \in Objects : block[q] # next_free_index_
    BY <2>1, <2>2, <2>3
  <2>5. ASSUME NEW i \in Store, i # next_free_index_ PROVE \E q \in Objects : block[q] = i
    <3>1. ~is_free_[i]
      BY <2>1, <2>3, <2>5
    <3> QED BY <3>1, <2>2
  <2> QED BY <2>1, <2>4, <2>5 DEF AllInUse, Store
<1>2. ASSUME NEW o \in Objects, Deallocate(o) PROVE AllInUse'
  BY <1>2 DEF Deallocate, AllInUse
<1>3. CASE UNCHANGED pool_vars
  BY <1>3 DEF pool_vars, AllInUse, Store
<1>4. CASE ~exited'
  BY <1>4 DEF AllInUse
<1> QED BY <1>1, <1>2, <1>3, <1>4 DEF PoolNext

LEMMA StoreIsFinite == IsFiniteSet(Store) /\ Cardinality(Store) = PoolSize
<1>1. 0 \in Int /\ PoolSize - 1 \in Int /\ ~(0 > PoolSize - 1) /\ (PoolSize - 1) - 0 + 1 = PoolSize
  BY PoolAssumption
<1>2. IsFiniteSet(0 .. (PoolSize - 1))
  BY <1>1, FS_Interval
<1>3. Cardinality(0 .. (PoolSize - 1)) = IF 0 > PoolSize - 1 THEN 0 ELSE (PoolSize - 1) - 0 + 1
  BY <1>1, FS_Interval, Zenon
<1> QED BY <1>1, <1>2, <1>3 DEF Store

\* The types of the pool's variables: next_free_index_ never leaves the store.
THEOREM PoolTypeCorrect == PoolSpec => []PoolTypeOK
<1>1. PoolInv => PoolTypeOK
  BY DEF PoolInv
<1> QED BY InitPool, NextPool, <1>1, PTL DEF PoolSpec

\* A pool of any size gives up only when every other block is in use (the ASSERT of
\* mem_pool.h that "Memory Pool out of space"): no pattern of calls loses a block.
THEOREM GivesUpWhenFull == PoolSpec => []GivesUpAtCapacity
<1>1. PoolInv /\ AllInUse => GivesUpAtCapacity
  <2> SUFFICES ASSUME PoolInv, AllInUse, exited PROVE Cardinality(Held) = PoolSize - 1
    BY DEF GivesUpAtCapacity
  <2> DEFINE Used == Store \ {next_free_index_}
             where == [o \in Held |-> block[o]]
  <2>1. \A o \in Held : block[o] \in Used
    BY DEF PoolInv, PoolTypeOK, Held, AllInUse
  <2>2. \A i \in Used : \E o \in Held : block[o] = i
    BY NoBlockIsOutside DEF AllInUse, Held
  <2>3. \A o, q \in Held : block[o] = block[q] => o = q
    BY DEF PoolInv, Exclusive
  <2>4. where \in Injection(Held, Used) /\ where \in Surjection(Held, Used)
    <3>1. where \in [Held -> Used]
      BY <2>1
    <3>2. \A o, q \in Held : where[o] = where[q] => o = q
      BY <2>3
    <3>3. \A i \in Used : \E o \in Held : where[o] = i
      BY <2>2
    <3> HIDE DEF where, Used
    <3> QED BY <3>1, <3>2, <3>3, Fun_IsInj, Fun_IsSurj
  <2>5. IsFiniteSet(Used) /\ Cardinality(Used) = PoolSize - 1
    <3>1. next_free_index_ \in Store
      BY DEF PoolInv, PoolTypeOK
    <3> QED BY <3>1, StoreIsFinite, FS_RemoveElement
  <2>6. Cardinality(Held) = Cardinality(Used)
    <3> HIDE DEF where, Used
    <3> QED BY <2>4, <2>5, FS_Injection
  <2> QED BY <2>5, <2>6
<1> QED BY InitPool, NextPool, InitAllInUse, NextAllInUse, <1>1, PTL DEF PoolSpec
=============================================================================
