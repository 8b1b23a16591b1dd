------------------------------ MODULE MemPool ------------------------------
(***************************************************************************)
(* Common::MemPool (common/mem_pool.h): the fixed-size pool from which the *)
(* order books take every MEOrder, MEOrdersAtPrice, MarketOrder and        *)
(* MarketOrdersAtPrice.  One thread uses a pool, so allocate() and         *)
(* deallocate() are atomic.                                                *)
(*                                                                         *)
(* Operators whose comment starts with "Defect:" are variants of the       *)
(* definition that follows them, which some property must exclude.         *)
(*                                                                         *)
(* The names that every module has carry the prefix Pool here, so that one *)
(* module can extend this one and LFQueue.                                 *)
(*                                                                         *)
(* The objects are the callers' objects: block[o] is the index of the      *)
(* block that object o lives in.                                           *)
(***************************************************************************)
EXTENDS Integers, FiniteSets

CONSTANTS PoolSize,  \* store_.size()
          Objects,   \* the objects that callers ever create
          NoBlock    \* the object is not allocated

ASSUME PoolAssumption == PoolSize \in Nat \ {0}
ASSUME NoBlockAssumption == NoBlock \notin Int

VARIABLES is_free_,          \* store_[i].is_free_
          next_free_index_,
          block,             \* where each object lives
          exited             \* an ASSERT ended the process

pool_vars == <<is_free_, next_free_index_, block, exited>>

Store == 0 .. (PoolSize - 1)

PoolInit ==
  /\ is_free_ = [i \in Store |-> TRUE]
  /\ next_free_index_ = 0
  /\ block = [o \in Objects |-> NoBlock]
  /\ exited = FALSE

Held == {o \in Objects : block[o] # NoBlock}

-----------------------------------------------------------------------------
\* Defect: the search ends at the next block, free or not.
UpdateNextFreeIndexNoSearch(free) ==
  next_free_index_' = (next_free_index_ + 1) % PoolSize /\ exited' = FALSE

\* Defect: the index is not wrapped.
UpdateNextFreeIndexNoWrap(free) ==
  next_free_index_' = next_free_index_ + 1 /\ exited' = FALSE

\* Defect: the search never looks at the last block.
UpdateNextFreeIndexShort(free) ==
  \/ /\ next_free_index_' \in {i \in Store : i < PoolSize - 1 /\ free[i]}
     /\ exited' = FALSE
  \/ /\ \A i \in Store : i < PoolSize - 1 => ~free[i]
     /\ exited' = TRUE
     /\ UNCHANGED next_free_index_

\* updateNextFreeIndex(): go round the store, from the block just taken, to the
\* first free block; back at the start, the ASSERT exits.
UpdateNextFreeIndex(free) ==
  \/ /\ \E d \in 1 .. (PoolSize - 1) :
          /\ free[(next_free_index_ + d) % PoolSize]
          /\ \A e \in 1 .. (d - 1) : ~free[(next_free_index_ + e) % PoolSize]
          /\ next_free_index_' = (next_free_index_ + d) % PoolSize
     /\ exited' = FALSE
  \/ /\ \A i \in Store : ~free[i]
     /\ exited' = TRUE
     /\ UNCHANGED next_free_index_

\* Defect: the block is handed out without being marked.
AllocateUnmarked(o) ==
  /\ ~exited /\ block[o] = NoBlock
  /\ block' = [block EXCEPT ![o] = next_free_index_]
  /\ UNCHANGED <<is_free_, next_free_index_, exited>>

\* allocate(): the block at next_free_index_ is marked, and the next free one
\* found, before the caller gets its object.  BlockIsFree states the ASSERT.
Allocate(o) ==
  /\ ~exited /\ block[o] = NoBlock
  /\ is_free_[next_free_index_]
  /\ LET free == [is_free_ EXCEPT ![next_free_index_] = FALSE]
     IN  is_free_' = free /\ UpdateNextFreeIndex(free)
  /\ block' = IF exited' THEN block ELSE [block EXCEPT ![o] = next_free_index_]

\* deallocate(): the block is marked free; next_free_index_ stays where it is.
Deallocate(o) ==
  /\ ~exited /\ block[o] # NoBlock
  /\ ~is_free_[block[o]]
  /\ is_free_' = [is_free_ EXCEPT ![block[o]] = TRUE]
  /\ block' = [block EXCEPT ![o] = NoBlock]
  /\ UNCHANGED <<next_free_index_, exited>>

PoolNext == \E o \in Objects : Allocate(o) \/ Deallocate(o)

PoolSpec == PoolInit /\ [][PoolNext]_pool_vars

-----------------------------------------------------------------------------
PoolTypeOK ==
  /\ is_free_ \in [Store -> BOOLEAN]
  /\ next_free_index_ \in Store
  /\ block \in [Objects -> Store \cup {NoBlock}]
  /\ exited \in BOOLEAN

\* The ASSERTs of allocate() and deallocate() never fire while the process
\* lives, whatever order objects are created and given back in: the block at
\* next_free_index_ is free, and the block of an object is in use.
BlockIsFree ==
  ~exited => /\ is_free_[next_free_index_]
             /\ \A o \in Held : ~is_free_[block[o]]

\* No block ever serves two objects.
Exclusive == \A o, q \in Held : block[o] = block[q] => o = q

\* Blocks are not lost: when the pool gives up, it is because every other block
\* is in use.  One block less than its size is what a pool can serve.
GivesUpAtCapacity == exited => Cardinality(Held) = PoolSize - 1
=============================================================================
