----------------------- MODULE MarketOrderBookProofs -----------------------
(***************************************************************************)
(* The pointers of the client's book are right whatever sequence of        *)
(* updates arrives, for every size of the pools and every set of prices    *)
(* that have a slot each in the hash map.                                  *)
(*                                                                         *)
(* The memory of the book is the picture of sequences (BookIs): one of     *)
(* levels for each side, one of orders for each level.  Every method of    *)
(* the book makes the assignments for one change of these sequences.       *)
(***************************************************************************)
EXTENDS MarketOrderBook, FunctionTheorems, FiniteSetTheorems, WellFoundedInduction, SequenceTheorems, TLAPS

(* Least elements, and induction on the numbers up to n. *)

LEMMA LeastNatural ==
  ASSUME NEW T \in SUBSET Nat, T # {}
  PROVE  \E n \in T : \A m \in T : n <= m
<1> DEFINE R == OpToRel(<, Nat)
<1>1. IsWellFoundedOn(R, Nat)
  BY NatLessThanWellFounded
<1>2. ASSUME NEW x \in Nat, NEW y \in Nat, y < x PROVE <<y, x>> \in R
  BY <1>2 DEF OpToRel
<1> HIDE DEF R
<1>3. PICK x \in T : \A y \in T : ~(<<y, x>> \in R)
  BY <1>1, WFMin
<1>4. ASSUME NEW m \in T PROVE x <= m
  <2>1. m \in Nat /\ x \in Nat /\ <<m, x>> \notin R
    BY <1>3
  <2>2. ~(m < x)
    BY <2>1, <1>2
  <2> QED BY <2>1, <2>2
<1> QED BY <1>4

\* A set with 0 and with the successor of each of its members below n has all numbers up to n.
LEMMA UpTo ==
  ASSUME NEW n \in Nat, NEW T, 0 \in T, \A k \in 1 .. n : k - 1 \in T => k \in T
  PROVE  \A k \in 0 .. n : k \in T
<1> DEFINE Missing == {k \in 0 .. n : k \notin T}
<1>1. SUFFICES ASSUME Missing # {} PROVE FALSE
  OBVIOUS
<1>2. PICK k \in Missing : \A m \in Missing : k <= m
  <2>1. Missing \in SUBSET Nat
    OBVIOUS
  <2> HIDE DEF Missing
  <2> QED BY <1>1, <2>1, LeastNatural
<1>3. k \in 1 .. n /\ k - 1 \in 0 .. n /\ k - 1 \notin Missing
  BY <1>2
<1> QED BY <1>2, <1>3


-----------------------------------------------------------------------------
(* Circular lists. *)

\* The positions before and after k in a ring.
Succ(w, k) == IF k = Len(w) THEN 1 ELSE k + 1
Pred(w, k) == IF k = 1 THEN Len(w) ELSE k - 1

\* The blocks of w, each once, are linked in both directions in this order.
IsRing(node, w) ==
  \A k \in 1 .. Len(w) : node[w[k]].next = w[Succ(w, k)] /\ node[w[k]].prev = w[Pred(w, k)]
Once(w) == \A j, k \in 1 .. Len(w) : w[j] = w[k] => j = k

\* The pointer to a ring.
HeadOf(w) == IF Len(w) = 0 THEN Null ELSE w[1]

LEMMA LeastIsMin ==
  ASSUME NEW T \in SUBSET Int, NEW m \in T, \A k \in T : m <= k
  PROVE  Min(T) = m
<1> DEFINE Least(x) == \A k \in T : x <= k
<1>1. Min(T) = CHOOSE x \in T : Least(x)
  BY DEF Min
<1>2. ASSUME NEW x \in T, Least(x) PROVE x = m
  BY <1>2
<1> HIDE DEF Least
<1>3. Least(m)
  BY DEF Least
<1> QED BY <1>1, <1>2, <1>3

ChainIs(node, head, n, at) ==
  at = [k \in 0 .. n |-> IF k = 0 THEN head ELSE Following(node, at[k - 1])]

LEMMA ChainExists ==
  ASSUME NEW node, NEW head, NEW n \in Nat
  PROVE  \E at : ChainIs(node, head, n, at)
<1> DEFINE T == {m \in Nat : \E at : ChainIs(node, head, m, at)}
<1>1. 0 \in T
  <2>1. ChainIs(node, head, 0, [k \in 0 .. 0 |-> head])
    BY DEF ChainIs
  <2> QED BY <2>1
<1>2. ASSUME NEW m \in 1 .. n, m - 1 \in T PROVE m \in T
  <2>1. PICK f : ChainIs(node, head, m - 1, f)
    BY <1>2
  <2> DEFINE g == [k \in 0 .. m |-> IF k < m THEN f[k] ELSE Following(node, f[m - 1])]
  <2>2. ASSUME NEW k \in 0 .. m
        PROVE  g[k] = IF k = 0 THEN head ELSE Following(node, g[k - 1])
    <3>1. CASE k = m
      BY <3>1
    <3>2. CASE k # m
      <4>1. k \in 0 .. (m - 1) /\ g[k] = f[k] /\ (k # 0 => g[k - 1] = f[k - 1])
        BY <3>2
      <4>2. f[k] = IF k = 0 THEN head ELSE Following(node, f[k - 1])
        BY <2>1, <4>1 DEF ChainIs
      <4> QED BY <4>1, <4>2
    <3> QED BY <3>1, <3>2
  <2>3. g = [k \in 0 .. m |-> g[k]]
    OBVIOUS
  <2> HIDE DEF g
  <2>4. ChainIs(node, head, m, g)
    BY <2>2, <2>3 DEF ChainIs
  <2> QED BY <2>4
<1> HIDE DEF T
<1>3. n \in T
  BY <1>1, <1>2, UpTo
<1> QED BY <1>3 DEF T

\* A chain starts at its head and goes on to what next says.
LEMMA ChainFacts ==
  ASSUME NEW node, NEW head, NEW n \in Nat
  PROVE  /\ Chain(node, head, n)[0] = head
         /\ \A k \in 1 .. n : Chain(node, head, n)[k] = Following(node, Chain(node, head, n)[k - 1])
<1>1. \E at : ChainIs(node, head, n, at)
  BY ChainExists
<1> DEFINE f == CHOOSE at : ChainIs(node, head, n, at)
<1>2. ChainIs(node, head, n, f)
  BY <1>1
<1>3. Chain(node, head, n) = f
  BY DEF Chain, ChainIs
<1> HIDE DEF f
<1>4. \A k \in 0 .. n : f[k] = IF k = 0 THEN head ELSE Following(node, f[k - 1])
  BY <1>2 DEF ChainIs
<1>5. f[0] = head
  BY <1>4
<1>6. ASSUME NEW k \in 1 .. n PROVE f[k] = Following(node, f[k - 1])
  <2>1. k \in 0 .. n /\ k # 0
    OBVIOUS
  <2> QED BY <1>4, <2>1, Zenon
<1> QED BY <1>3, <1>5, <1>6

\* Along a ring the chain meets its blocks in order and then the head again.
LEMMA ChainOfRing ==
  ASSUME NEW node, NEW S, Null \notin S, NEW w \in Seq(S), Len(w) # 0, IsRing(node, w),
         NEW n \in Nat, Len(w) <= n
  PROVE  /\ \A k \in 1 .. Len(w) : Chain(node, w[1], n)[k - 1] = w[k]
         /\ Chain(node, w[1], n)[Len(w)] = w[1]
<1> DEFINE at == Chain(node, w[1], n)
           T == {k \in 0 .. n : k < Len(w) => at[k] = w[k + 1]}
<1>1. at[0] = w[1] /\ \A k \in 1 .. n : at[k] = Following(node, at[k - 1])
  BY ChainFacts
<1>2. Len(w) \in Nat /\ \A k \in 1 .. Len(w) : w[k] \in S /\ w[k] # Null
  OBVIOUS
<1> HIDE DEF at
<1>3. ASSUME NEW k \in 1 .. Len(w), at[k - 1] = w[k] PROVE at[k] = w[Succ(w, k)]
  <2>1. k \in 1 .. n
    BY <1>2
  <2>2. at[k] = node[w[k]].next
    BY <2>1, <1>1, <1>2, <1>3 DEF Following
  <2> QED BY <2>2 DEF IsRing
<1>4. 0 \in T
  BY <1>1
<1>5. ASSUME NEW k \in 1 .. n, k - 1 \in T PROVE k \in T
  <2> SUFFICES ASSUME k < Len(w) PROVE at[k] = w[k + 1]
    OBVIOUS
  <2>1. k \in 1 .. Len(w) /\ at[k - 1] = w[k] /\ Succ(w, k) = k + 1
    BY <1>2, <1>5 DEF Succ
  <2> QED BY <2>1, <1>3
<1> HIDE DEF T
<1>6. \A k \in 0 .. n : k \in T
  BY <1>4, <1>5, UpTo
<1>7. ASSUME NEW k \in 1 .. Len(w) PROVE at[k - 1] = w[k]
  <2>1. k - 1 \in 0 .. n /\ k - 1 < Len(w) /\ (k - 1) + 1 = k
    BY <1>2
  <2>2. k - 1 \in T
    BY <2>1, <1>6
  <2> QED BY <2>1, <2>2 DEF T
<1>8. at[Len(w)] = w[1]
  <2>1. Len(w) \in 1 .. Len(w) /\ Succ(w, Len(w)) = 1
    BY <1>2 DEF Succ
  <2> QED BY <2>1, <1>3, <1>7
<1> QED BY <1>7, <1>8 DEF at

\* A reader who walks a ring sees its blocks, in order, and stops.
LEMMA WalkOfRing ==
  ASSUME NEW node, NEW S, Null \notin S, NEW w \in Seq(S), IsRing(node, w), Once(w),
         NEW n \in Nat, Len(w) <= n
  PROVE  Walk(node, HeadOf(w), n) = w
<1>0. Len(w) \in Nat /\ \A k \in 1 .. Len(w) : w[k] \in S /\ w[k] # Null
  OBVIOUS
<1>1. CASE Len(w) = 0
  <2>1. Walk(node, HeadOf(w), n) = [k \in 1 .. 0 |-> Chain(node, HeadOf(w), n)[k - 1]]
    BY <1>1 DEF Walk, HeadOf
  <2>2. w = << >>
    BY <1>1
  <2> QED BY <2>1, <2>2
<1>2. CASE Len(w) # 0
  <2> DEFINE chain == Chain(node, w[1], n)
             T == {n} \cup {k \in 1 .. n : chain[k] \in {w[1], Null}}
  <2>1. /\ \A k \in 1 .. Len(w) : chain[k - 1] = w[k]
        /\ chain[Len(w)] = w[1]
    BY <1>2, ChainOfRing
  <2>2. HeadOf(w) = w[1] /\ w[1] # Null
    BY <1>0, <1>2 DEF HeadOf
  <2>3. Walk(node, w[1], n) = [k \in 1 .. Min(T) |-> chain[k - 1]]
    BY <2>2 DEF Walk
  <2> HIDE DEF chain
  <2>4. T \subseteq Int /\ Len(w) \in T
    BY <1>0, <1>2, <2>1
  <2>5. ASSUME NEW k \in T PROVE Len(w) <= k
    <3> SUFFICES ASSUME k < Len(w) PROVE FALSE
      BY <1>0, <2>4
    <3>1. k \in 1 .. n /\ chain[k] \in {w[1], Null}
      OBVIOUS
    <3>2. k + 1 \in 1 .. Len(w) /\ (k + 1) - 1 = k /\ 1 \in 1 .. Len(w)
      BY <3>1, <1>0
    <3>3. chain[k] = w[k + 1]
      BY <2>1, <3>2
    <3>4. w[k + 1] = w[1] /\ k + 1 # 1
      BY <3>1, <3>3, <3>2, <1>0
    <3> QED BY <3>2, <3>4 DEF Once
  <2> HIDE DEF T
  <2>6. Min(T) = Len(w)
    BY <2>4, <2>5, LeastIsMin
  <2>7. Walk(node, w[1], n) = [k \in 1 .. Len(w) |-> w[k]]
    BY <2>3, <2>6, <2>1
  <2> QED BY <2>2, <2>7
<1> QED BY <1>1, <1>2

\* A list of blocks of a pool, each once, is no longer than the pool.
LEMMA OnceIsShort ==
  ASSUME NEW n \in Nat \ {0}, NEW w \in Seq(0 .. (n - 1)), Once(w)
  PROVE  Len(w) <= n
<1> DEFINE S == 0 .. (n - 1)
<1>1. IsFiniteSet(S) /\ Cardinality(S) = n
  <2>1. 0 \in Int /\ n - 1 \in Int /\ ~(0 > n - 1) /\ (n - 1) - 0 + 1 = n
    OBVIOUS
  <2>2. IsFiniteSet(0 .. (n - 1))
    BY <2>1, FS_Interval
  <2>3. Cardinality(0 .. (n - 1)) = IF 0 > n - 1 THEN 0 ELSE (n - 1) - 0 + 1
    BY <2>1, FS_Interval, Zenon
  <2> QED BY <2>1, <2>2, <2>3, Zenon
<1>2. Len(w) \in Nat /\ Cardinality(1 .. Len(w)) = Len(w)
  <2>1. Len(w) \in Nat /\ Len(w) \in Int /\ 1 \in Int
    OBVIOUS
  <2>2. Cardinality(1 .. Len(w)) = IF 1 > Len(w) THEN 0 ELSE Len(w) - 1 + 1
    BY <2>1, FS_Interval, Zenon
  <2> QED BY <2>1, <2>2
<1> HIDE DEF S
<1>3. w \in Injection(1 .. Len(w), S)
  BY Fun_IsInj DEF Once, S
<1> QED BY <1>1, <1>2, <1>3, FS_Injection

-----------------------------------------------------------------------------
(* A block more or less in a ring. *)

\* The blocks in a list, and the list with a block more at p, or without the one at p.
Blocks(w) == {w[k] : k \in 1 .. Len(w)}
WithBlock(w, p, x) ==
  [k \in 1 .. (Len(w) + 1) |-> IF k < p THEN w[k] ELSE IF k = p THEN x ELSE w[k - 1]]
WithoutBlock(w, p) == [k \in 1 .. (Len(w) - 1) |-> IF k < p THEN w[k] ELSE w[k + 1]]

LEMMA FunctionIsSeq ==
  ASSUME NEW S, NEW n \in Nat, NEW f \in [1 .. n -> S]
  PROVE  f \in Seq(S) /\ Len(f) = n
OBVIOUS

LEMMA WithBlockFacts ==
  ASSUME NEW S, NEW w \in Seq(S), NEW x \in S, NEW p \in 1 .. (Len(w) + 1)
  PROVE  /\ WithBlock(w, p, x) \in Seq(S)
         /\ Len(WithBlock(w, p, x)) = Len(w) + 1
         /\ \A k \in 1 .. (Len(w) + 1) :
              WithBlock(w, p, x)[k] = IF k < p THEN w[k] ELSE IF k = p THEN x ELSE w[k - 1]
         /\ Blocks(WithBlock(w, p, x)) = Blocks(w) \cup {x}
         /\ Once(w) /\ x \notin Blocks(w) => Once(WithBlock(w, p, x))
<1> DEFINE w2 == WithBlock(w, p, x)
<1>1. Len(w) \in Nat /\ \A k \in 1 .. Len(w) : w[k] \in S
  OBVIOUS
<1>2. w2 \in [1 .. (Len(w) + 1) -> S]
  BY <1>1 DEF WithBlock
<1>3. \A k \in 1 .. (Len(w) + 1) : w2[k] = IF k < p THEN w[k] ELSE IF k = p THEN x ELSE w[k - 1]
  BY DEF WithBlock
<1> HIDE DEF w2
<1>4. w2 \in Seq(S) /\ Len(w2) = Len(w) + 1
  BY <1>1, <1>2, FunctionIsSeq
<1>5. Blocks(w2) = Blocks(w) \cup {x}
  <2>1. ASSUME NEW k \in 1 .. Len(w2) PROVE w2[k] \in Blocks(w) \cup {x}
    <3>1. k < p => k \in 1 .. Len(w)
      BY <1>1, <1>4
    <3>2. k > p => k - 1 \in 1 .. Len(w)
      BY <1>1, <1>4
    <3>3. k \in 1 .. (Len(w) + 1) /\ (k < p \/ k = p \/ k > p)
      BY <1>1, <1>4
    <3> QED BY <1>3, <3>1, <3>2, <3>3 DEF Blocks
  <2>2. ASSUME NEW k \in 1 .. Len(w) PROVE w[k] \in Blocks(w2)
    <3>1. CASE k < p
      <4>1. k \in 1 .. Len(w2) /\ w2[k] = w[k]
        BY <3>1, <1>1, <1>3, <1>4
      <4> QED BY <4>1 DEF Blocks
    <3>2. CASE ~(k < p)
      <4>1. k + 1 \in 1 .. Len(w2) /\ ~(k + 1 < p) /\ k + 1 # p /\ (k + 1) - 1 = k
        BY <3>2, <1>1, <1>4
      <4>2. w2[k + 1] = w[k]
        BY <4>1, <1>3, <1>4
      <4> QED BY <4>1, <4>2 DEF Blocks
    <3> QED BY <3>1, <3>2
  <2>3. p \in 1 .. Len(w2) /\ w2[p] = x
    BY <1>1, <1>3, <1>4
  <2>4. x \in Blocks(w2)
    BY <2>3 DEF Blocks
  <2> QED BY <2>1, <2>2, <2>4 DEF Blocks
<1>6. ASSUME Once(w), x \notin Blocks(w) PROVE Once(w2)
  <2>1. ASSUME NEW k \in 1 .. Len(w) PROVE w[k] # x
    BY <1>6 DEF Blocks
  <2> SUFFICES ASSUME NEW j \in 1 .. Len(w2), NEW k \in 1 .. Len(w2), w2[j] = w2[k]
               PROVE  j = k
    BY DEF Once
  <2> DEFINE Back(i) == IF i < p THEN i ELSE i - 1
  <2>2. ASSUME NEW i \in 1 .. Len(w2), i # p
        PROVE  Back(i) \in 1 .. Len(w) /\ w2[i] = w[Back(i)]
    BY <2>2, <1>1, <1>3, <1>4
  <2>3. w2[p] = x
    BY <1>1, <1>3, <1>4
  <2>4. CASE j = p \/ k = p
    BY <2>1, <2>2, <2>3, <2>4
  <2>5. CASE j # p /\ k # p
    <3>1. Back(j) = Back(k)
      BY <2>2, <2>5, <1>6 DEF Once
    <3> QED BY <3>1, <2>5, <1>1, <1>4
  <2> QED BY <2>4, <2>5
<1> QED BY <1>3, <1>4, <1>5, <1>6 DEF w2

\* Linking x between a and b puts it there.
LEMMA RingWithBlock ==
  ASSUME NEW S, NEW w \in Seq(S), Len(w) # 0, Once(w), NEW x \in S, x \notin Blocks(w),
         NEW p \in 1 .. (Len(w) + 1), NEW node, IsRing(node, w), NEW node2, NEW a, NEW b,
         a = w[IF p = 1 THEN Len(w) ELSE p - 1], b = w[IF p = Len(w) + 1 THEN 1 ELSE p],
         node2[x].prev = a, node2[x].next = b,
         \A y \in Blocks(w) : /\ node2[y].next = IF y = a THEN x ELSE node[y].next
                              /\ node2[y].prev = IF y = b THEN x ELSE node[y].prev
  PROVE  IsRing(node2, WithBlock(w, p, x))
<1> DEFINE w2 == WithBlock(w, p, x)
           pa == IF p = 1 THEN Len(w) ELSE p - 1
           pb == IF p = Len(w) + 1 THEN 1 ELSE p
<1>1. /\ Len(w2) = Len(w) + 1
      /\ \A k \in 1 .. (Len(w) + 1) : w2[k] = IF k < p THEN w[k] ELSE IF k = p THEN x ELSE w[k - 1]
  BY WithBlockFacts
<1>2. Len(w) \in Nat /\ Len(w) >= 1 /\ pa \in 1 .. Len(w) /\ pb \in 1 .. Len(w)
  OBVIOUS
<1>3. ASSUME NEW i \in 1 .. Len(w)
      PROVE  /\ node2[w[i]].next = IF i = pa THEN x ELSE w[Succ(w, i)]
             /\ node2[w[i]].prev = IF i = pb THEN x ELSE w[Pred(w, i)]
  <2>1. w[i] = a <=> i = pa
    BY <1>2 DEF Once
  <2>2. w[i] = b <=> i = pb
    BY <1>2 DEF Once
  <2>3. w[i] \in Blocks(w) /\ node[w[i]].next = w[Succ(w, i)] /\ node[w[i]].prev = w[Pred(w, i)]
    BY DEF Blocks, IsRing
  <2> HIDE DEF pa, pb
  <2> QED BY <2>1, <2>2, <2>3
<1> HIDE DEF w2
<1> SUFFICES ASSUME NEW k \in 1 .. Len(w2)
             PROVE  node2[w2[k]].next = w2[Succ(w2, k)] /\ node2[w2[k]].prev = w2[Pred(w2, k)]
  BY DEF IsRing, w2
<1>4. CASE k = p
  <2>1. w2[k] = x /\ w2[Succ(w2, k)] = w[pb] /\ w2[Pred(w2, k)] = w[pa]
    BY <1>1, <1>2, <1>4 DEF Succ, Pred
  <2> QED BY <2>1
<1>5. CASE k < p
  <2>1. k \in 1 .. Len(w) /\ w2[k] = w[k]
    BY <1>1, <1>2, <1>5
  <2>2. w2[Succ(w2, k)] = IF k = pa THEN x ELSE w[Succ(w, k)]
    BY <1>1, <1>2, <1>5 DEF Succ
  <2>3. w2[Pred(w2, k)] = IF k = pb THEN x ELSE w[Pred(w, k)]
    BY <1>1, <1>2, <1>5 DEF Pred
  <2> QED BY <2>1, <2>2, <2>3, <1>3
<1>6. CASE k > p
  <2>1. k - 1 \in 1 .. Len(w) /\ w2[k] = w[k - 1]
    BY <1>1, <1>2, <1>6
  <2>2. w2[Succ(w2, k)] = IF k - 1 = pa THEN x ELSE w[Succ(w, k - 1)]
    BY <1>1, <1>2, <1>6 DEF Succ
  <2>3. w2[Pred(w2, k)] = IF k - 1 = pb THEN x ELSE w[Pred(w, k - 1)]
    BY <1>1, <1>2, <1>6 DEF Pred
  <2> QED BY <2>1, <2>2, <2>3, <1>3
<1> QED BY <1>1, <1>2, <1>4, <1>5, <1>6

\* The same for a block that joins a list at its end.
LEMMA WithLast ==
  ASSUME NEW S, NEW w \in Seq(S), NEW x \in S, Once(w), x \notin Blocks(w)
  PROVE  /\ WithBlock(w, Len(w) + 1, x) \in Seq(S)
         /\ Len(WithBlock(w, Len(w) + 1, x)) = Len(w) + 1
         /\ Once(WithBlock(w, Len(w) + 1, x))
         /\ Blocks(WithBlock(w, Len(w) + 1, x)) = Blocks(w) \cup {x}
         /\ \A k \in 1 .. (Len(w) + 1) :
              WithBlock(w, Len(w) + 1, x)[k] = IF k = Len(w) + 1 THEN x ELSE w[k]
<1>1. PICK p \in 1 .. (Len(w) + 1) : p = Len(w) + 1
  OBVIOUS
<1>2. /\ WithBlock(w, p, x) \in Seq(S) /\ Len(WithBlock(w, p, x)) = Len(w) + 1
      /\ Once(WithBlock(w, p, x)) /\ Blocks(WithBlock(w, p, x)) = Blocks(w) \cup {x}
      /\ \A k \in 1 .. (Len(w) + 1) :
           WithBlock(w, p, x)[k] = IF k < p THEN w[k] ELSE IF k = p THEN x ELSE w[k - 1]
  BY WithBlockFacts
<1>3. \A k \in 1 .. (Len(w) + 1) : WithBlock(w, p, x)[k] = IF k = p THEN x ELSE w[k]
  BY <1>1, <1>2
<1> QED BY <1>1, <1>2, <1>3

LEMMA RingWithLast ==
  ASSUME NEW S, NEW w \in Seq(S), Len(w) # 0, Once(w), NEW x \in S, x \notin Blocks(w),
         NEW node, IsRing(node, w), NEW node2,
         NEW first, first = w[1], NEW last, last = w[Len(w)],
         node2[x].prev = last, node2[x].next = first,
         \A y \in Blocks(w) : /\ node2[y].next = IF y = last THEN x ELSE node[y].next
                              /\ node2[y].prev = IF y = first THEN x ELSE node[y].prev
  PROVE  IsRing(node2, WithBlock(w, Len(w) + 1, x))
<1>1. PICK p \in 1 .. (Len(w) + 1) : p = Len(w) + 1
  OBVIOUS
<1>2. last = w[IF p = 1 THEN Len(w) ELSE p - 1]
  BY <1>1
<1>3. first = w[IF p = Len(w) + 1 THEN 1 ELSE p]
  BY <1>1
<1>4. IsRing(node2, WithBlock(w, p, x))
  BY <1>2, <1>3, RingWithBlock
<1> QED BY <1>1, <1>4

LEMMA WithoutBlockFacts ==
  ASSUME NEW S, NEW w \in Seq(S), NEW p \in 1 .. Len(w)
  PROVE  /\ WithoutBlock(w, p) \in Seq(S)
         /\ Len(WithoutBlock(w, p)) = Len(w) - 1
         /\ \A k \in 1 .. (Len(w) - 1) : WithoutBlock(w, p)[k] = IF k < p THEN w[k] ELSE w[k + 1]
         /\ Once(w) => /\ Blocks(WithoutBlock(w, p)) = Blocks(w) \ {w[p]}
                       /\ Once(WithoutBlock(w, p))
<1> DEFINE w2 == WithoutBlock(w, p)
           On(i) == IF i < p THEN i ELSE i + 1
<1>1. Len(w) \in Nat /\ Len(w) - 1 \in Nat /\ \A k \in 1 .. Len(w) : w[k] \in S
  OBVIOUS
<1>2. w2 \in [1 .. (Len(w) - 1) -> S]
  BY <1>1 DEF WithoutBlock
<1>3. \A k \in 1 .. (Len(w) - 1) : w2[k] = IF k < p THEN w[k] ELSE w[k + 1]
  BY DEF WithoutBlock
<1> HIDE DEF w2
<1>4. w2 \in Seq(S) /\ Len(w2) = Len(w) - 1
  BY <1>1, <1>2, FunctionIsSeq
<1>5. ASSUME NEW i \in 1 .. Len(w2) PROVE On(i) \in 1 .. Len(w) /\ On(i) # p /\ w2[i] = w[On(i)]
  BY <1>1, <1>3, <1>4
<1>6. ASSUME Once(w) PROVE Once(w2)
  <2> SUFFICES ASSUME NEW j \in 1 .. Len(w2), NEW k \in 1 .. Len(w2), w2[j] = w2[k]
               PROVE  j = k
    BY DEF Once
  <2>1. On(j) = On(k)
    BY <1>5, <1>6 DEF Once
  <2> QED BY <2>1, <1>1, <1>4
<1>7. ASSUME Once(w) PROVE Blocks(w2) = Blocks(w) \ {w[p]}
  <2>1. ASSUME NEW i \in 1 .. Len(w2) PROVE w2[i] \in Blocks(w) \ {w[p]}
    BY <1>5, <1>7 DEF Once, Blocks
  <2>2. ASSUME NEW k \in 1 .. Len(w), k # p PROVE w[k] \in Blocks(w2)
    <3> DEFINE i == IF k < p THEN k ELSE k - 1
    <3>1. i \in 1 .. Len(w2) /\ On(i) = k
      BY <2>2, <1>1, <1>4
    <3> QED BY <3>1, <1>5 DEF Blocks
  <2> QED BY <2>1, <2>2 DEF Blocks
<1> QED BY <1>3, <1>4, <1>6, <1>7 DEF w2

\* Unlinking the block between a and b leaves the others in their order.
LEMMA RingWithoutBlock ==
  ASSUME NEW S, NEW w \in Seq(S), Once(w), NEW p \in 1 .. Len(w), Len(w) # 1,
         NEW node, IsRing(node, w), NEW node2, NEW a, NEW b,
         a = w[Pred(w, p)], b = w[Succ(w, p)],
         \A y \in Blocks(w) \ {w[p]} :
           /\ node2[y].next = IF y = a THEN b ELSE node[y].next
           /\ node2[y].prev = IF y = b THEN a ELSE node[y].prev
  PROVE  IsRing(node2, WithoutBlock(w, p))
<1> DEFINE w2 == WithoutBlock(w, p)
           pa == Pred(w, p)
           pb == Succ(w, p)
           On(i) == IF i < p THEN i ELSE i + 1
<1>1. /\ Len(w2) = Len(w) - 1
      /\ \A k \in 1 .. (Len(w) - 1) : w2[k] = IF k < p THEN w[k] ELSE w[k + 1]
  BY WithoutBlockFacts, SMTT(20)
<1>2. Len(w) \in Nat /\ Len(w) >= 2 /\ pa \in 1 .. Len(w) /\ pb \in 1 .. Len(w)
  <2>1. \A len \in Nat : \A i \in 1 .. len : len # 1 =>
          /\ len >= 2
          /\ (IF i = len THEN 1 ELSE i + 1) \in 1 .. len
          /\ (IF i = 1 THEN len ELSE i - 1) \in 1 .. len
    OBVIOUS
  <2>2. Len(w) \in Nat
    OBVIOUS
  <2> QED BY <2>1, <2>2 DEF Succ, Pred
<1>3. ASSUME NEW i \in 1 .. Len(w), i # p
      PROVE  /\ node2[w[i]].next = IF i = pa THEN w[pb] ELSE w[Succ(w, i)]
             /\ node2[w[i]].prev = IF i = pb THEN w[pa] ELSE w[Pred(w, i)]
  <2>0. w[i] # w[p]
    BY <1>3 DEF Once
  <2>1. w[i] = a <=> i = pa
    BY <1>2 DEF Once
  <2>2. w[i] = b <=> i = pb
    BY <1>2 DEF Once
  <2>3. /\ w[i] \in Blocks(w) \ {w[p]}
        /\ node[w[i]].next = w[Succ(w, i)] /\ node[w[i]].prev = w[Pred(w, i)]
    BY <2>0 DEF Blocks, IsRing
  <2> HIDE DEF pa, pb
  <2> QED BY <2>1, <2>2, <2>3 DEF pa, pb
<1> HIDE DEF w2
<1> SUFFICES ASSUME NEW k \in 1 .. Len(w2)
             PROVE  node2[w2[k]].next = w2[Succ(w2, k)] /\ node2[w2[k]].prev = w2[Pred(w2, k)]
  BY DEF IsRing, w2
<1>4. On(k) \in 1 .. Len(w) /\ On(k) # p /\ w2[k] = w[On(k)]
  BY <1>1, <1>2
<1>5. w2[Succ(w2, k)] = IF On(k) = pa THEN w[pb] ELSE w[Succ(w, On(k))]
  BY <1>1, <1>2 DEF Succ, Pred
<1>6. w2[Pred(w2, k)] = IF On(k) = pb THEN w[pa] ELSE w[Pred(w, On(k))]
  BY <1>1, <1>2 DEF Succ, Pred
<1> QED BY <1>3, <1>4, <1>5, <1>6

\* Links that nobody writes.
LEMMA RingKept ==
  ASSUME NEW w, NEW node, IsRing(node, w), NEW node2,
         \A y \in Blocks(w) : node2[y].next = node[y].next /\ node2[y].prev = node[y].prev
  PROVE  IsRing(node2, w)
BY DEF IsRing, Blocks

-----------------------------------------------------------------------------
(* The inductive invariant.  lv gives the levels of each side from the best  *)
(* one on, ov the orders of each level from the oldest one on: the lists     *)
(* that the pointers of book b make up.                                      *)

OrderRecord ==
  [id : Nat, side : Sides, price : Nat, qty : Nat,
   prev : OrderBlocks \cup {Null}, next : OrderBlocks \cup {Null}]
LevelRecord ==
  [side : Sides, price : Nat, first : OrderBlocks \cup {Null},
   prev : LevelBlocks \cup {Null}, next : LevelBlocks \cup {Null}]
BookType ==
  [order : [OrderBlocks -> OrderRecord], level : [LevelBlocks -> LevelRecord],
   free_order : SUBSET OrderBlocks, free_level : SUBSET LevelBlocks,
   next_order : OrderBlocks, next_level : LevelBlocks,
   at : [Index -> LevelBlocks \cup {Null}], best : [Sides -> LevelBlocks \cup {Null}],
   by_id : [OrderIds -> OrderBlocks \cup {Null}]]

\* Two prices of the instrument never share a slot of price_orders_at_price_.
NoCollisions == \A p, q \in Prices : priceToIndex(p) = priceToIndex(q) => p = q

\* The levels of each side form a ring, sorted by price, and are found by price.
LevelsAre(b, lv) ==
  /\ lv \in [Sides -> Seq(LevelBlocks)]
  /\ \A s \in Sides : Once(lv[s]) /\ IsRing(b.level, lv[s]) /\ b.best[s] = HeadOf(lv[s])
  /\ \A s \in Sides : \A l \in Blocks(lv[s]) :
       /\ b.level[l].side = s /\ b.level[l].price \in Prices
       /\ b.at[priceToIndex(b.level[l].price)] = l
  /\ \A i \in Index : b.at[i] # Null =>
       /\ priceToIndex(b.level[b.at[i]].price) = i
       /\ b.at[i] \in Blocks(lv[b.level[b.at[i]].side])
  /\ \A s \in Sides : \A j, k \in 1 .. Len(lv[s]) :
       j < k => Behind(s, b.level[lv[s][k]].price, b.level[lv[s][j]].price)
  /\ \A l \in LevelBlocks : l \notin b.free_level <=> l \in Blocks(lv[b.level[l].side])
  /\ b.next_level \in b.free_level

\* The orders of each level in use form a ring, in the order of their ids.
QueuesAre(b, ov) ==
  /\ ov \in [LevelBlocks -> Seq(OrderBlocks)]
  /\ \A l \in LevelBlocks \ b.free_level :
       /\ Len(ov[l]) # 0 /\ Once(ov[l]) /\ IsRing(b.order, ov[l]) /\ b.level[l].first = ov[l][1]
       /\ \A o \in Blocks(ov[l]) :
            b.order[o].side = b.level[l].side /\ b.order[o].price = b.level[l].price
       /\ \A j, k \in 1 .. Len(ov[l]) : j < k => b.order[ov[l][j]].id < b.order[ov[l][k]].id

\* The orders that rest are those of the hash map, and each is in the ring of its
\* level; the other blocks are free.
OrdersAre(b, ov, r, n) ==
  /\ DOMAIN r \subseteq OrderIds /\ n \in Nat
  /\ \A i \in DOMAIN r : i < n /\ r[i] \in [side : Sides, price : Prices, qty : Qtys]
  /\ \A i \in OrderIds : b.by_id[i] # Null <=> i \in DOMAIN r
  /\ \A i \in DOMAIN r :
       LET o == b.by_id[i]
           l == getOrdersAtPrice(b, r[i].price)
       IN  /\ b.order[o].id = i /\ b.order[o].side = r[i].side
           /\ b.order[o].price = r[i].price /\ b.order[o].qty = r[i].qty
           /\ l # Null /\ o \in Blocks(ov[l])
  /\ \A l \in LevelBlocks \ b.free_level : \A o \in Blocks(ov[l]) :
       b.order[o].id \in OrderIds /\ b.by_id[b.order[o].id] = o
  /\ \A o \in OrderBlocks :
       o \notin b.free_order <=> b.order[o].id \in OrderIds /\ b.by_id[b.order[o].id] = o
  /\ b.next_order \in b.free_order

BookIs(b, lv, ov, r, n) ==
  b \in BookType /\ LevelsAre(b, lv) /\ QueuesAre(b, ov) /\ OrdersAre(b, ov, r, n)

LEMMA IndexOfPrice == \A price \in Nat : priceToIndex(price) \in Index
BY KeysAssumption DEF priceToIndex, Index

LEMMA NullIsNoBlock == Null \notin OrderBlocks /\ Null \notin LevelBlocks
BY NullAssumption DEF OrderBlocks, LevelBlocks

LEMMA BehindIsStrict ==
  ASSUME NEW s \in Sides, NEW p \in Nat, NEW q \in Nat
  PROVE  ~Behind(s, p, p) /\ (p # q => Behind(s, p, q) \/ Behind(s, q, p)) /\ ~(Behind(s, p, q) /\ Behind(s, q, p))
BY DEF Behind, Sides

LEMMA BehindIsTransitive ==
  ASSUME NEW s \in Sides, NEW p \in Nat, NEW q \in Nat, NEW m \in Nat
  PROVE  Behind(s, p, q) /\ Behind(s, q, m) => Behind(s, p, m)
BY DEF Behind, Sides

\* A level in use is in the list of its side and found by its price.
LEMMA LevelInUse ==
  ASSUME NEW b, NEW lv, b \in BookType, LevelsAre(b, lv)
  PROVE  /\ \A l \in LevelBlocks \ b.free_level :
              /\ l \in Blocks(lv[b.level[l].side]) /\ b.level[l].side \in Sides
              /\ b.level[l].price \in Prices /\ b.level[l].price \in Nat
              /\ b.at[priceToIndex(b.level[l].price)] = l
         /\ \A i \in Index : b.at[i] # Null => b.at[i] \in LevelBlocks \ b.free_level
         /\ \A s \in Sides : \A l \in Blocks(lv[s]) : l \in LevelBlocks \ b.free_level
<1>1. \A l \in LevelBlocks : b.level[l].side \in Sides /\ b.level[l].price \in Nat
  BY DEF BookType, LevelRecord
<1>2. \A i \in Index : b.at[i] # Null => b.at[i] \in LevelBlocks
  BY DEF BookType
<1>3. ASSUME NEW s \in Sides, NEW l \in Blocks(lv[s]) PROVE l \in LevelBlocks \ b.free_level
  <2>1. l \in LevelBlocks
    BY DEF LevelsAre, Blocks
  <2>2. b.level[l].side = s
    BY DEF LevelsAre
  <2> QED BY <2>1, <2>2 DEF LevelsAre
<1>4. ASSUME NEW l \in LevelBlocks \ b.free_level
      PROVE  /\ l \in Blocks(lv[b.level[l].side])
             /\ b.level[l].price \in Prices
             /\ b.at[priceToIndex(b.level[l].price)] = l
  <2>1. l \in Blocks(lv[b.level[l].side])
    BY DEF LevelsAre
  <2> QED BY <2>1, <1>1 DEF LevelsAre
<1>5. ASSUME NEW i \in Index, b.at[i] # Null PROVE b.at[i] \in LevelBlocks \ b.free_level
  <2>1. b.at[i] \in Blocks(lv[b.level[b.at[i]].side]) /\ b.at[i] \in LevelBlocks
    BY <1>2, <1>5 DEF LevelsAre
  <2> QED BY <2>1, <1>1, <1>3
<1> QED BY <1>1, <1>3, <1>4, <1>5

\* No order is in the rings of two levels.
LEMMA RingsApart ==
  ASSUME NEW b, NEW lv, NEW ov, b \in BookType, LevelsAre(b, lv), QueuesAre(b, ov)
  PROVE  \A l, m \in LevelBlocks \ b.free_level : \A o \in Blocks(ov[l]) :
           l # m => o \notin Blocks(ov[m])
<1> SUFFICES ASSUME NEW l \in LevelBlocks \ b.free_level, NEW m \in LevelBlocks \ b.free_level,
                    NEW o \in Blocks(ov[l]), o \in Blocks(ov[m])
             PROVE  l = m
  OBVIOUS
<1>1. b.order[o].price = b.level[l].price /\ b.order[o].price = b.level[m].price
  BY DEF QueuesAre
<1>2. b.at[priceToIndex(b.level[l].price)] = l /\ b.at[priceToIndex(b.level[m].price)] = m
  BY LevelInUse
<1> QED BY <1>1, <1>2

\* A level in use has an order that rests, of its side and at its price.
LEMMA LevelHasOrder ==
  ASSUME NEW b, NEW lv, NEW ov, NEW r, NEW n, BookIs(b, lv, ov, r, n),
         NEW l \in LevelBlocks \ b.free_level, NEW o \in Blocks(ov[l])
  PROVE  /\ b.order[o].id \in DOMAIN r /\ b.by_id[b.order[o].id] = o
         /\ r[b.order[o].id].side = b.level[l].side
         /\ r[b.order[o].id].price = b.level[l].price
         /\ r[b.order[o].id].qty = b.order[o].qty
<1>0. ov[l] \in Seq(OrderBlocks)
  BY DEF BookIs, QueuesAre
<1>1. o \in OrderBlocks /\ o # Null
  BY <1>0, NullIsNoBlock DEF Blocks
<1>2. b.order[o].id \in OrderIds /\ b.by_id[b.order[o].id] = o
  BY DEF BookIs, OrdersAre
<1>3. b.order[o].id \in DOMAIN r
  BY <1>1, <1>2 DEF BookIs, OrdersAre
<1>4. b.order[o].side = b.level[l].side /\ b.order[o].price = b.level[l].price
  BY DEF BookIs, QueuesAre
<1>5. LET x == b.by_id[b.order[o].id]
      IN  /\ b.order[x].side = r[b.order[o].id].side
          /\ b.order[x].price = r[b.order[o].id].price
          /\ b.order[x].qty = r[b.order[o].id].qty
  BY <1>3, Zenon DEF BookIs, OrdersAre
<1> QED BY <1>2, <1>3, <1>4, <1>5

LEMMA QueueHasHead ==
  ASSUME NEW b, NEW ov, QueuesAre(b, ov), NEW l \in LevelBlocks \ b.free_level
  PROVE  /\ ov[l] \in Seq(OrderBlocks) /\ Len(ov[l]) \in Nat \ {0}
         /\ ov[l][1] \in Blocks(ov[l]) /\ \A o \in Blocks(ov[l]) : o \in OrderBlocks
<1>1. ov[l] \in Seq(OrderBlocks) /\ Len(ov[l]) # 0
  BY DEF QueuesAre
<1>2. 1 \in 1 .. Len(ov[l]) /\ Len(ov[l]) \in Nat
  BY <1>1
<1> QED BY <1>1, <1>2 DEF Blocks

\* An uncrossed order meets only levels of its own side at its price.
LEMMA LevelAtPrice ==
  ASSUME NoCollisions, NEW b, NEW lv, NEW ov, NEW r, NEW n, BookIs(b, lv, ov, r, n),
         NEW s \in Sides, NEW price \in Prices,
         \A i \in DOMAIN r : r[i].side # s => Behind(s, price, r[i].price),
         getOrdersAtPrice(b, price) # Null
  PROVE  LET l == getOrdersAtPrice(b, price)
         IN  l \in LevelBlocks \ b.free_level /\ b.level[l].side = s /\ b.level[l].price = price
<1> DEFINE l == getOrdersAtPrice(b, price)
<1>0. price \in Nat /\ priceToIndex(price) \in Index
  BY IndexOfPrice, InputAssumption
<1>1. l \in LevelBlocks \ b.free_level /\ priceToIndex(b.level[l].price) = priceToIndex(price)
  BY <1>0, LevelInUse DEF getOrdersAtPrice, BookIs, LevelsAre
<1>2. b.level[l].price = price
  BY <1>1, LevelInUse DEF NoCollisions, BookIs
<1>3. PICK o \in Blocks(ov[l]) : TRUE
  BY <1>1, QueueHasHead DEF BookIs
<1>4. /\ b.order[o].id \in DOMAIN r /\ r[b.order[o].id].side = b.level[l].side
      /\ r[b.order[o].id].price = price
  BY <1>1, <1>2, LevelHasOrder
<1>5. ~Behind(s, price, price)
  BY <1>0, BehindIsStrict
<1> HIDE DEF l
<1>6. b.level[l].side = s
  BY <1>4, <1>5
<1> QED BY <1>1, <1>2, <1>6 DEF l

-----------------------------------------------------------------------------
(* What an update may do to the best levels: only the top of the side and    *)
(* price that it touches changes.                                            *)

TopsKept(b, b2, ov, ov2, s, price) ==
  \A t \in Sides :
    LET l == b.best[t]
    IN  l # Null /\ (t # s \/ Behind(s, price, b.level[l].price)) =>
          /\ b2.best[t] = l /\ b2.level[l].price = b.level[l].price /\ ov2[l] = ov[l]
          /\ \A o \in Blocks(ov[l]) : b2.order[o] = b.order[o]

LEMMA BestLevel ==
  ASSUME NEW b, NEW lv, b \in BookType, LevelsAre(b, lv), NEW t \in Sides, b.best[t] # Null
  PROVE  /\ b.best[t] \in LevelBlocks \ b.free_level /\ b.level[b.best[t]].side = t
         /\ Len(lv[t]) \in Nat \ {0} /\ b.best[t] = lv[t][1]
         /\ b.best[t] \in Blocks(lv[t])
<1>1. lv[t] \in Seq(LevelBlocks) /\ b.best[t] = HeadOf(lv[t])
  BY DEF LevelsAre
<1>2. Len(lv[t]) \in Nat \ {0} /\ b.best[t] = lv[t][1] /\ 1 \in 1 .. Len(lv[t])
  BY <1>1 DEF HeadOf
<1>3. b.best[t] \in Blocks(lv[t])
  BY <1>2 DEF Blocks
<1>4. b.best[t] \in LevelBlocks \ b.free_level
  BY <1>3, LevelInUse
<1>5. b.level[b.best[t]].side = t
  BY <1>3 DEF LevelsAre
<1> QED BY <1>2, <1>3, <1>4, <1>5

\* The levels do not change when only the orders do.
LEMMA LevelsKept ==
  ASSUME NEW b, NEW lv, b \in BookType, LevelsAre(b, lv), NEW b2,
         b2.best = b.best, b2.at = b.at, b2.free_level = b.free_level, b2.next_level = b.next_level,
         \A l \in LevelBlocks : /\ b2.level[l].side = b.level[l].side
                                /\ b2.level[l].price = b.level[l].price
                                /\ b2.level[l].prev = b.level[l].prev
                                /\ b2.level[l].next = b.level[l].next
  PROVE  LevelsAre(b2, lv)
<1>1. \A s \in Sides : \A l \in Blocks(lv[s]) : l \in LevelBlocks
  BY LevelInUse
<1>2. \A s \in Sides : lv[s] \in Seq(LevelBlocks) /\ \A k \in 1 .. Len(lv[s]) : lv[s][k] \in LevelBlocks
  BY DEF LevelsAre
<1>3. \A i \in Index : b.at[i] # Null => b.at[i] \in LevelBlocks
  BY DEF BookType
<1>4. ASSUME NEW s \in Sides PROVE IsRing(b2.level, lv[s])
  BY <1>2 DEF LevelsAre, IsRing
<1>5. ASSUME NEW s \in Sides, NEW l \in Blocks(lv[s])
      PROVE  /\ b2.level[l].side = s /\ b2.level[l].price \in Prices
             /\ b2.at[priceToIndex(b2.level[l].price)] = l
  BY <1>1 DEF LevelsAre
<1>6. ASSUME NEW i \in Index, b2.at[i] # Null
      PROVE  /\ priceToIndex(b2.level[b2.at[i]].price) = i
             /\ b2.at[i] \in Blocks(lv[b2.level[b2.at[i]].side])
  BY <1>3, <1>6 DEF LevelsAre
<1>7. ASSUME NEW s \in Sides, NEW j \in 1 .. Len(lv[s]), NEW k \in 1 .. Len(lv[s]), j < k
      PROVE  Behind(s, b2.level[lv[s][k]].price, b2.level[lv[s][j]].price)
  BY <1>2, <1>7 DEF LevelsAre
<1>8. ASSUME NEW l \in LevelBlocks
      PROVE  l \notin b2.free_level <=> l \in Blocks(lv[b2.level[l].side])
  BY DEF LevelsAre
<1>9. /\ lv \in [Sides -> Seq(LevelBlocks)] /\ b2.next_level \in b2.free_level
      /\ \A s \in Sides : Once(lv[s]) /\ b2.best[s] = HeadOf(lv[s])
  BY DEF LevelsAre
<1> QED BY <1>4, <1>5, <1>6, <1>7, <1>8, <1>9 DEF LevelsAre

-----------------------------------------------------------------------------
(* ADD. *)

LEMMA NextIsNotLinked ==
  ASSUME NEW b, NEW ov, NEW r, NEW n, b \in BookType, QueuesAre(b, ov), OrdersAre(b, ov, r, n),
         NEW m \in LevelBlocks \ b.free_level, NEW x \in Blocks(ov[m])
  PROVE  x \in OrderBlocks \ {b.next_order}
<1>1. b.order[x].id \in OrderIds /\ b.by_id[b.order[x].id] = x
  BY DEF OrdersAre
<1>2. x \in OrderBlocks
  BY QueueHasHead
<1>3. x \notin b.free_order
  BY <1>1, <1>2 DEF OrdersAre
<1> QED BY <1>2, <1>3 DEF OrdersAre

\* The next free block of the orders becomes order n.
Takes(b, b2, n, s, price, qty) ==
  LET o == b.next_order
  IN  /\ b2.free_order = b.free_order \ {o} /\ b2.next_order \in b2.free_order
      /\ b2.by_id = [b.by_id EXCEPT ![n] = o]
      /\ b2.order[o].id = n /\ b2.order[o].side = s
      /\ b2.order[o].price = price /\ b2.order[o].qty = qty
      /\ \A y \in OrderBlocks \ {o} :
           /\ b2.order[y].id = b.order[y].id /\ b2.order[y].side = b.order[y].side
           /\ b2.order[y].price = b.order[y].price /\ b2.order[y].qty = b.order[y].qty

\* It joins the list of level l, which has the price.
Serves(b, b2, ov, ov2, l, price) ==
  /\ \A i \in Index : b.at[i] # Null => b2.at[i] = b.at[i]
  /\ getOrdersAtPrice(b2, price) = l
  /\ LevelBlocks \ b2.free_level = (LevelBlocks \ b.free_level) \cup {l}
  /\ \A m \in LevelBlocks \ b.free_level : m # l => ov2[m] = ov[m]
  /\ Blocks(ov2[l]) = {b.next_order} \cup {x \in Blocks(ov[l]) : l \notin b.free_level}

\* It is one more resting order.
Rests(r, r2, n, s, price, qty) ==
  /\ DOMAIN r2 = DOMAIN r \cup {n}
  /\ r2[n] = [side |-> s, price |-> price, qty |-> qty]
  /\ \A i \in DOMAIN r : i # n => r2[i] = r[i]

\* The hash map and the pool of the orders, when order n arrives at level l.
LEMMA OrderArrives ==
  ASSUME NEW b, NEW lv, NEW ov, NEW r, NEW n, BookIs(b, lv, ov, r, n),
         NEW s \in Sides, NEW price \in Prices, NEW qty \in Qtys, n \in OrderIds,
         NEW l \in LevelBlocks, NEW b2 \in BookType, NEW ov2, NEW r2,
         Takes(b, b2, n, s, price, qty), Serves(b, b2, ov, ov2, l, price),
         Rests(r, r2, n, s, price, qty)
  PROVE  OrdersAre(b2, ov2, r2, n + 1)
<1> DEFINE o == b.next_order
<1> USE DEF Takes, Serves, Rests
<1>1. /\ b \in BookType /\ LevelsAre(b, lv) /\ QueuesAre(b, ov) /\ OrdersAre(b, ov, r, n)
  BY DEF BookIs
<1>2. o \in OrderBlocks /\ o \in b.free_order
  BY <1>1 DEF BookType, OrdersAre
<1>3. ASSUME NEW m \in LevelBlocks \ b.free_level, NEW x \in Blocks(ov[m])
      PROVE  x \in OrderBlocks \ {o}
  BY <1>1, NextIsNotLinked
<1>4. n \notin DOMAIN r /\ b.by_id[n] = Null
  BY <1>1 DEF OrdersAre
<1>10. n \in Nat /\ b2.by_id[n] = o /\ o # Null
      /\ \A i \in OrderIds : i # n => b2.by_id[i] = b.by_id[i]
  BY <1>1, <1>2, NullIsNoBlock DEF OrdersAre, BookType
<1>11. DOMAIN r2 \subseteq OrderIds /\ n + 1 \in Nat
  BY <1>1, <1>10 DEF OrdersAre
<1>12. ASSUME NEW i \in DOMAIN r2
      PROVE  i < n + 1 /\ r2[i] \in [side : Sides, price : Prices, qty : Qtys]
  <2>1. CASE i = n
    BY <2>1, <1>10
  <2>2. CASE i # n
    <3>1. i \in DOMAIN r
      BY <2>2
    <3>2. i < n /\ r[i] \in [side : Sides, price : Prices, qty : Qtys] /\ i \in OrderIds
      BY <3>1, <1>1, Zenon DEF OrdersAre
    <3>3. i \in Nat /\ r2[i] = r[i]
      BY <3>1, <3>2, <2>2, KeysAssumption
    <3> QED BY <3>2, <3>3, <1>10
  <2> QED BY <2>1, <2>2
<1>13. \A i \in OrderIds : b2.by_id[i] # Null <=> i \in DOMAIN r2
  BY <1>10, <1>1 DEF OrdersAre
<1>14. ASSUME NEW i \in DOMAIN r, i # n
      PROVE  LET x == b2.by_id[i]
                 m == getOrdersAtPrice(b2, r2[i].price)
             IN  /\ b2.order[x].id = i /\ b2.order[x].side = r2[i].side
                 /\ b2.order[x].price = r2[i].price /\ b2.order[x].qty = r2[i].qty
                 /\ m # Null /\ x \in Blocks(ov2[m])
  <2> DEFINE x == b.by_id[i]
             m == getOrdersAtPrice(b, r[i].price)
  <2>1. /\ b.order[x].id = i /\ b.order[x].side = r[i].side
        /\ b.order[x].price = r[i].price /\ b.order[x].qty = r[i].qty
        /\ m # Null /\ x \in Blocks(ov[m]) /\ r[i].price \in Prices /\ i \in OrderIds
    BY <1>1 DEF OrdersAre
  <2>0. priceToIndex(r[i].price) \in Index
    BY <2>1, IndexOfPrice, InputAssumption
  <2>2. m \in LevelBlocks \ b.free_level
    BY <2>0, <2>1, <1>1, LevelInUse DEF getOrdersAtPrice
  <2>3. b2.by_id[i] = x /\ r2[i] = r[i] /\ getOrdersAtPrice(b2, r2[i].price) = m
    BY <1>10, <1>14, <2>0, <2>1 DEF getOrdersAtPrice
  <2>4. x \in OrderBlocks \ {o}
    BY <2>1, <2>2, <1>3
  <2>5. x \in Blocks(ov2[m])
    BY <2>1, <2>2
  <2> HIDE DEF x, m
  <2> QED BY <2>1, <2>3, <2>4, <2>5
<1>15. LET x == b2.by_id[n]
          m == getOrdersAtPrice(b2, r2[n].price)
      IN  /\ b2.order[x].id = n /\ b2.order[x].side = r2[n].side
          /\ b2.order[x].price = r2[n].price /\ b2.order[x].qty = r2[n].qty
          /\ m # Null /\ x \in Blocks(ov2[m])
  <2>1. getOrdersAtPrice(b2, r2[n].price) = l /\ l # Null /\ b2.by_id[n] = o
    BY <1>10, NullIsNoBlock DEF getOrdersAtPrice
  <2>2. o \in Blocks(ov2[l])
    OBVIOUS
  <2> QED BY <2>1, <2>2
<1>16. ASSUME NEW m \in LevelBlocks \ b2.free_level, NEW x \in Blocks(ov2[m])
      PROVE  b2.order[x].id \in OrderIds /\ b2.by_id[b2.order[x].id] = x
  <2>1. CASE x = o
    BY <2>1, <1>10
  <2>2. CASE x # o
    <3>1. x \in Blocks(ov[m]) /\ m \in LevelBlocks \ b.free_level
      BY <2>2
    <3>2. b.order[x].id \in OrderIds /\ b.by_id[b.order[x].id] = x /\ x \in OrderBlocks \ {o}
      BY <3>1, <1>1, <1>3 DEF OrdersAre
    <3>3. b.order[x].id # n
      BY <3>2, <1>4, NullIsNoBlock
    <3> QED BY <3>2, <3>3, <1>10
  <2> QED BY <2>1, <2>2
<1>17. ASSUME NEW x \in OrderBlocks
      PROVE  x \notin b2.free_order <=> b2.order[x].id \in OrderIds /\ b2.by_id[b2.order[x].id] = x
  <2>1. CASE x = o
    BY <2>1, <1>10
  <2>2. CASE x # o
    <3>1. b2.order[x].id = b.order[x].id /\ (x \notin b2.free_order <=> x \notin b.free_order)
      BY <2>2
    <3>2. x \notin b.free_order <=> b.order[x].id \in OrderIds /\ b.by_id[b.order[x].id] = x
      BY <1>1 DEF OrdersAre
    <3>3. b.order[x].id = n => b.by_id[b.order[x].id] # x /\ b2.by_id[b.order[x].id] # x
      BY <1>4, <1>10, <2>2, NullIsNoBlock
    <3> QED BY <3>1, <3>2, <3>3, <1>10
  <2> QED BY <2>1, <2>2
<1> QED BY <1>11, <1>12, <1>13, <1>14, <1>15, <1>16, <1>17 DEF OrdersAre

\* ADD at a price that has a level.
LEMMA JoinsLevel ==
  ASSUME NoCollisions, NEW b, NEW lv, NEW ov, NEW r, NEW n, BookIs(b, lv, ov, r, n),
         NEW s \in Sides, NEW price \in Prices, NEW qty \in Qtys, n \in OrderIds,
         NEW l \in LevelBlocks \ b.free_level, l = getOrdersAtPrice(b, price),
         b.level[l].side = s, b.level[l].price = price,
         NEW o, o = b.next_order, NEW first, first = ov[l][1], NEW last, last = ov[l][Len(ov[l])],
         NEW b2 \in BookType, b2.level = b.level, b2.at = b.at, b2.best = b.best,
         b2.free_level = b.free_level, b2.next_level = b.next_level,
         Takes(b, b2, n, s, price, qty),
         b2.order[o].prev = last, b2.order[o].next = first,
         \A y \in OrderBlocks \ {o} :
           /\ b2.order[y].next = IF y = last THEN o ELSE b.order[y].next
           /\ b2.order[y].prev = IF y = first THEN o ELSE b.order[y].prev
           /\ y # first /\ y # last => b2.order[y] = b.order[y],
         NEW r2, Rests(r, r2, n, s, price, qty)
  PROVE  \E ov2 : BookIs(b2, lv, ov2, r2, n + 1) /\ TopsKept(b, b2, ov, ov2, s, price)
<1> DEFINE w == ov[l]
           w2 == WithBlock(w, Len(w) + 1, o)
           ov2 == [ov EXCEPT ![l] = w2]
<1>1. /\ b \in BookType /\ LevelsAre(b, lv) /\ QueuesAre(b, ov) /\ OrdersAre(b, ov, r, n)
  BY DEF BookIs
<1>2. /\ w \in Seq(OrderBlocks) /\ Len(w) \in Nat \ {0} /\ Once(w) /\ IsRing(b.order, w)
      /\ \A x \in Blocks(w) : x \in OrderBlocks
  BY <1>1, QueueHasHead DEF QueuesAre
<1>3. o \in OrderBlocks /\ o \in b.free_order
  BY <1>1 DEF BookType, OrdersAre
<1>4. ASSUME NEW m \in LevelBlocks \ b.free_level, NEW x \in Blocks(ov[m])
      PROVE  x \in OrderBlocks \ {o}
  BY <1>1, NextIsNotLinked
<1>5. o \notin Blocks(w)
  BY <1>4
<1>6. first \in Blocks(w) /\ last \in Blocks(w)
  <2>1. 1 \in 1 .. Len(w) /\ Len(w) \in 1 .. Len(w)
    BY <1>2
  <2> QED BY <2>1 DEF Blocks
<1>7. ov \in [LevelBlocks -> Seq(OrderBlocks)] /\ l \in LevelBlocks
  BY <1>1 DEF QueuesAre
<1>8. /\ w2 \in Seq(OrderBlocks) /\ Len(w2) = Len(w) + 1 /\ Once(w2)
      /\ Blocks(w2) = Blocks(w) \cup {o}
      /\ \A k \in 1 .. (Len(w) + 1) : w2[k] = IF k = Len(w) + 1 THEN o ELSE w[k]
  <2> HIDE DEF w
  <2> QED BY <1>2, <1>3, <1>5, WithLast
<1>9. IsRing(b2.order, w2)
  <2>1. \A y \in Blocks(w) : /\ b2.order[y].next = IF y = last THEN o ELSE b.order[y].next
                             /\ b2.order[y].prev = IF y = first THEN o ELSE b.order[y].prev
    BY <1>4
  <2>2. Len(w) # 0 /\ last = w[Len(w)] /\ first = w[1]
    BY <1>2
  <2> HIDE DEF w
  <2> QED BY <2>1, <2>2, <1>2, <1>3, <1>5, RingWithLast
<1>10. ov2 \in [LevelBlocks -> Seq(OrderBlocks)] /\ ov2[l] = w2
       /\ \A m \in LevelBlocks : m # l => ov2[m] = ov[m]
  BY <1>7, <1>8
<1> HIDE DEF w2, ov2
<1>r. \A m \in LevelBlocks \ b.free_level : \A x \in Blocks(ov[m]) : m # l => x \notin Blocks(ov[l])
  BY <1>1, RingsApart
<1>11. ASSUME NEW m \in LevelBlocks \ b.free_level, m # l, NEW x \in Blocks(ov[m])
       PROVE  x \in OrderBlocks \ {o} /\ x # first /\ x # last /\ b2.order[x] = b.order[x]
  <2>1. x \notin Blocks(w)
    BY <1>11, <1>r
  <2>2. x \in OrderBlocks \ {o} /\ x # first /\ x # last
    BY <2>1, <1>4, <1>6
  <2> QED BY <2>2
<1>12. LevelsAre(b2, lv)
  BY <1>1, LevelsKept
<1>14. ASSUME NEW x \in Blocks(w)
       PROVE  b.order[x].id \in DOMAIN r /\ b.order[x].id < n /\ x \in OrderBlocks \ {o}
  BY <1>1, <1>4, LevelHasOrder DEF OrdersAre
<1>15. QueuesAre(b2, ov2)
  <2>1. ASSUME NEW m \in LevelBlocks \ b.free_level, m # l
        PROVE  /\ Len(ov2[m]) # 0 /\ Once(ov2[m]) /\ IsRing(b2.order, ov2[m])
               /\ b2.level[m].first = ov2[m][1]
               /\ \A x \in Blocks(ov2[m]) : b2.order[x].side = b2.level[m].side
                                            /\ b2.order[x].price = b2.level[m].price
               /\ \A j, k \in 1 .. Len(ov2[m]) :
                    j < k => b2.order[ov2[m][j]].id < b2.order[ov2[m][k]].id
    <3>1. /\ ov2[m] = ov[m] /\ Len(ov[m]) # 0 /\ Once(ov[m]) /\ IsRing(b.order, ov[m])
          /\ b2.level[m].first = ov2[m][1]
      BY <2>1, <1>1, <1>10 DEF QueuesAre
    <3>2. \A x \in Blocks(ov[m]) : b2.order[x] = b.order[x]
      BY <2>1, <1>11
    <3>3. IsRing(b2.order, ov[m])
      BY <3>1, <3>2, RingKept
    <3>4. \A x \in Blocks(ov[m]) : b2.order[x].side = b2.level[m].side
                                   /\ b2.order[x].price = b2.level[m].price
      BY <3>2, <1>1 DEF QueuesAre
    <3>5. \A k \in 1 .. Len(ov[m]) : b2.order[ov[m][k]] = b.order[ov[m][k]]
      BY <3>2 DEF Blocks
    <3> QED BY <3>1, <3>3, <3>4, <3>5, <1>1 DEF QueuesAre
  <2>2. /\ Len(w2) # 0 /\ b2.level[l].first = w2[1]
    BY <1>1, <1>2, <1>8 DEF QueuesAre
  <2>3. ASSUME NEW x \in Blocks(w2) PROVE b2.order[x].side = s /\ b2.order[x].price = price
    <3>1. CASE x = o
      BY <3>1 DEF Takes
    <3>2. CASE x # o
      <4>1. x \in Blocks(w) /\ x \in OrderBlocks \ {o}
        BY <3>2, <1>8, <1>14
      <4>2. b.order[x].side = s /\ b.order[x].price = price
        BY <4>1, <1>1 DEF QueuesAre
      <4> QED BY <4>1, <4>2 DEF Takes
    <3> QED BY <3>1, <3>2
  <2>4. ASSUME NEW j \in 1 .. Len(w2), NEW k \in 1 .. Len(w2), j < k
        PROVE  b2.order[w2[j]].id < b2.order[w2[k]].id
    <3>1. j \in 1 .. Len(w) /\ w2[j] = w[j] /\ w[j] \in Blocks(w)
      BY <1>2, <1>8, <2>4 DEF Blocks
    <3>2. b2.order[w2[j]].id = b.order[w[j]].id /\ b.order[w[j]].id < n
      BY <3>1, <1>14 DEF Takes
    <3>3. CASE k = Len(w) + 1
      BY <3>2, <3>3, <1>2, <1>8 DEF Takes
    <3>4. CASE k # Len(w) + 1
      <4>1. k \in 1 .. Len(w) /\ w2[k] = w[k] /\ w[k] \in Blocks(w)
        BY <1>2, <1>8, <3>4 DEF Blocks
      <4>2. b2.order[w2[k]].id = b.order[w[k]].id
        BY <4>1, <1>14 DEF Takes
      <4>3. b.order[w[j]].id < b.order[w[k]].id
        BY <1>1, <2>4, <3>1, <4>1 DEF QueuesAre
      <4> QED BY <3>2, <4>2, <4>3
    <3> QED BY <3>3, <3>4
  <2> QED BY <2>1, <2>2, <2>3, <2>4, <1>8, <1>9, <1>10 DEF QueuesAre
<1>16. OrdersAre(b2, ov2, r2, n + 1)
  <2>1. Blocks(ov2[l]) = {o} \cup {x \in Blocks(ov[l]) : l \notin b.free_level}
    BY <1>8, <1>10
  <2>2. \A m \in LevelBlocks \ b.free_level : m # l => ov2[m] = ov[m]
    BY <1>10
  <2>3. Serves(b, b2, ov, ov2, l, price)
    BY <2>1, <2>2 DEF Serves, getOrdersAtPrice
  <2> QED BY <2>3, <1>7, OrderArrives
<1>17. TopsKept(b, b2, ov, ov2, s, price)
  <2> SUFFICES ASSUME NEW t \in Sides, b.best[t] # Null,
                      t # s \/ Behind(s, price, b.level[b.best[t]].price)
               PROVE  /\ b2.best[t] = b.best[t]
                      /\ b2.level[b.best[t]].price = b.level[b.best[t]].price
                      /\ ov2[b.best[t]] = ov[b.best[t]]
                      /\ \A x \in Blocks(ov[b.best[t]]) : b2.order[x] = b.order[x]
    BY Zenon DEF TopsKept
  <2>1. b.best[t] \in LevelBlocks \ b.free_level /\ b.level[b.best[t]].side = t
    BY <1>1, BestLevel
  <2>2. price \in Nat
    BY InputAssumption
  <2>3. b.best[t] # l
    BY <2>1, <2>2, BehindIsStrict
  <2> QED BY <2>1, <2>3, <1>10, <1>11
<1> QED BY <1>12, <1>15, <1>16, <1>17 DEF BookIs

\* A level for the price takes the next free block and position p in its list.
Inserted(b, b2, lv, s, p, price) ==
  LET l == b.next_level
      w == lv[s]
  IN  /\ b2.level[l].side = s /\ b2.level[l].price = price
      /\ \A m \in LevelBlocks \ {l} : /\ b2.level[m].side = b.level[m].side
                                      /\ b2.level[m].price = b.level[m].price
      /\ IsRing(b2.level, WithBlock(w, p, l))
      /\ \A t \in Sides \ {s} : \A m \in Blocks(lv[t]) :
           b2.level[m].prev = b.level[m].prev /\ b2.level[m].next = b.level[m].next
      /\ b2.at = [b.at EXCEPT ![priceToIndex(price)] = l]
      /\ b2.best = [b.best EXCEPT ![s] = WithBlock(w, p, l)[1]]
      /\ b2.free_level = b.free_level \ {l} /\ b2.next_level \in b2.free_level
      /\ \A k \in 1 .. Len(w) :
           IF k < p THEN Behind(s, price, b.level[w[k]].price)
           ELSE Behind(s, b.level[w[k]].price, price)

LEMMA LevelInserted ==
  ASSUME NEW b, NEW lv, b \in BookType, LevelsAre(b, lv), NEW b2 \in BookType,
         NEW s \in Sides, NEW price \in Prices, b.at[priceToIndex(price)] = Null,
         NEW p \in 1 .. (Len(lv[s]) + 1), Inserted(b, b2, lv, s, p, price)
  PROVE  LevelsAre(b2, [lv EXCEPT ![s] = WithBlock(lv[s], p, b.next_level)])
<1> DEFINE l == b.next_level
           w == lv[s]
           w2 == WithBlock(w, p, l)
           lv2 == [lv EXCEPT ![s] = w2]
           i0 == priceToIndex(price)
<1>1. w \in Seq(LevelBlocks) /\ Once(w) /\ l \in LevelBlocks /\ l \in b.free_level
  BY DEF LevelsAre, BookType
<1>2. l \notin Blocks(w) /\ \A t \in Sides : l \notin Blocks(lv[t])
  BY <1>1, LevelInUse
<1>3. /\ w2 \in Seq(LevelBlocks) /\ Len(w2) = Len(w) + 1 /\ Once(w2)
      /\ Blocks(w2) = Blocks(w) \cup {l}
      /\ \A k \in 1 .. (Len(w) + 1) : w2[k] = IF k < p THEN w[k] ELSE IF k = p THEN l ELSE w[k - 1]
  <2>1. p \in 1 .. (Len(w) + 1)
    OBVIOUS
  <2> HIDE DEF l, w
  <2> QED BY <1>1, <1>2, <2>1, WithBlockFacts
<1> HIDE DEF w2
<1>4. /\ lv2 \in [Sides -> Seq(LevelBlocks)] /\ lv2[s] = w2
      /\ \A t \in Sides : t # s => lv2[t] = lv[t]
  BY <1>3 DEF LevelsAre
<1> HIDE DEF lv2
<1>5. /\ b2.level[l].side = s /\ b2.level[l].price = price
      /\ \A m \in LevelBlocks : m # l => /\ b2.level[m].side = b.level[m].side
                                         /\ b2.level[m].price = b.level[m].price
      /\ IsRing(b2.level, w2)
      /\ b2.at = [b.at EXCEPT ![i0] = l] /\ b2.best = [b.best EXCEPT ![s] = w2[1]]
      /\ b2.free_level = b.free_level \ {l} /\ b2.next_level \in b2.free_level
  BY DEF Inserted, w2
<1>6. i0 \in Index /\ price \in Nat
  BY IndexOfPrice, InputAssumption
<1>7. \A i \in Index : b2.at[i] = IF i = i0 THEN l ELSE b.at[i]
  BY <1>5, <1>6 DEF BookType
<1>8. \A t \in Sides : b2.best[t] = IF t = s THEN w2[1] ELSE b.best[t]
  BY <1>5 DEF BookType
<1>9. ASSUME NEW t \in Sides PROVE Once(lv2[t]) /\ IsRing(b2.level, lv2[t]) /\ b2.best[t] = HeadOf(lv2[t])
  <2>1. CASE t = s
    <3>1. Len(w2) # 0
      BY <1>1, <1>3
    <3> QED BY <3>1, <2>1, <1>3, <1>4, <1>5, <1>8 DEF HeadOf
  <2>2. CASE t # s
    <3>1. Once(lv[t]) /\ IsRing(b.level, lv[t]) /\ b.best[t] = HeadOf(lv[t])
      BY DEF LevelsAre
    <3>2. \A m \in Blocks(lv[t]) :
            b2.level[m].prev = b.level[m].prev /\ b2.level[m].next = b.level[m].next
      BY <2>2 DEF Inserted
    <3>3. IsRing(b2.level, lv[t])
      BY <3>1, <3>2, RingKept
    <3> QED BY <3>1, <3>3, <2>2, <1>4, <1>8
  <2> QED BY <2>1, <2>2
<1>10. ASSUME NEW t \in Sides, NEW m \in Blocks(lv2[t])
       PROVE  /\ b2.level[m].side = t /\ b2.level[m].price \in Prices
              /\ b2.at[priceToIndex(b2.level[m].price)] = m
  <2>1. CASE m = l
    <3>1. t = s
      BY <2>1, <1>2, <1>4
    <3> QED BY <3>1, <2>1, <1>5, <1>6, <1>7
  <2>2. CASE m # l
    <3>1. m \in Blocks(lv[t]) /\ m \in LevelBlocks
      BY <2>2, <1>3, <1>4, LevelInUse
    <3>2. /\ b.level[m].side = t /\ b.level[m].price \in Prices
          /\ b.at[priceToIndex(b.level[m].price)] = m
      BY <3>1 DEF LevelsAre
    <3>3. priceToIndex(b.level[m].price) \in Index /\ priceToIndex(b.level[m].price) # i0
      BY <3>1, <3>2, IndexOfPrice, InputAssumption, NullIsNoBlock
    <3> QED BY <3>1, <3>2, <3>3, <2>2, <1>5, <1>7
  <2> QED BY <2>1, <2>2
<1>11. ASSUME NEW i \in Index, b2.at[i] # Null
       PROVE  /\ priceToIndex(b2.level[b2.at[i]].price) = i
              /\ b2.at[i] \in Blocks(lv2[b2.level[b2.at[i]].side])
  <2>1. CASE i = i0
    BY <2>1, <1>3, <1>4, <1>5, <1>7
  <2>2. CASE i # i0
    <3>1. b2.at[i] = b.at[i] /\ b.at[i] # Null
      BY <2>2, <1>7, <1>11
    <3>2. /\ priceToIndex(b.level[b.at[i]].price) = i
          /\ b.at[i] \in Blocks(lv[b.level[b.at[i]].side]) /\ b.at[i] \in LevelBlocks \ b.free_level
      BY <3>1, LevelInUse DEF LevelsAre
    <3>3. b.at[i] # l
      BY <3>2, <1>1
    <3>4. b2.level[b.at[i]].side = b.level[b.at[i]].side /\ b.level[b.at[i]].side \in Sides
          /\ b2.level[b.at[i]].price = b.level[b.at[i]].price
      BY <3>2, <3>3, <1>5, LevelInUse
    <3>5. \A t \in Sides : Blocks(lv[t]) \subseteq Blocks(lv2[t])
      BY <1>3, <1>4
    <3> QED BY <3>1, <3>2, <3>4, <3>5
  <2> QED BY <2>1, <2>2
<1>12. ASSUME NEW t \in Sides, NEW j \in 1 .. Len(lv2[t]), NEW k \in 1 .. Len(lv2[t]), j < k
       PROVE  Behind(t, b2.level[lv2[t][k]].price, b2.level[lv2[t][j]].price)
  <2>0. ASSUME NEW u \in Sides, NEW h \in 1 .. Len(lv[u])
        PROVE  lv[u][h] \in LevelBlocks /\ lv[u][h] # l /\ lv[u][h] \in Blocks(lv[u])
               /\ b2.level[lv[u][h]].price = b.level[lv[u][h]].price
    <3>1. lv[u][h] \in Blocks(lv[u])
      BY DEF Blocks
    <3>2. lv[u][h] # l /\ lv[u][h] \in LevelBlocks
      BY <3>1, <1>2, LevelInUse
    <3> QED BY <3>1, <3>2, <1>5
  <2>1. CASE t # s
    <3>1. lv2[t] = lv[t]
      BY <2>1, <1>4
    <3>2. Behind(t, b.level[lv[t][k]].price, b.level[lv[t][j]].price)
      BY <3>1, <1>12 DEF LevelsAre
    <3> QED BY <3>1, <3>2, <2>0
  <2>2. CASE t = s
    <3> DEFINE Back(h) == IF h < p THEN h ELSE h - 1
    <3>1. lv2[t] = w2 /\ j \in 1 .. (Len(w) + 1) /\ k \in 1 .. (Len(w) + 1) /\ Len(w) \in Nat
      BY <2>2, <1>1, <1>3, <1>4
    <3>2. ASSUME NEW h \in 1 .. (Len(w) + 1), h # p PROVE Back(h) \in 1 .. Len(w) /\ w2[h] = w[Back(h)]
      BY <3>2, <3>1, <1>3
    <3>3. w2[p] = l
      BY <3>1, <1>3
    <3>4. \A h \in 1 .. Len(w) : /\ h < p => Behind(s, price, b.level[w[h]].price)
                                 /\ ~(h < p) => Behind(s, b.level[w[h]].price, price)
      BY DEF Inserted
    <3>5. CASE j = p
      <4>1. k # p /\ ~(Back(k) < p)
        BY <3>5, <3>1, <1>12
      <4>2. Behind(s, b.level[w[Back(k)]].price, price)
        BY <4>1, <3>1, <3>2, <3>4
      <4> QED BY <4>1, <4>2, <3>1, <3>2, <3>3, <3>5, <2>0, <2>2, <1>5
    <3>6. CASE k = p
      <4>1. j # p /\ Back(j) < p
        BY <3>6, <3>1, <1>12
      <4>2. Behind(s, price, b.level[w[Back(j)]].price)
        BY <4>1, <3>1, <3>2, <3>4
      <4>3. w2[j] = w[Back(j)] /\ b2.level[w[Back(j)]].price = b.level[w[Back(j)]].price
        BY <4>1, <3>1, <3>2, <2>0
      <4> HIDE DEF Back, w
      <4> QED BY <4>2, <4>3, <3>1, <3>3, <3>6, <2>2, <1>5
    <3>7. CASE j # p /\ k # p
      <4>1. Back(j) < Back(k) /\ Back(j) \in 1 .. Len(w) /\ Back(k) \in 1 .. Len(w)
        BY <3>7, <3>1, <3>2, <1>12
      <4>2. Behind(s, b.level[w[Back(k)]].price, b.level[w[Back(j)]].price)
        <5> HIDE DEF Back
        <5> QED BY <4>1 DEF LevelsAre
      <4>3. w2[j] = w[Back(j)] /\ w2[k] = w[Back(k)]
        BY <3>7, <3>1, <3>2
      <4>4. /\ b2.level[w[Back(j)]].price = b.level[w[Back(j)]].price
            /\ b2.level[w[Back(k)]].price = b.level[w[Back(k)]].price
        BY <4>1, <2>0
      <4> HIDE DEF Back, w
      <4> QED BY <4>2, <4>3, <4>4, <3>1, <2>2
    <3> QED BY <3>5, <3>6, <3>7
  <2> QED BY <2>1, <2>2
<1>13. ASSUME NEW m \in LevelBlocks
       PROVE  m \notin b2.free_level <=> m \in Blocks(lv2[b2.level[m].side])
  <2>1. CASE m = l
    BY <2>1, <1>3, <1>4, <1>5
  <2>2. CASE m # l
    <3>1. b2.level[m].side = b.level[m].side /\ b.level[m].side \in Sides
      BY <2>2, <1>5 DEF BookType, LevelRecord
    <3>2. m \notin b.free_level <=> m \in Blocks(lv[b.level[m].side])
      BY DEF LevelsAre
    <3>3. m \in Blocks(lv2[b.level[m].side]) <=> m \in Blocks(lv[b.level[m].side])
      BY <3>1, <2>2, <1>3, <1>4
    <3> QED BY <3>1, <3>2, <3>3, <2>2, <1>5
  <2> QED BY <2>1, <2>2
<1>14. LevelsAre(b2, lv2)
  BY <1>4, <1>5, <1>9, <1>10, <1>11, <1>12, <1>13 DEF LevelsAre
<1> QED BY <1>14 DEF lv2, w2

\* The new level has the order alone.
Starts(b, b2) ==
  LET o == b.next_order
      l == b.next_level
  IN  /\ b2.order[o].prev = o /\ b2.order[o].next = o
      /\ \A y \in OrderBlocks \ {o} : b2.order[y] = b.order[y]
      /\ b2.level[l].first = o
      /\ \A m \in LevelBlocks \ {l} : b2.level[m].first = b.level[m].first

LEMMA QueueStarts ==
  ASSUME NEW b, NEW lv, NEW ov, NEW r, NEW n, BookIs(b, lv, ov, r, n), NEW b2 \in BookType,
         NEW s, NEW p, NEW price, NEW qty,
         Inserted(b, b2, lv, s, p, price), Takes(b, b2, n, s, price, qty), Starts(b, b2)
  PROVE  QueuesAre(b2, [ov EXCEPT ![b.next_level] = <<b.next_order>>])
<1> DEFINE o == b.next_order
           l == b.next_level
<1>a. /\ b2.order[o].prev = o /\ b2.order[o].next = o
      /\ \A y \in OrderBlocks \ {o} : b2.order[y] = b.order[y]
      /\ b2.level[l].first = o /\ b2.level[l].side = b2.order[o].side
      /\ b2.level[l].price = b2.order[o].price
  BY DEF Inserted, Takes, Starts
<1>b. /\ \A m \in LevelBlocks \ {l} : /\ b2.level[m].side = b.level[m].side
                                      /\ b2.level[m].price = b.level[m].price
                                      /\ b2.level[m].first = b.level[m].first
      /\ b2.free_level = b.free_level \ {l}
  BY DEF Inserted, Starts
<1> DEFINE ov2 == [ov EXCEPT ![l] = <<o>>]
           w == <<o>>
<1>1. b \in BookType /\ LevelsAre(b, lv) /\ QueuesAre(b, ov) /\ OrdersAre(b, ov, r, n)
  BY DEF BookIs
<1>2. o \in OrderBlocks /\ l \in LevelBlocks /\ l \in b.free_level
  BY <1>1 DEF BookType, LevelsAre
<1>3. /\ ov2 \in [LevelBlocks -> Seq(OrderBlocks)] /\ ov2[l] = w
      /\ \A m \in LevelBlocks : m # l => ov2[m] = ov[m]
  BY <1>1, <1>2 DEF QueuesAre
<1> HIDE DEF ov2, o, l
<1>4. Len(w) = 1 /\ w[1] = o /\ Blocks(w) = {o}
  BY DEF Blocks
<1>5. Once(w) /\ IsRing(b2.order, w)
  BY <1>4, <1>a DEF Once, IsRing, Succ, Pred
<1> HIDE DEF w
<1>6. ASSUME NEW m \in LevelBlocks \ b.free_level
      PROVE  /\ Len(ov[m]) # 0 /\ Once(ov[m]) /\ IsRing(b2.order, ov[m])
             /\ b2.level[m].first = ov[m][1]
             /\ \A x \in Blocks(ov[m]) : /\ b2.order[x].side = b2.level[m].side
                                         /\ b2.order[x].price = b2.level[m].price
             /\ \A j, k \in 1 .. Len(ov[m]) :
                  j < k => b2.order[ov[m][j]].id < b2.order[ov[m][k]].id
  <2>1. \A x \in Blocks(ov[m]) : b2.order[x] = b.order[x]
    BY <1>1, <1>a, NextIsNotLinked DEF o
  <2>2. /\ Len(ov[m]) # 0 /\ Once(ov[m]) /\ IsRing(b.order, ov[m]) /\ b.level[m].first = ov[m][1]
        /\ \A x \in Blocks(ov[m]) : /\ b.order[x].side = b.level[m].side
                                    /\ b.order[x].price = b.level[m].price
    BY <1>1 DEF QueuesAre
  <2>3. IsRing(b2.order, ov[m])
    BY <2>1, <2>2, RingKept
  <2>4. \A k \in 1 .. Len(ov[m]) : b2.order[ov[m][k]] = b.order[ov[m][k]]
    BY <2>1 DEF Blocks
  <2>5. \A j, k \in 1 .. Len(ov[m]) : j < k => b.order[ov[m][j]].id < b.order[ov[m][k]].id
    BY <1>1 DEF QueuesAre
  <2>6. m \in LevelBlocks \ {l}
    BY <1>2
  <2> QED BY <2>1, <2>2, <2>3, <2>4, <2>5, <2>6, <1>b
<1>7. ASSUME NEW m \in LevelBlocks \ b2.free_level, m # l
      PROVE  m \in LevelBlocks \ b.free_level /\ ov2[m] = ov[m]
  BY <1>3, <1>7, <1>b
<1>8. QueuesAre(b2, ov2)
  <2>1. ASSUME NEW m \in LevelBlocks \ b2.free_level
        PROVE  /\ Len(ov2[m]) # 0 /\ Once(ov2[m]) /\ IsRing(b2.order, ov2[m])
               /\ b2.level[m].first = ov2[m][1]
               /\ \A x \in Blocks(ov2[m]) : /\ b2.order[x].side = b2.level[m].side
                                            /\ b2.order[x].price = b2.level[m].price
               /\ \A j, k \in 1 .. Len(ov2[m]) :
                    j < k => b2.order[ov2[m][j]].id < b2.order[ov2[m][k]].id
    <3>1. CASE m = l
      BY <3>1, <1>3, <1>4, <1>5, <1>a
    <3>2. CASE m # l
      <4>1. m \in LevelBlocks \ b.free_level /\ ov2[m] = ov[m]
        BY <3>2, <1>7
      <4> QED BY <4>1, <1>6
    <3> QED BY <3>1, <3>2
  <2> QED BY <2>1, <1>3 DEF QueuesAre
<1> QED BY <1>8 DEF ov2, w, o, l

\* ADD at a price that has no level.
LEMMA StartsLevel ==
  ASSUME NEW b, NEW lv, NEW ov, NEW r, NEW n, BookIs(b, lv, ov, r, n),
         NEW s \in Sides, NEW price \in Prices, NEW qty \in Qtys, n \in OrderIds,
         getOrdersAtPrice(b, price) = Null,
         NEW p \in 1 .. (Len(lv[s]) + 1), NEW b2 \in BookType,
         Inserted(b, b2, lv, s, p, price), Takes(b, b2, n, s, price, qty), Starts(b, b2),
         NEW o, o = b.next_order, NEW l, l = b.next_level,
         NEW r2, Rests(r, r2, n, s, price, qty)
  PROVE  \E lv2, ov2 : BookIs(b2, lv2, ov2, r2, n + 1) /\ TopsKept(b, b2, ov, ov2, s, price)
<1> DEFINE lv2 == [lv EXCEPT ![s] = WithBlock(lv[s], p, b.next_level)]
           ov2 == [ov EXCEPT ![l] = <<o>>]
<1>1. b \in BookType /\ LevelsAre(b, lv) /\ QueuesAre(b, ov) /\ OrdersAre(b, ov, r, n)
  BY DEF BookIs
<1>2. o \in OrderBlocks /\ l \in LevelBlocks /\ l \in b.free_level
  BY <1>1 DEF BookType, LevelsAre
<1>3. b.at[priceToIndex(price)] = Null
  BY DEF getOrdersAtPrice
<1>4. LevelsAre(b2, lv2)
  BY <1>1, <1>3, LevelInserted
<1>5. /\ b2.free_level = b.free_level \ {l} /\ b2.level[l].side = s /\ b2.level[l].price = price
      /\ \A m \in LevelBlocks \ {l} : /\ b2.level[m].side = b.level[m].side
                                      /\ b2.level[m].price = b.level[m].price
      /\ b2.at = [b.at EXCEPT ![priceToIndex(price)] = l]
  BY DEF Inserted
<1>6. \A y \in OrderBlocks \ {o} : b2.order[y] = b.order[y]
  BY DEF Starts
<1>7. QueuesAre(b2, ov2)
  BY QueueStarts
<1>8. /\ ov2[l] = <<o>> /\ Blocks(<<o>>) = {o}
      /\ \A m \in LevelBlocks : m # l => ov2[m] = ov[m]
  BY <1>1, <1>2 DEF QueuesAre, Blocks
<1> HIDE DEF lv2, ov2
<1>9. Serves(b, b2, ov, ov2, l, price)
  <2>1. priceToIndex(price) \in Index
    BY IndexOfPrice, InputAssumption
  <2>2. \A i \in Index : b.at[i] # Null => b2.at[i] = b.at[i]
    BY <2>1, <1>1, <1>3, <1>5 DEF BookType
  <2>3. getOrdersAtPrice(b2, price) = l
    BY <2>1, <1>1, <1>5 DEF getOrdersAtPrice, BookType
  <2>4. LevelBlocks \ b2.free_level = (LevelBlocks \ b.free_level) \cup {l}
    BY <1>2, <1>5
  <2>5. \A m \in LevelBlocks \ b.free_level : m # l => ov2[m] = ov[m]
    BY <1>8
  <2>6. Blocks(ov2[l]) = {b.next_order} \cup {x \in Blocks(ov[l]) : l \notin b.free_level}
    BY <1>2, <1>8
  <2> QED BY <2>2, <2>3, <2>4, <2>5, <2>6 DEF Serves
<1>10. OrdersAre(b2, ov2, r2, n + 1)
  BY <1>2, <1>9, OrderArrives
<1>11. TopsKept(b, b2, ov, ov2, s, price)
  <2> SUFFICES ASSUME NEW t \in Sides, b.best[t] # Null,
                      t # s \/ Behind(s, price, b.level[b.best[t]].price)
               PROVE  /\ b2.best[t] = b.best[t]
                      /\ b2.level[b.best[t]].price = b.level[b.best[t]].price
                      /\ ov2[b.best[t]] = ov[b.best[t]]
                      /\ \A x \in Blocks(ov[b.best[t]]) : b2.order[x] = b.order[x]
    BY Zenon DEF TopsKept
  <2> DEFINE m == b.best[t]
  <2>1. /\ m \in LevelBlocks \ b.free_level /\ m = lv[t][1] /\ Len(lv[t]) \in Nat \ {0}
    BY <1>1, BestLevel
  <2>2. m # l /\ ov2[m] = ov[m] /\ b2.level[m].price = b.level[m].price
    BY <2>1, <1>2, <1>5, <1>8
  <2>3. \A x \in Blocks(ov[m]) : b2.order[x] = b.order[x]
    BY <1>1, <1>6, <2>1, NextIsNotLinked
  <2>4. b2.best = [b.best EXCEPT ![s] = WithBlock(lv[s], p, l)[1]]
    BY DEF Inserted
  <2>5. b2.best[t] = m
    <3>1. CASE t # s
      BY <3>1, <2>4, <1>1 DEF BookType
    <3>2. CASE t = s
      <4>1. p # 1
        <5>1. price \in Nat /\ b.level[m].price \in Nat
          BY <1>1, <2>1, LevelInUse, InputAssumption
        <5>2. ~Behind(s, b.level[m].price, price)
          BY <5>1, <3>2, BehindIsStrict
        <5>3. 1 \in 1 .. Len(lv[s])
          BY <2>1, <3>2
        <5> QED BY <5>2, <5>3, <2>1, <3>2 DEF Inserted
      <4>2. 1 \in 1 .. (Len(lv[s]) + 1) /\ 1 < p
        BY <4>1, <2>1, <3>2
      <4>3. WithBlock(lv[s], p, l)[1] = lv[s][1]
        BY <4>2 DEF WithBlock
      <4> QED BY <4>3, <2>1, <2>4, <3>2, <1>1 DEF BookType
    <3> QED BY <3>1, <3>2
  <2> QED BY <2>2, <2>3, <2>5
<1> QED BY <1>4, <1>7, <1>10, <1>11 DEF BookIs

-----------------------------------------------------------------------------
(* addOrdersAtPrice() puts the level where its price belongs. *)

\* Block new is linked between a and b, and nothing else changes.
Linked(level, node, new, a, b) ==
  /\ node \in [LevelBlocks -> LevelRecord]
  /\ node[new].prev = a /\ node[new].next = b
  /\ \A m \in LevelBlocks : /\ node[m].side = level[m].side /\ node[m].price = level[m].price
                            /\ node[m].first = level[m].first
  /\ \A m \in LevelBlocks \ {new} : /\ node[m].next = IF m = a THEN new ELSE level[m].next
                                    /\ node[m].prev = IF m = b THEN new ELSE level[m].prev

\* One pointer of level x is set to y.
SetsPrev(level, node, x, y) ==
  /\ node \in [LevelBlocks -> LevelRecord]
  /\ \A m \in LevelBlocks : /\ node[m].side = level[m].side /\ node[m].price = level[m].price
                            /\ node[m].first = level[m].first /\ node[m].next = level[m].next
                            /\ node[m].prev = IF m = x THEN y ELSE level[m].prev
SetsNext(level, node, x, y) ==
  /\ node \in [LevelBlocks -> LevelRecord]
  /\ \A m \in LevelBlocks : /\ node[m].side = level[m].side /\ node[m].price = level[m].price
                            /\ node[m].first = level[m].first /\ node[m].prev = level[m].prev
                            /\ node[m].next = IF m = x THEN y ELSE level[m].next

LEMMA PrevIsSet ==
  ASSUME NEW level \in [LevelBlocks -> LevelRecord], NEW x \in LevelBlocks, NEW y \in LevelBlocks
  PROVE  SetsPrev(level, [level EXCEPT ![x].prev = y], x, y)
<1> DEFINE node == [level EXCEPT ![x].prev = y]
           rec == [level[x] EXCEPT !.prev = y]
<1>1. /\ rec \in LevelRecord /\ rec.prev = y /\ rec.next = level[x].next
      /\ rec.side = level[x].side /\ rec.price = level[x].price /\ rec.first = level[x].first
  <2>1. level[x] \in LevelRecord
    OBVIOUS
  <2> QED BY <2>1 DEF LevelRecord
<1>2. node = [level EXCEPT ![x] = rec]
  OBVIOUS
<1> HIDE DEF rec
<1> QED BY <1>1, <1>2 DEF SetsPrev

LEMMA NextIsSet ==
  ASSUME NEW level \in [LevelBlocks -> LevelRecord], NEW x \in LevelBlocks, NEW y \in LevelBlocks
  PROVE  SetsNext(level, [level EXCEPT ![x].next = y], x, y)
<1> DEFINE node == [level EXCEPT ![x].next = y]
           rec == [level[x] EXCEPT !.next = y]
<1>1. /\ rec \in LevelRecord /\ rec.next = y /\ rec.prev = level[x].prev
      /\ rec.side = level[x].side /\ rec.price = level[x].price /\ rec.first = level[x].first
  <2>1. level[x] \in LevelRecord
    OBVIOUS
  <2> QED BY <2>1 DEF LevelRecord
<1>2. node = [level EXCEPT ![x] = rec]
  OBVIOUS
<1> HIDE DEF rec
<1> QED BY <1>1, <1>2 DEF SetsNext

LEMMA LinkBeforeLinks ==
  ASSUME NEW level \in [LevelBlocks -> LevelRecord], NEW new \in LevelBlocks,
         NEW target \in LevelBlocks \ {new}, NEW a \in LevelBlocks \ {new}, level[target].prev = a
  PROVE  Linked(level, LinkBefore(level, new, target), new, a, target)
<1> DEFINE l0 == [level EXCEPT ![new].prev = a]
           l1 == [l0 EXCEPT ![new].next = target]
           l2 == [l1 EXCEPT ![a].next = new]
           l3 == [l2 EXCEPT ![target].prev = new]
<1>0. SetsPrev(level, l0, new, a) /\ l0 \in [LevelBlocks -> LevelRecord]
  BY PrevIsSet DEF SetsPrev
<1> HIDE DEF l0
<1>1. SetsNext(l0, l1, new, target) /\ l1 \in [LevelBlocks -> LevelRecord]
  BY <1>0, NextIsSet DEF SetsNext
<1> HIDE DEF l1
<1>2. SetsNext(l1, l2, a, new) /\ l2 \in [LevelBlocks -> LevelRecord]
  BY <1>1, NextIsSet DEF SetsNext
<1> HIDE DEF l2
<1>3. SetsPrev(l2, l3, target, new)
  BY <1>2, PrevIsSet
<1> HIDE DEF l3
<1>4. LinkBefore(level, new, target) = l3
  <2>1. l1[target].prev = a /\ l1[new].prev = a
    BY <1>0, <1>1 DEF SetsPrev, SetsNext
  <2>2. l1 = [level EXCEPT ![new].prev = level[target].prev, ![new].next = target]
    BY DEF l0, l1
  <2> HIDE DEF l1
  <2> QED BY <2>1, <2>2 DEF LinkBefore, l2, l3
<1>5. Linked(level, l3, new, a, target)
  BY <1>0, <1>1, <1>2, <1>3 DEF Linked, SetsPrev, SetsNext
<1> QED BY <1>4, <1>5

LEMMA LinkAfterLinks ==
  ASSUME NEW level \in [LevelBlocks -> LevelRecord], NEW new \in LevelBlocks,
         NEW target \in LevelBlocks \ {new}, NEW b \in LevelBlocks \ {new}, level[target].next = b
  PROVE  Linked(level, LinkAfter(level, new, target), new, target, b)
<1> DEFINE l1 == [level EXCEPT ![new].prev = target]
           l2 == [l1 EXCEPT ![b].prev = new]
           l3 == [l2 EXCEPT ![new].next = b]
           l4 == [l3 EXCEPT ![target].next = new]
<1>1. SetsPrev(level, l1, new, target) /\ l1 \in [LevelBlocks -> LevelRecord]
  BY PrevIsSet DEF SetsPrev
<1> HIDE DEF l1
<1>2. SetsPrev(l1, l2, b, new) /\ l2 \in [LevelBlocks -> LevelRecord]
  BY <1>1, PrevIsSet DEF SetsPrev
<1> HIDE DEF l2
<1>3. SetsNext(l2, l3, new, b) /\ l3 \in [LevelBlocks -> LevelRecord]
  BY <1>2, NextIsSet DEF SetsNext
<1> HIDE DEF l3
<1>4. SetsNext(l3, l4, target, new)
  BY <1>3, NextIsSet
<1> HIDE DEF l4
<1>5. LinkAfter(level, new, target) = l4
  <2>1. l1[target].next = b /\ l2[target].next = b
    BY <1>1, <1>2 DEF SetsPrev
  <2> QED BY <2>1 DEF LinkAfter, l1, l2, l3, l4
<1>6. Linked(level, l4, new, target, b)
  BY <1>1, <1>2, <1>3, <1>4 DEF Linked, SetsPrev, SetsNext
<1> QED BY <1>5, <1>6

\* The loop stops at the first level that the price is not behind, or at the best one again.
StopsAt(level, w, s, price, q) ==
  /\ \A k \in 1 .. Len(w) : k < q => Behind(s, price, level[w[k]].price)
  /\ q <= Len(w) => ~Behind(s, price, level[w[q]].price)
  /\ FindTarget(level, w[1], s, price) = IF q = Len(w) + 1 THEN w[1] ELSE w[q]

LEMMA TargetFound ==
  ASSUME NEW level, NEW w \in Seq(LevelBlocks), Once(w), IsRing(level, w), Len(w) # 0,
         NEW s, NEW price, Behind(s, price, level[w[1]].price)
  PROVE  \E q \in 2 .. (Len(w) + 1) : StopsAt(level, w, s, price, q)
<1> USE DEF StopsAt
<1> DEFINE chain == Chain(level, w[1], LevelPoolSize)
           Stops(k) == chain[k] = w[1] \/ ~Behind(s, price, level[chain[k]].price)
           T == {k \in 1 .. LevelPoolSize : Stops(k)}
<1>1. Len(w) \in Nat /\ Len(w) <= LevelPoolSize /\ LevelPoolSize \in Nat
  <2>1. w \in Seq(0 .. (LevelPoolSize - 1)) /\ LevelPoolSize \in Nat \ {0}
    BY PoolsAssumption DEF LevelBlocks
  <2> QED BY <2>1, OnceIsShort
<1>2. /\ \A k \in 1 .. Len(w) : chain[k - 1] = w[k]
      /\ chain[Len(w)] = w[1]
  BY <1>1, NullIsNoBlock, ChainOfRing
<1>3. FindTarget(level, w[1], s, price) = chain[Min(T)]
  BY DEF FindTarget
<1> HIDE DEF chain
<1>4. Len(w) \in T /\ T \subseteq Nat /\ T \subseteq Int
  BY <1>1, <1>2
<1>5. PICK m \in T : \A k \in T : m <= k
  <2> HIDE DEF T
  <2> QED BY <1>4, LeastNatural
<1>6. Min(T) = m
  <2> HIDE DEF T
  <2> QED BY <1>4, <1>5, LeastIsMin
<1>7. m \in 1 .. Len(w) /\ m <= Len(w)
  BY <1>4, <1>5, <1>1
<1>8. ASSUME NEW k \in 1 .. Len(w), k < m + 1 PROVE Behind(s, price, level[w[k]].price)
  <2>1. CASE k = 1
    BY <2>1
  <2>2. CASE k # 1
    <3>1. k - 1 \in 1 .. LevelPoolSize /\ k - 1 < m /\ m \in Nat /\ k - 1 \in Nat
      BY <2>2, <1>1, <1>7, <1>8
    <3>2. k - 1 \notin T
      <4> HIDE DEF T
      <4> QED BY <3>1, <1>5
    <3> QED BY <3>1, <3>2, <1>2
  <2> QED BY <2>1, <2>2
<1>9. CASE m = Len(w)
  <2>1. FindTarget(level, w[1], s, price) = w[1]
    BY <1>2, <1>3, <1>6, <1>9
  <2> HIDE DEF T, StopsAt
  <2>2. StopsAt(level, w, s, price, Len(w) + 1)
    BY <2>1, <1>1, <1>8, <1>9 DEF StopsAt
  <2>3. Len(w) + 1 \in 2 .. (Len(w) + 1)
    BY <1>1
  <2> QED BY <2>2, <2>3
<1>10. CASE m # Len(w)
  <2>1. m + 1 \in 1 .. Len(w) /\ (m + 1) - 1 = m /\ m + 1 # Len(w) + 1 /\ m + 1 \in 2 .. (Len(w) + 1)
    BY <1>1, <1>7, <1>10
  <2>2. chain[m] = w[m + 1]
    BY <2>1, <1>2
  <2>3. w[m + 1] # w[1]
    BY <2>1, <1>1, <1>7 DEF Once
  <2>4. ~Behind(s, price, level[w[m + 1]].price)
    BY <1>5, <2>2, <2>3
  <2>5. FindTarget(level, w[1], s, price) = w[m + 1]
    BY <1>3, <1>6, <2>2
  <2> QED BY <2>1, <2>4, <2>5, <1>8
<1> QED BY <1>9, <1>10

\* The level is linked at position p of ring w, and the other rings are as they were.
Placed(w, level, node, l, p) ==
  /\ node \in [LevelBlocks -> LevelRecord]
  /\ \A m \in LevelBlocks : /\ node[m].side = level[m].side /\ node[m].price = level[m].price
                            /\ node[m].first = level[m].first
  /\ IsRing(node, WithBlock(w, p, l))
  /\ \A m \in LevelBlocks \ {l} : m \notin Blocks(w) =>
       node[m].prev = level[m].prev /\ node[m].next = level[m].next

LEMMA LinkedIsPlaced ==
  ASSUME NEW w \in Seq(LevelBlocks), Len(w) # 0, Once(w), NEW level, IsRing(level, w),
         NEW l \in LevelBlocks, l \notin Blocks(w), NEW p \in 1 .. (Len(w) + 1), NEW node, NEW a, NEW b,
         a = w[IF p = 1 THEN Len(w) ELSE p - 1], b = w[IF p = Len(w) + 1 THEN 1 ELSE p],
         Linked(level, node, l, a, b)
  PROVE  Placed(w, level, node, l, p)
<1>1. \A y \in Blocks(w) : y \in LevelBlocks \ {l}
  BY DEF Blocks
<1>2. \A y \in Blocks(w) : /\ node[y].next = IF y = a THEN l ELSE level[y].next
                           /\ node[y].prev = IF y = b THEN l ELSE level[y].prev
  BY <1>1 DEF Linked
<1>3. node[l].prev = a /\ node[l].next = b
  BY DEF Linked
<1>4. IsRing(node, WithBlock(w, p, l))
  BY <1>2, <1>3, RingWithBlock
<1>5. Len(w) \in Nat /\ (IF p = 1 THEN Len(w) ELSE p - 1) \in 1 .. Len(w)
      /\ (IF p = Len(w) + 1 THEN 1 ELSE p) \in 1 .. Len(w)
  OBVIOUS
<1>6. a \in Blocks(w) /\ b \in Blocks(w)
  BY <1>5 DEF Blocks
<1> QED BY <1>4, <1>6 DEF Placed, Linked

\* Its price is behind those before p, and those from p on are behind it.
Between(w, level, s, price, p) ==
  \A k \in 1 .. Len(w) : IF k < p THEN Behind(s, price, level[w[k]].price)
                         ELSE Behind(s, level[w[k]].price, price)

\* Book d is c with level l, which was filled in, in the list of its side.
GoesIn(c, d, w, l, s, price, p) ==
  /\ d \in BookType
  /\ d.order = c.order /\ d.free_order = c.free_order /\ d.free_level = c.free_level
  /\ d.next_order = c.next_order /\ d.next_level = c.next_level /\ d.by_id = c.by_id
  /\ d.at = [c.at EXCEPT ![priceToIndex(price)] = l]
  /\ d.best = [c.best EXCEPT ![s] = WithBlock(w, p, l)[1]]
  /\ Placed(w, c.level, d.level, l, p) /\ Between(w, c.level, s, price, p)

\* Level l is filled in, and no level of its side has the price.
MayGoIn(c, w, l, s, price) ==
  /\ c \in BookType /\ l \in LevelBlocks /\ s \in Sides /\ price \in Nat
  /\ c.level[l].side = s /\ c.level[l].price = price
  /\ w \in Seq(LevelBlocks) /\ Once(w) /\ IsRing(c.level, w) /\ l \notin Blocks(w)
  /\ c.best[s] = HeadOf(w)
  /\ \A j, k \in 1 .. Len(w) : j < k => Behind(s, c.level[w[k]].price, c.level[w[j]].price)
  /\ \A k \in 1 .. Len(w) : c.level[w[k]].price # price

\* The fields that the assignments of addOrdersAtPrice() write.
Writes(c, at, best, level, d) ==
  /\ c \in BookType /\ d = [c EXCEPT !.at = at, !.best = best, !.level = level]
  /\ at \in [Index -> LevelBlocks \cup {Null}] /\ best \in [Sides -> LevelBlocks \cup {Null}]
  /\ level \in [LevelBlocks -> LevelRecord]

LEMMA FieldsWritten ==
  ASSUME NEW c, NEW at, NEW best, NEW level, NEW d, Writes(c, at, best, level, d)
  PROVE  /\ d \in BookType
         /\ d.order = c.order /\ d.free_order = c.free_order /\ d.free_level = c.free_level
         /\ d.next_order = c.next_order /\ d.next_level = c.next_level /\ d.by_id = c.by_id
         /\ d.at = at /\ d.best = best /\ d.level = level
BY DEF BookType, Writes

\* The first level of a side.
LEMMA FirstGoesIn ==
  ASSUME NEW c, NEW w, NEW l, NEW s, NEW price, MayGoIn(c, w, l, s, price), Len(w) = 0
  PROVE  GoesIn(c, addOrdersAtPrice(c, l), w, l, s, price, 1)
<1> DEFINE node == [c.level EXCEPT ![l].prev = l, ![l].next = l]
           at == [c.at EXCEPT ![priceToIndex(price)] = l]
           best == [c.best EXCEPT ![s] = l]
           d == [c EXCEPT !.at = at, !.best = best, !.level = node]
           w2 == WithBlock(w, 1, l)
<1> USE DEF MayGoIn
<1>1. c.best[s] = Null /\ w = << >>
  BY DEF HeadOf
<1>2. addOrdersAtPrice(c, l) = d
  BY <1>1 DEF addOrdersAtPrice, BookType
<1>3. w2 = <<l>>
  BY <1>1 DEF WithBlock
<1>4. /\ node \in [LevelBlocks -> LevelRecord]
      /\ node[l].prev = l /\ node[l].next = l
      /\ \A m \in LevelBlocks : /\ node[m].side = c.level[m].side /\ node[m].price = c.level[m].price
                                /\ node[m].first = c.level[m].first
      /\ \A m \in LevelBlocks \ {l} : node[m].prev = c.level[m].prev /\ node[m].next = c.level[m].next
  <2>1. c.level \in [LevelBlocks -> LevelRecord] /\ l \in LevelBlocks
    BY DEF BookType
  <2> QED BY <2>1 DEF LevelRecord
<1>5. at \in [Index -> LevelBlocks \cup {Null}] /\ best \in [Sides -> LevelBlocks \cup {Null}]
  BY DEF BookType
<1> HIDE DEF node, at, best
<1>6. /\ d \in BookType
      /\ d.order = c.order /\ d.free_order = c.free_order /\ d.free_level = c.free_level
      /\ d.next_order = c.next_order /\ d.next_level = c.next_level /\ d.by_id = c.by_id
      /\ d.at = at /\ d.best = best /\ d.level = node
  <2>1. Writes(c, at, best, node, d)
    BY <1>4, <1>5 DEF Writes
  <2> HIDE DEF d
  <2> QED BY <2>1, FieldsWritten
<1>7. IsRing(node, <<l>>)
  BY <1>4 DEF IsRing, Succ, Pred
<1> HIDE DEF d
<1>8. Placed(w, c.level, d.level, l, 1)
  BY <1>3, <1>4, <1>6, <1>7 DEF Placed
<1>9. Between(w, c.level, s, price, 1)
  BY <1>1 DEF Between
<1>10. best = [c.best EXCEPT ![s] = w2[1]]
  BY <1>3 DEF best
<1> QED BY <1>2, <1>6, <1>8, <1>9, <1>10 DEF GoesIn, at

\* A level that is not the first one, once its neighbours are known.
LEMMA NextGoesIn ==
  ASSUME NEW c, NEW w, NEW l, NEW s, NEW price, MayGoIn(c, w, l, s, price), Len(w) # 0,
         NEW p \in 1 .. (Len(w) + 1), Between(w, c.level, s, price, p), NEW node, NEW a, NEW b,
         a = w[IF p = 1 THEN Len(w) ELSE p - 1], b = w[IF p = Len(w) + 1 THEN 1 ELSE p],
         Linked(c.level, node, l, a, b), NEW at, NEW best, NEW d,
         d = [c EXCEPT !.at = at, !.best = best, !.level = node],
         at = [c.at EXCEPT ![priceToIndex(price)] = l],
         best = [c.best EXCEPT ![s] = IF p = 1 THEN l ELSE @]
  PROVE  GoesIn(c, d, w, l, s, price, p)
<1> USE DEF MayGoIn
<1>1. Placed(w, c.level, node, l, p)
  BY LinkedIsPlaced
<1>2. at \in [Index -> LevelBlocks \cup {Null}] /\ best \in [Sides -> LevelBlocks \cup {Null}]
      /\ node \in [LevelBlocks -> LevelRecord] /\ c \in BookType
  BY DEF BookType, Linked
<1>3. /\ d \in BookType
      /\ d.order = c.order /\ d.free_order = c.free_order /\ d.free_level = c.free_level
      /\ d.next_order = c.next_order /\ d.next_level = c.next_level /\ d.by_id = c.by_id
      /\ d.at = at /\ d.best = best /\ d.level = node
  <2>1. Writes(c, at, best, node, d)
    BY <1>2 DEF Writes
  <2> QED BY <2>1, FieldsWritten
<1>4. WithBlock(w, p, l)[1] = IF p = 1 THEN l ELSE w[1]
  <2>1. Len(w) \in Nat
    OBVIOUS
  <2>2. 1 \in 1 .. (Len(w) + 1) /\ (1 < p <=> p # 1)
    BY <2>1
  <2> QED BY <2>2 DEF WithBlock
<1>5. c.best[s] = w[1]
  BY DEF HeadOf
<1>6. best = [c.best EXCEPT ![s] = WithBlock(w, p, l)[1]]
  BY <1>4, <1>5
<1> QED BY <1>1, <1>3, <1>6 DEF GoesIn

\* addOrdersAtPrice() links the level where its price belongs.
LEMMA LevelGoesIn ==
  ASSUME NEW c, NEW w, NEW l, NEW s, NEW price, MayGoIn(c, w, l, s, price)
  PROVE  \E p \in 1 .. (Len(w) + 1) : GoesIn(c, addOrdersAtPrice(c, l), w, l, s, price, p)
<1>0. /\ c \in BookType /\ l \in LevelBlocks /\ s \in Sides /\ price \in Nat
      /\ c.level[l].side = s /\ c.level[l].price = price
      /\ w \in Seq(LevelBlocks) /\ Once(w) /\ IsRing(c.level, w) /\ l \notin Blocks(w)
      /\ c.best[s] = HeadOf(w) /\ Len(w) \in Nat
  BY DEF MayGoIn
<1>1. CASE Len(w) = 0
  <2>1. 1 \in 1 .. (Len(w) + 1)
    BY <1>0
  <2> QED BY <2>1, <1>1, FirstGoesIn
<1>2. CASE Len(w) # 0
  <2> DEFINE price1 == c.level[w[1]].price
             at == [c.at EXCEPT ![priceToIndex(price)] = l]
             last == w[Len(w)]
  <2>1. /\ 1 \in 1 .. Len(w) /\ Len(w) \in 1 .. Len(w)
        /\ \A k \in 1 .. Len(w) : w[k] \in LevelBlocks \ {l} /\ w[k] \in Blocks(w)
    BY <1>0, <1>2 DEF Blocks
  <2>2. c.best[s] = w[1] /\ w[1] # Null
    BY <1>0, <1>2, <2>1, NullIsNoBlock DEF HeadOf
  <2>3. c.level \in [LevelBlocks -> LevelRecord] /\ \A k \in 1 .. Len(w) : c.level[w[k]].price \in Nat
    BY <1>0, <2>1 DEF BookType, LevelRecord
  <2>4. c.level[w[1]].prev = last /\ c.level[last].next = w[1]
    BY <1>0, <2>1 DEF IsRing, Succ, Pred
  <2>5. \A k \in 1 .. Len(w) : c.level[w[k]].price # price
    BY DEF MayGoIn
  <2>6. ASSUME NEW k \in 1 .. Len(w), NEW q, ~Behind(s, price, c.level[w[k]].price)
        PROVE  Behind(s, c.level[w[k]].price, price)
    BY <1>0, <2>3, <2>5, <2>6, BehindIsStrict
  <2>7. ASSUME NEW q \in 1 .. Len(w), ~Behind(s, price, c.level[w[q]].price),
               NEW k \in 1 .. Len(w), k >= q
        PROVE  Behind(s, c.level[w[k]].price, price)
    <3>1. Behind(s, c.level[w[q]].price, price)
      BY <2>6, <2>7
    <3>2. CASE k = q
      BY <3>1, <3>2
    <3>3. CASE k # q
      <4>1. q < k
        BY <3>3, <2>7, <1>0
      <4>2. Behind(s, c.level[w[k]].price, c.level[w[q]].price)
        BY <4>1 DEF MayGoIn
      <4> QED BY <3>1, <4>2, <2>3, <1>0, BehindIsTransitive
    <3> QED BY <3>2, <3>3
  <2>8. CASE ~Behind(s, price, price1)
    <3> DEFINE before == LinkBefore(c.level, l, w[1])
               best == [c.best EXCEPT ![s] = l]
               node == [before EXCEPT ![w[1]].next = IF @ = w[1] THEN l ELSE @]
               d == [c EXCEPT !.at = at, !.best = best, !.level = node]
    <3>1. Linked(c.level, before, l, last, w[1])
      BY <1>0, <2>1, <2>3, <2>4, LinkBeforeLinks
    <3>2. Behind(s, price1, price)
      BY <2>1, <2>6, <2>8
    <3>3. addOrdersAtPrice(c, l) = d
      BY <1>0, <2>2, <2>8, <3>2 DEF addOrdersAtPrice, BookType
    <3> HIDE DEF before
    <3>4. before[w[1]].next # w[1]
      <4>1. before[w[1]].next = IF w[1] = last THEN l ELSE c.level[w[1]].next
        BY <2>1, <3>1 DEF Linked
      <4>2. CASE w[1] = last
        BY <4>1, <4>2, <2>1
      <4>3. CASE w[1] # last
        <5>1. Len(w) # 1 /\ c.level[w[1]].next = w[2] /\ 2 \in 1 .. Len(w)
          BY <4>3, <1>0, <2>1 DEF IsRing, Succ
        <5> QED BY <4>1, <4>3, <5>1, <1>0, <2>1 DEF Once
      <4> QED BY <4>2, <4>3
    <3>5. node = before
      <4>1. before \in [LevelBlocks -> LevelRecord]
        BY <3>1 DEF Linked
      <4> QED BY <4>1, <3>4, <2>1 DEF LevelRecord
    <3>6. Between(w, c.level, s, price, 1)
      BY <2>1, <2>7, <2>8, <1>0 DEF Between
    <3> HIDE DEF node, d
    <3>7. GoesIn(c, d, w, l, s, price, 1)
      <4>1. 1 \in 1 .. (Len(w) + 1) /\ 1 # Len(w) + 1
        BY <1>0, <1>2
      <4>2. d = [c EXCEPT !.at = at, !.best = best, !.level = before]
        BY <3>5 DEF d
      <4>3. best = [c.best EXCEPT ![s] = IF 1 = 1 THEN l ELSE @]
        OBVIOUS
      <4> HIDE DEF best, at
      <4> QED BY <1>2, <3>1, <3>6, <4>1, <4>2, <4>3, NextGoesIn DEF at
    <3> QED BY <3>3, <3>7, <1>0
  <2>9. CASE Behind(s, price, price1)
    <3>1. PICK q \in 2 .. (Len(w) + 1) :
            /\ \A k \in 1 .. Len(w) : k < q => Behind(s, price, c.level[w[k]].price)
            /\ q <= Len(w) => ~Behind(s, price, c.level[w[q]].price)
            /\ FindTarget(c.level, w[1], s, price) = IF q = Len(w) + 1 THEN w[1] ELSE w[q]
      <4>1. Behind(s, price, c.level[w[1]].price)
        BY <2>9
      <4> HIDE DEF price1, last, at
      <4>2. w \in Seq(LevelBlocks) /\ Once(w) /\ IsRing(c.level, w) /\ Len(w) # 0
        BY <1>0, <1>2
      <4>3. \E q \in 2 .. (Len(w) + 1) : StopsAt(c.level, w, s, price, q)
        BY <4>1, <4>2, TargetFound
      <4> QED BY <4>3 DEF StopsAt
    <3>2. Between(w, c.level, s, price, q)
      BY <3>1, <2>7, <1>0 DEF Between
    <3>3. c.best = [c.best EXCEPT ![s] = IF q = 1 THEN l ELSE @]
      BY <1>0 DEF BookType
    <3>4. CASE q = Len(w) + 1
      <4> DEFINE node == LinkAfter(c.level, l, last)
                 d == [c EXCEPT !.at = at, !.level = node]
      <4>1. Linked(c.level, node, l, last, w[1])
        BY <1>0, <2>1, <2>3, <2>4, LinkAfterLinks
      <4>2. addOrdersAtPrice(c, l) = d
        BY <1>0, <2>2, <2>4, <2>9, <3>1, <3>4 DEF addOrdersAtPrice
      <4> HIDE DEF node
      <4>3. d = [c EXCEPT !.at = at, !.best = c.best, !.level = node]
        BY <1>0 DEF BookType
      <4> HIDE DEF d, at
      <4>4. GoesIn(c, d, w, l, s, price, q)
        <5>1. /\ q \in 1 .. (Len(w) + 1)
              /\ last = w[IF q = 1 THEN Len(w) ELSE q - 1]
              /\ w[1] = w[IF q = Len(w) + 1 THEN 1 ELSE q]
          BY <3>4, <1>0
        <5>2. at = [c.at EXCEPT ![priceToIndex(price)] = l]
          BY DEF at
        <5> HIDE DEF last
        <5> QED BY <1>2, <3>2, <3>3, <4>1, <4>3, <5>1, <5>2, NextGoesIn
      <4> QED BY <4>2, <4>4
    <3>5. CASE q # Len(w) + 1
      <4> DEFINE node == LinkBefore(c.level, l, w[q])
                 d == [c EXCEPT !.at = at, !.level = node]
      <4>1. q \in 2 .. Len(w) /\ q - 1 \in 1 .. Len(w) /\ q \in 1 .. Len(w)
        BY <3>5, <1>0
      <4>2. c.level[w[q]].prev = w[q - 1] /\ w[q] # w[1]
        BY <4>1, <1>0, <2>1 DEF IsRing, Pred, Once
      <4>3. Linked(c.level, node, l, w[q - 1], w[q])
        BY <4>1, <4>2, <1>0, <2>1, <2>3, LinkBeforeLinks
      <4>4. ~Behind(s, price1, price)
        BY <2>1, <2>3, <2>9, <1>0, BehindIsStrict
      <4>5. addOrdersAtPrice(c, l) = d
        BY <1>0, <2>2, <2>9, <3>1, <3>5, <4>2, <4>4 DEF addOrdersAtPrice
      <4> HIDE DEF node
      <4>6. d = [c EXCEPT !.at = at, !.best = c.best, !.level = node]
        BY <1>0 DEF BookType
      <4> HIDE DEF d, at
      <4>7. GoesIn(c, d, w, l, s, price, q)
        <5>1. /\ q \in 1 .. (Len(w) + 1)
              /\ w[q - 1] = w[IF q = 1 THEN Len(w) ELSE q - 1]
              /\ w[q] = w[IF q = Len(w) + 1 THEN 1 ELSE q]
          BY <3>5, <4>1, <1>0
        <5>2. at = [c.at EXCEPT ![priceToIndex(price)] = l]
          BY DEF at
        <5> QED BY <1>2, <3>2, <3>3, <4>3, <4>6, <5>1, <5>2, NextGoesIn
      <4> QED BY <4>5, <4>7
    <3> QED BY <3>4, <3>5
  <2> QED BY <2>8, <2>9
<1> QED BY <1>1, <1>2

-----------------------------------------------------------------------------
(* allocate() of the two pools. *)

LEMMA NextFreeIsFree ==
  ASSUME NEW size \in Nat \ {0}, NEW i \in 0 .. (size - 1),
         NEW free \in SUBSET (0 .. (size - 1)), free # {}, i \notin free
  PROVE  NextFree(free, i, size) \in free
<1> DEFINE Block(d) == IF i + d < size THEN i + d ELSE i + d - size
           T == {d \in 1 .. (size - 1) : Block(d) \in free}
           IsNext(d) == Block(d) \in free /\ \A e \in 1 .. (d - 1) : Block(e) \notin free
<1>1. T # {}
  <2>1. PICK x \in free : TRUE
    OBVIOUS
  <2>2. x \in 0 .. (size - 1) /\ x # i
    BY <2>1
  <2> DEFINE d == IF x > i THEN x - i ELSE x + size - i
  <2>3. d \in 1 .. (size - 1) /\ Block(d) = x
    BY <2>2
  <2> QED BY <2>1, <2>3
<1>2. PICK d \in T : \A e \in T : d <= e
  <2>1. T \in SUBSET Nat
    OBVIOUS
  <2> HIDE DEF T
  <2> QED BY <1>1, <2>1, LeastNatural
<1>3. d \in 1 .. (size - 1) /\ IsNext(d)
  <2>1. d \in 1 .. (size - 1) /\ Block(d) \in free
    BY <1>2
  <2>2. ASSUME NEW e \in 1 .. (d - 1) PROVE Block(e) \notin free
    <3>1. e \in 1 .. (size - 1) /\ ~(d <= e)
      BY <2>1
    <3>2. e \notin T
      <4> HIDE DEF T
      <4> QED BY <3>1, <1>2
    <3> QED BY <3>1, <3>2
  <2> QED BY <2>1, <2>2
<1> DEFINE next == CHOOSE e \in 1 .. (size - 1) : IsNext(e)
<1>4. Block(next) \in free
  <2> HIDE DEF Block
  <2>1. IsNext(next)
    <3> HIDE DEF IsNext
    <3> QED BY <1>3
  <2> QED BY <2>1
<1>5. NextFree(free, i, size) = Block(next)
  BY DEF NextFree
<1> QED BY <1>4, <1>5

LEMMA OneIsLeft ==
  ASSUME NEW n \in Nat \ {0}, NEW free \in SUBSET (0 .. (n - 1)), Cardinality(free) > 1, NEW x
  PROVE  free \ {x} # {}
<1>1. IsFiniteSet({x}) /\ Cardinality({x}) = 1
  BY FS_Singleton
<1>2. SUFFICES ASSUME free \subseteq {x} PROVE FALSE
  OBVIOUS
<1>3. Cardinality(free) <= 1
  BY <1>1, <1>2, FS_Subset
<1>4. Cardinality(free) \in Nat
  BY <1>1, <1>2, FS_Subset, FS_CardinalityType
<1> QED BY <1>3, <1>4

LEMMA OrderAllocated ==
  ASSUME NEW b \in BookType, b.next_order \in b.free_order, Cardinality(b.free_order) > 1,
         NEW fields \in OrderRecord, NEW c, c = AllocateOrder(b, fields)
  PROVE  /\ c \in BookType /\ c.order = [b.order EXCEPT ![b.next_order] = fields]
         /\ c.free_order = b.free_order \ {b.next_order} /\ c.next_order \in c.free_order
         /\ c.level = b.level /\ c.free_level = b.free_level /\ c.next_level = b.next_level
         /\ c.at = b.at /\ c.best = b.best /\ c.by_id = b.by_id
<1> DEFINE o == b.next_order
           free == b.free_order \ {o}
           next == NextFree(free, o, OrderPoolSize)
<1>1. OrderPoolSize \in Nat \ {0} /\ o \in 0 .. (OrderPoolSize - 1)
      /\ b.free_order \in SUBSET (0 .. (OrderPoolSize - 1))
  BY PoolsAssumption DEF BookType, OrderBlocks
<1>2. free # {}
  BY <1>1, OneIsLeft
<1>3. free \in SUBSET (0 .. (OrderPoolSize - 1)) /\ o \notin free
  BY <1>1
<1>4. next \in free
  <2> HIDE DEF free, o
  <2> QED BY <1>1, <1>2, <1>3, NextFreeIsFree
<1>5. c = [b EXCEPT !.order = [b.order EXCEPT ![o] = fields], !.free_order = free, !.next_order = next]
  BY DEF AllocateOrder, BookType
<1>6. next \in OrderBlocks /\ free \in SUBSET OrderBlocks
  BY <1>3, <1>4 DEF OrderBlocks
<1>7. [b.order EXCEPT ![o] = fields] \in [OrderBlocks -> OrderRecord]
  BY DEF BookType
<1> HIDE DEF next
<1> QED BY <1>4, <1>5, <1>6, <1>7 DEF BookType

LEMMA LevelAllocated ==
  ASSUME NEW b \in BookType, b.next_level \in b.free_level, Cardinality(b.free_level) > 1,
         NEW fields \in LevelRecord, NEW c, c = AllocateLevel(b, fields)
  PROVE  /\ c \in BookType /\ c.level = [b.level EXCEPT ![b.next_level] = fields]
         /\ c.free_level = b.free_level \ {b.next_level} /\ c.next_level \in c.free_level
         /\ c.order = b.order /\ c.free_order = b.free_order /\ c.next_order = b.next_order
         /\ c.at = b.at /\ c.best = b.best /\ c.by_id = b.by_id
<1> DEFINE l == b.next_level
           free == b.free_level \ {l}
           next == NextFree(free, l, LevelPoolSize)
<1>1. LevelPoolSize \in Nat \ {0} /\ l \in 0 .. (LevelPoolSize - 1)
      /\ b.free_level \in SUBSET (0 .. (LevelPoolSize - 1))
  BY PoolsAssumption DEF BookType, LevelBlocks
<1>2. free # {}
  BY <1>1, OneIsLeft
<1>3. free \in SUBSET (0 .. (LevelPoolSize - 1)) /\ l \notin free
  BY <1>1
<1>4. next \in free
  <2> HIDE DEF free, l
  <2> QED BY <1>1, <1>2, <1>3, NextFreeIsFree
<1>5. c = [b EXCEPT !.level = [b.level EXCEPT ![l] = fields], !.free_level = free, !.next_level = next]
  BY DEF AllocateLevel, BookType
<1>6. next \in LevelBlocks /\ free \in SUBSET LevelBlocks
  BY <1>3, <1>4 DEF LevelBlocks
<1>7. [b.level EXCEPT ![l] = fields] \in [LevelBlocks -> LevelRecord]
  BY DEF BookType
<1> HIDE DEF next
<1> QED BY <1>4, <1>5, <1>6, <1>7 DEF BookType

-----------------------------------------------------------------------------
(* What an ADD that the guards of OnAdd let through finds and makes. *)

NewOrder(n, s, price, qty) ==
  [id |-> n, side |-> s, price |-> price, qty |-> qty, prev |-> Null, next |-> Null]

Arrives(b, lv, ov, r, n, s, price, qty, r2) ==
  /\ NoCollisions /\ BookIs(b, lv, ov, r, n) /\ n \in OrderIds
  /\ s \in Sides /\ price \in Prices /\ qty \in Qtys
  /\ \A i \in DOMAIN r : r[i].side # s => Behind(s, price, r[i].price)
  /\ Cardinality(b.free_order) > 1
  /\ getOrdersAtPrice(b, price) = Null => Cardinality(b.free_level) > 1
  /\ Rests(r, r2, n, s, price, qty)

LEMMA ArrivalFacts ==
  ASSUME NEW b, NEW lv, NEW ov, NEW r, NEW n, NEW s, NEW price, NEW qty, NEW r2,
         Arrives(b, lv, ov, r, n, s, price, qty, r2),
         NEW c, c = AllocateOrder(b, NewOrder(n, s, price, qty)), NEW o, o = b.next_order
  PROVE  /\ b \in BookType /\ o \in OrderBlocks /\ o # Null /\ o \in b.free_order
         /\ n \in Nat /\ price \in Nat /\ qty \in Nat /\ priceToIndex(price) \in Index
         /\ c \in BookType
         /\ c.order = [b.order EXCEPT ![o] = NewOrder(n, s, price, qty)]
         /\ c.free_order = b.free_order \ {o} /\ c.next_order \in c.free_order
         /\ c.level = b.level /\ c.free_level = b.free_level /\ c.next_level = b.next_level
         /\ c.at = b.at /\ c.best = b.best /\ c.by_id = b.by_id
<1>1. b \in BookType /\ o \in b.free_order /\ n \in Nat
  BY DEF Arrives, BookIs, OrdersAre
<1>2. o \in OrderBlocks /\ o # Null
  BY <1>1, NullIsNoBlock DEF BookType
<1>3. price \in Nat /\ qty \in Nat /\ priceToIndex(price) \in Index
  BY InputAssumption, IndexOfPrice DEF Arrives
<1>4. NewOrder(n, s, price, qty) \in OrderRecord
  BY <1>1, <1>3 DEF NewOrder, OrderRecord, Arrives
<1>5. Cardinality(b.free_order) > 1
  BY DEF Arrives
<1> QED BY <1>1, <1>2, <1>3, <1>4, <1>5, OrderAllocated

\* The price has a level.
LEMMA ArrivesAtLevel ==
  ASSUME NEW b, NEW lv, NEW ov, NEW r, NEW n, NEW s, NEW price, NEW qty, NEW r2,
         Arrives(b, lv, ov, r, n, s, price, qty, r2), getOrdersAtPrice(b, price) # Null,
         NEW b2, b2 = addOrder(AllocateOrder(b, NewOrder(n, s, price, qty)), b.next_order)
  PROVE  \E ov2 : BookIs(b2, lv, ov2, r2, n + 1) /\ TopsKept(b, b2, ov, ov2, s, price)
<1> DEFINE new == NewOrder(n, s, price, qty)
           c == AllocateOrder(b, new)
           o == b.next_order
           l == getOrdersAtPrice(b, price)
           w == ov[l]
           first == w[1]
           last == w[Len(w)]
           o1 == [c.order EXCEPT ![last].next = o]
           o2 == [o1 EXCEPT ![o].prev = last, ![o].next = first]
           o3 == [o2 EXCEPT ![first].prev = o]
           by_id == [c.by_id EXCEPT ![n] = o]
           d == [c EXCEPT !.order = o3, !.by_id = by_id]
<1> HIDE DEF c
<1>1. /\ b \in BookType /\ o \in OrderBlocks /\ o # Null /\ o \in b.free_order
      /\ n \in Nat /\ price \in Nat /\ qty \in Nat /\ priceToIndex(price) \in Index
      /\ c \in BookType /\ c.order = [b.order EXCEPT ![o] = new]
      /\ c.free_order = b.free_order \ {o} /\ c.next_order \in c.free_order
      /\ c.level = b.level /\ c.free_level = b.free_level /\ c.next_level = b.next_level
      /\ c.at = b.at /\ c.best = b.best /\ c.by_id = b.by_id
  <2> HIDE DEF o, new
  <2>1. c = AllocateOrder(b, NewOrder(n, s, price, qty)) /\ o = b.next_order
    BY DEF c, o, new
  <2> QED BY <2>1, ArrivalFacts DEF new
<1>2. BookIs(b, lv, ov, r, n) /\ LevelsAre(b, lv) /\ QueuesAre(b, ov) /\ OrdersAre(b, ov, r, n)
      /\ NoCollisions /\ n \in OrderIds /\ s \in Sides /\ price \in Prices /\ qty \in Qtys
      /\ Rests(r, r2, n, s, price, qty)
  BY DEF Arrives, BookIs
<1>3. l \in LevelBlocks \ b.free_level /\ b.level[l].side = s /\ b.level[l].price = price /\ l # Null
  <2>1. \A i \in DOMAIN r : r[i].side # s => Behind(s, price, r[i].price)
    BY DEF Arrives
  <2> QED BY <2>1, <1>2, LevelAtPrice, NullIsNoBlock
<1> HIDE DEF l
<1>4. /\ w \in Seq(OrderBlocks) /\ Len(w) \in Nat \ {0} /\ IsRing(b.order, w)
      /\ \A x \in Blocks(w) : x \in OrderBlocks \ {o}
      /\ b.level[l].first = first
  BY <1>1, <1>2, <1>3, QueueHasHead, NextIsNotLinked DEF QueuesAre
<1>5. first \in OrderBlocks \ {o} /\ last \in OrderBlocks \ {o} /\ b.order[first].prev = last
  <2>1. 1 \in 1 .. Len(w) /\ Len(w) \in 1 .. Len(w)
    BY <1>4
  <2>2. first \in Blocks(w) /\ last \in Blocks(w)
    BY <2>1 DEF Blocks
  <2> QED BY <2>1, <2>2, <1>4 DEF IsRing, Pred
<1> HIDE DEF w, first, last, o
<1>6. /\ c.order \in [OrderBlocks -> OrderRecord] /\ c.order[o] = new
      /\ \A y \in OrderBlocks \ {o} : c.order[y] = b.order[y]
  BY <1>1 DEF BookType
<1>7. /\ o1 \in [OrderBlocks -> OrderRecord]
      /\ \A y \in OrderBlocks : /\ o1[y].id = c.order[y].id /\ o1[y].side = c.order[y].side
                                /\ o1[y].price = c.order[y].price /\ o1[y].qty = c.order[y].qty
                                /\ o1[y].prev = c.order[y].prev
                                /\ o1[y].next = IF y = last THEN o ELSE c.order[y].next
                                /\ y # last => o1[y] = c.order[y]
  BY <1>1, <1>5, <1>6 DEF OrderRecord
<1> HIDE DEF o1
<1>8. /\ o2 \in [OrderBlocks -> OrderRecord]
      /\ o2[o].prev = last /\ o2[o].next = first
      /\ o2[o].id = o1[o].id /\ o2[o].side = o1[o].side
      /\ o2[o].price = o1[o].price /\ o2[o].qty = o1[o].qty
      /\ \A y \in OrderBlocks \ {o} : o2[y] = o1[y]
  <2> DEFINE rec == [o1[o] EXCEPT !.prev = last, !.next = first]
  <2>1. rec \in OrderRecord /\ rec.prev = last /\ rec.next = first
        /\ rec.id = o1[o].id /\ rec.side = o1[o].side
        /\ rec.price = o1[o].price /\ rec.qty = o1[o].qty
    <3>1. o1[o] \in OrderRecord /\ last \in OrderBlocks /\ first \in OrderBlocks
      BY <1>1, <1>5, <1>7
    <3> QED BY <3>1 DEF OrderRecord
  <2>2. o2 = [o1 EXCEPT ![o] = rec]
    BY <1>1, <1>7
  <2> HIDE DEF rec, o2
  <2> QED BY <1>1, <1>7, <2>1, <2>2
<1> HIDE DEF o2
<1>9. /\ o3 \in [OrderBlocks -> OrderRecord]
      /\ \A y \in OrderBlocks : /\ o3[y].id = o2[y].id /\ o3[y].side = o2[y].side
                                /\ o3[y].price = o2[y].price /\ o3[y].qty = o2[y].qty
                                /\ o3[y].next = o2[y].next
                                /\ o3[y].prev = IF y = first THEN o ELSE o2[y].prev
                                /\ y # first => o3[y] = o2[y]
  BY <1>1, <1>5, <1>8 DEF OrderRecord
<1> HIDE DEF o3
<1>10. b2 = d
  <2>1. c.order[o].price = price /\ c.order[o].id = n
    BY <1>6 DEF NewOrder
  <2>2. getOrdersAtPrice(c, price) = l
    BY <1>1 DEF getOrdersAtPrice, l
  <2>3. c.level[l].first = first /\ c.order[first].prev = last
    BY <1>1, <1>4, <1>5, <1>6
  <2>4. o1[first].prev = last
    BY <1>5, <1>7, <2>3
  <2>5. b2 = addOrder(c, o)
    BY Zenon DEF c, o
  <2>6. addOrder(c, o) = d
    BY <1>1, <1>3, <2>1, <2>2, <2>3, <2>4 DEF addOrder, o1, o2, o3, BookType
  <2> QED BY <2>5, <2>6
<1>11. by_id \in [OrderIds -> OrderBlocks \cup {Null}] /\ by_id = [b.by_id EXCEPT ![n] = o]
  BY <1>1 DEF BookType
<1> HIDE DEF by_id
<1>12. /\ d \in BookType /\ d.order = o3 /\ d.by_id = by_id /\ d.level = b.level /\ d.at = b.at
       /\ d.best = b.best /\ d.free_level = b.free_level /\ d.next_level = b.next_level
       /\ d.free_order = b.free_order \ {o} /\ d.next_order \in d.free_order
  BY <1>1, <1>9, <1>11 DEF BookType
<1> HIDE DEF d
<1>13. Takes(b, d, n, s, price, qty)
  BY <1>1, <1>5, <1>6, <1>7, <1>8, <1>9, <1>11, <1>12 DEF Takes, NewOrder, o
<1>14. d.order[o].prev = last /\ d.order[o].next = first
  BY <1>1, <1>5, <1>8, <1>9, <1>12
<1>15. ASSUME NEW y \in OrderBlocks \ {o}
       PROVE  /\ d.order[y].next = IF y = last THEN o ELSE b.order[y].next
              /\ d.order[y].prev = IF y = first THEN o ELSE b.order[y].prev
              /\ y # first /\ y # last => d.order[y] = b.order[y]
  BY <1>6, <1>7, <1>8, <1>9, <1>12
<1> QED BY <1>2, <1>3, <1>10, <1>12, <1>13, <1>14, <1>15, JoinsLevel DEF o, l, first, last, w

\* It has none: one is allocated.
LEMMA ArrivesFirst ==
  ASSUME NEW b, NEW lv, NEW ov, NEW r, NEW n, NEW s, NEW price, NEW qty, NEW r2,
         Arrives(b, lv, ov, r, n, s, price, qty, r2), getOrdersAtPrice(b, price) = Null,
         NEW b2, b2 = addOrder(AllocateOrder(b, NewOrder(n, s, price, qty)), b.next_order)
  PROVE  \E lv2, ov2 : BookIs(b2, lv2, ov2, r2, n + 1) /\ TopsKept(b, b2, ov, ov2, s, price)
<1> DEFINE new == NewOrder(n, s, price, qty)
           c == AllocateOrder(b, new)
           o == b.next_order
           l == b.next_level
           o1 == [c.order EXCEPT ![o].prev = o, ![o].next = o]
           c1 == [c EXCEPT !.order = o1]
           level == [side |-> s, price |-> price, first |-> o, prev |-> Null, next |-> Null]
           c2 == AllocateLevel(c1, level)
           d == addOrdersAtPrice(c2, l)
           w == lv[s]
           by_id == [c.by_id EXCEPT ![n] = o]
<1> HIDE DEF c
<1>1. /\ b \in BookType /\ o \in OrderBlocks /\ o # Null /\ o \in b.free_order
      /\ n \in Nat /\ price \in Nat /\ qty \in Nat /\ priceToIndex(price) \in Index
      /\ c \in BookType /\ c.order = [b.order EXCEPT ![o] = new]
      /\ c.free_order = b.free_order \ {o} /\ c.next_order \in c.free_order
      /\ c.level = b.level /\ c.free_level = b.free_level /\ c.next_level = b.next_level
      /\ c.at = b.at /\ c.best = b.best /\ c.by_id = b.by_id
  <2> HIDE DEF o, new
  <2>1. c = AllocateOrder(b, NewOrder(n, s, price, qty)) /\ o = b.next_order
    BY DEF c, o, new
  <2> QED BY <2>1, ArrivalFacts DEF new
<1>2. BookIs(b, lv, ov, r, n) /\ LevelsAre(b, lv) /\ QueuesAre(b, ov) /\ OrdersAre(b, ov, r, n)
      /\ n \in OrderIds /\ s \in Sides /\ price \in Prices /\ qty \in Qtys
      /\ Rests(r, r2, n, s, price, qty) /\ Cardinality(b.free_level) > 1
  BY DEF Arrives, BookIs
<1>3. l \in LevelBlocks /\ l \in b.free_level /\ b.next_level \in b.free_level
  BY <1>1, <1>2 DEF LevelsAre, BookType
<1> HIDE DEF l, o
<1>4. /\ c.order \in [OrderBlocks -> OrderRecord] /\ c.order[o] = new /\ new \in OrderRecord
      /\ \A y \in OrderBlocks \ {o} : c.order[y] = b.order[y]
      /\ new.id = n /\ new.side = s /\ new.price = price /\ new.qty = qty
  BY <1>1 DEF BookType, NewOrder
<1> HIDE DEF new
<1>5. /\ o1 \in [OrderBlocks -> OrderRecord]
      /\ o1[o].id = n /\ o1[o].side = s /\ o1[o].price = price /\ o1[o].qty = qty
      /\ o1[o].prev = o /\ o1[o].next = o
      /\ \A y \in OrderBlocks \ {o} : o1[y] = b.order[y]
  <2> DEFINE rec == [new EXCEPT !.prev = o, !.next = o]
  <2>1. rec \in OrderRecord /\ rec.prev = o /\ rec.next = o
        /\ rec.id = n /\ rec.side = s /\ rec.price = price /\ rec.qty = qty
    BY <1>1, <1>4 DEF OrderRecord
  <2>2. o1 = [c.order EXCEPT ![o] = rec]
    BY <1>1, <1>4
  <2> HIDE DEF rec, o1
  <2> QED BY <1>1, <1>4, <2>1, <2>2
<1>6. c1 = [c EXCEPT !.order[o].prev = o, !.order[o].next = o]
  BY <1>1 DEF BookType
<1> HIDE DEF o1
<1>7. /\ c1 \in BookType /\ c1.order = o1 /\ c1.free_order = c.free_order
      /\ c1.next_order = c.next_order /\ c1.by_id = c.by_id /\ c1.at = c.at /\ c1.best = c.best
      /\ c1.level = c.level /\ c1.free_level = c.free_level /\ c1.next_level = c.next_level
  BY <1>1, <1>5 DEF BookType
<1>8. level \in LevelRecord /\ level.side = s /\ level.price = price /\ level.first = o
  BY <1>1, <1>2 DEF LevelRecord
<1> HIDE DEF level, c2
<1>9. /\ c2 \in BookType /\ c2.level = [b.level EXCEPT ![l] = level]
      /\ c2.free_level = b.free_level \ {l} /\ c2.next_level \in c2.free_level
      /\ c2.order = o1 /\ c2.free_order = b.free_order \ {o} /\ c2.next_order \in c2.free_order
      /\ c2.at = b.at /\ c2.best = b.best /\ c2.by_id = b.by_id
  <2>1. c1.next_level \in c1.free_level /\ Cardinality(c1.free_level) > 1 /\ c2 = AllocateLevel(c1, level)
    BY <1>1, <1>2, <1>3, <1>7 DEF c2
  <2>2. c1.next_level = l
    BY <1>1, <1>7 DEF l
  <2> HIDE DEF c1
  <2> QED BY <2>1, <2>2, <1>1, <1>7, <1>8, LevelAllocated
<1>10. b2 = [d EXCEPT !.by_id[n] = o]
  <2>1. c.order[o].price = price /\ c.order[o].id = n /\ c.order[o].side = s
    BY <1>4
  <2>2. getOrdersAtPrice(c, price) = Null
    BY <1>1 DEF getOrdersAtPrice
  <2>3. b2 = addOrder(c, o) /\ c.next_level = l
    BY <1>1, Zenon DEF c, o, new, l
  <2>4. addOrder(c, o) = [addOrdersAtPrice(AllocateLevel(c1, level), c.next_level) EXCEPT !.by_id[n] = o]
    <3> HIDE DEF c1
    <3> QED BY <2>1, <2>2, <1>6 DEF addOrder, level
  <2> QED BY <2>3, <2>4 DEF c2
<1> HIDE DEF c1
<1>11. c2.level[l] = level /\ \A m \in LevelBlocks \ {l} : c2.level[m] = b.level[m]
  BY <1>1, <1>3, <1>9 DEF BookType
<1>12. /\ w \in Seq(LevelBlocks) /\ Once(w) /\ b.best[s] = HeadOf(w) /\ IsRing(b.level, w)
       /\ \A m \in Blocks(w) : m \in LevelBlocks \ {l}
       /\ \A k \in 1 .. Len(w) : w[k] \in LevelBlocks \ {l}
  <2>1. w \in Seq(LevelBlocks) /\ Once(w) /\ b.best[s] = HeadOf(w) /\ IsRing(b.level, w)
    BY <1>2 DEF LevelsAre
  <2>2. \A m \in Blocks(w) : m \in LevelBlocks \ {l}
    BY <1>1, <1>2, <1>3, LevelInUse
  <2> QED BY <2>1, <2>2 DEF Blocks
<1>13. MayGoIn(c2, w, l, s, price)
  <2>1. IsRing(c2.level, w)
    BY <1>11, <1>12, RingKept
  <2>2. \A j, k \in 1 .. Len(w) : j < k => Behind(s, c2.level[w[k]].price, c2.level[w[j]].price)
    BY <1>2, <1>11, <1>12 DEF LevelsAre
  <2>3. ASSUME NEW k \in 1 .. Len(w) PROVE c2.level[w[k]].price # price
    <3>1. w[k] \in Blocks(w) /\ w[k] # Null
      BY <1>12, NullIsNoBlock DEF Blocks
    <3>2. b.at[priceToIndex(b.level[w[k]].price)] = w[k]
      BY <3>1, <1>2 DEF LevelsAre
    <3> QED BY <3>1, <3>2, <1>11, <1>12 DEF getOrdersAtPrice
  <2>4. l \notin Blocks(w)
    BY <1>12
  <2> HIDE DEF w
  <2> QED BY <2>1, <2>2, <2>3, <2>4, <1>1, <1>2, <1>3, <1>8, <1>9, <1>11, <1>12 DEF MayGoIn
<1>14. PICK p \in 1 .. (Len(w) + 1) : GoesIn(c2, d, w, l, s, price, p)
  <2> HIDE DEF w
  <2> QED BY <1>13, LevelGoesIn
<1> HIDE DEF d
<1>15. /\ d \in BookType
       /\ d.order = o1 /\ d.free_order = b.free_order \ {o} /\ d.next_order \in d.free_order
       /\ d.free_level = b.free_level \ {l} /\ d.next_level \in d.free_level
       /\ d.by_id = b.by_id /\ d.at = [b.at EXCEPT ![priceToIndex(price)] = l]
       /\ d.best = [b.best EXCEPT ![s] = WithBlock(w, p, l)[1]]
       /\ Placed(w, c2.level, d.level, l, p) /\ Between(w, c2.level, s, price, p)
  BY <1>9, <1>14 DEF GoesIn
<1>16. /\ b2 \in BookType /\ b2.by_id = [b.by_id EXCEPT ![n] = o]
       /\ b2.order = d.order /\ b2.free_order = d.free_order /\ b2.next_order = d.next_order
       /\ b2.level = d.level /\ b2.free_level = d.free_level /\ b2.next_level = d.next_level
       /\ b2.at = d.at /\ b2.best = d.best
  <2> DEFINE ids == [d.by_id EXCEPT ![n] = o]
  <2>1. ids = [b.by_id EXCEPT ![n] = o] /\ b2 = [d EXCEPT !.by_id = ids] /\ d \in BookType
    BY <1>10, <1>15
  <2>2. ids \in [OrderIds -> OrderBlocks \cup {Null}]
    BY <2>1, <1>1, <1>2 DEF BookType
  <2> HIDE DEF ids
  <2> QED BY <2>1, <2>2 DEF BookType
<1>17. Inserted(b, b2, lv, s, p, price)
  <2>1. /\ b2.level[l].side = s /\ b2.level[l].price = price
        /\ \A m \in LevelBlocks \ {l} : /\ b2.level[m].side = b.level[m].side
                                        /\ b2.level[m].price = b.level[m].price
    BY <1>3, <1>8, <1>11, <1>15, <1>16 DEF Placed
  <2>2. IsRing(b2.level, WithBlock(w, p, l))
    BY <1>15, <1>16 DEF Placed
  <2>3. ASSUME NEW t \in Sides \ {s}, NEW m \in Blocks(lv[t])
        PROVE  b2.level[m].prev = b.level[m].prev /\ b2.level[m].next = b.level[m].next
    <3>1. m \in LevelBlocks \ {l}
      BY <1>1, <1>2, <1>3, LevelInUse
    <3>2. b.level[m].side = t
      BY <1>2 DEF LevelsAre
    <3>3. m \notin Blocks(w)
      BY <3>2, <1>2 DEF LevelsAre
    <3> QED BY <3>1, <3>3, <1>11, <1>15, <1>16 DEF Placed
  <2>4. \A k \in 1 .. Len(w) : IF k < p THEN Behind(s, price, b.level[w[k]].price)
                               ELSE Behind(s, b.level[w[k]].price, price)
    BY <1>11, <1>12, <1>15 DEF Between
  <2> QED BY <2>1, <2>2, <2>3, <2>4, <1>15, <1>16 DEF Inserted, l
<1>18. Takes(b, b2, n, s, price, qty)
  BY <1>5, <1>15, <1>16 DEF Takes, o
<1>19. Starts(b, b2)
  <2>1. b2.level[l].first = o /\ \A m \in LevelBlocks \ {l} : b2.level[m].first = b.level[m].first
    BY <1>3, <1>8, <1>11, <1>15, <1>16 DEF Placed
  <2> QED BY <2>1, <1>5, <1>15, <1>16 DEF Starts, o, l
<1> QED BY <1>2, <1>14, <1>16, <1>17, <1>18, <1>19, StartsLevel DEF o, l

-----------------------------------------------------------------------------
(* MODIFY. *)

QueueIs(b, w, l) ==
  /\ Len(w) # 0 /\ Once(w) /\ IsRing(b.order, w) /\ b.level[l].first = w[1]
  /\ \A o \in Blocks(w) :
       b.order[o].side = b.level[l].side /\ b.order[o].price = b.level[l].price
  /\ \A j, k \in 1 .. Len(w) : j < k => b.order[w[j]].id < b.order[w[k]].id

\* The fields that hold the lists together.
SameButQty(x, y) ==
  x.id = y.id /\ x.side = y.side /\ x.price = y.price /\ x.prev = y.prev /\ x.next = y.next

LEMMA QueueKept ==
  ASSUME NEW b, NEW b2, NEW w, NEW l, QueueIs(b, w, l),
         \A o \in Blocks(w) : SameButQty(b2.order[o], b.order[o]),
         b2.level[l].first = b.level[l].first, b2.level[l].side = b.level[l].side,
         b2.level[l].price = b.level[l].price
  PROVE  QueueIs(b2, w, l)
<1>1. IsRing(b2.order, w)
  BY RingKept DEF QueueIs, SameButQty
<1>2. \A k \in 1 .. Len(w) : b2.order[w[k]].id = b.order[w[k]].id
  BY DEF Blocks, SameButQty
<1> QED BY <1>1, <1>2 DEF QueueIs, SameButQty

\* An order that rests, its level and its place there.
LEMMA RestingOrder ==
  ASSUME NEW b, NEW lv, NEW ov, NEW r, NEW n, BookIs(b, lv, ov, r, n), NEW id \in DOMAIN r
  PROVE  LET o == b.by_id[id]
             l == getOrdersAtPrice(b, r[id].price)
         IN  /\ id \in OrderIds /\ o \in OrderBlocks /\ o \notin b.free_order
             /\ l \in LevelBlocks \ b.free_level /\ o \in Blocks(ov[l])
             /\ b.order[o].id = id /\ b.order[o].side = r[id].side
             /\ b.order[o].price = r[id].price /\ b.order[o].qty = r[id].qty
             /\ b.level[l].side = r[id].side /\ b.level[l].price = r[id].price
             /\ r[id].side \in Sides /\ r[id].price \in Prices /\ r[id].price \in Nat
             /\ priceToIndex(r[id].price) \in Index
<1> DEFINE o == b.by_id[id]
           l == getOrdersAtPrice(b, r[id].price)
<1>1. b \in BookType /\ LevelsAre(b, lv) /\ QueuesAre(b, ov) /\ OrdersAre(b, ov, r, n)
  BY DEF BookIs
<1>2. /\ id \in OrderIds /\ b.order[o].id = id /\ b.order[o].side = r[id].side
      /\ b.order[o].price = r[id].price /\ b.order[o].qty = r[id].qty
      /\ l # Null /\ o \in Blocks(ov[l])
      /\ r[id] \in [side : Sides, price : Prices, qty : Qtys]
  BY <1>1 DEF OrdersAre
<1>3. /\ r[id].side \in Sides /\ r[id].price \in Prices /\ r[id].price \in Nat
      /\ priceToIndex(r[id].price) \in Index
  BY <1>2, IndexOfPrice, InputAssumption
<1>4. l \in LevelBlocks \ b.free_level
  BY <1>1, <1>2, <1>3, LevelInUse DEF getOrdersAtPrice
<1>5. b.level[l].side = b.order[o].side /\ b.level[l].price = b.order[o].price
  BY <1>1, <1>2, <1>4 DEF QueuesAre
<1>6. o \in OrderBlocks
  BY <1>1, <1>2, <1>4, QueueHasHead
<1>7. o \notin b.free_order
  BY <1>1, <1>2, <1>6 DEF OrdersAre
<1> QED BY <1>2, <1>3, <1>4, <1>5, <1>6, <1>7, Zenon

\* A best level that the update of order id does not touch is not the level of that order.
LEMMA OtherBest ==
  ASSUME NEW b, NEW lv, NEW ov, NEW r, NEW n, BookIs(b, lv, ov, r, n), NEW id \in DOMAIN r,
         NEW t \in Sides, b.best[t] # Null,
         t # r[id].side \/ Behind(r[id].side, r[id].price, b.level[b.best[t]].price)
  PROVE  /\ b.best[t] \in LevelBlocks \ b.free_level
         /\ b.best[t] # getOrdersAtPrice(b, r[id].price)
         /\ \A o \in Blocks(ov[b.best[t]]) : o \in OrderBlocks /\ o # b.by_id[id]
         /\ \A o \in Blocks(ov[b.best[t]]) : o \notin Blocks(ov[getOrdersAtPrice(b, r[id].price)])
<1> DEFINE l == getOrdersAtPrice(b, r[id].price)
           m == b.best[t]
           o == b.by_id[id]
<1>1. b \in BookType /\ LevelsAre(b, lv) /\ QueuesAre(b, ov)
  BY DEF BookIs
<1>2. m \in LevelBlocks \ b.free_level /\ b.level[m].side = t
  BY <1>1, BestLevel
<1>3. /\ l \in LevelBlocks \ b.free_level /\ o \in Blocks(ov[l])
      /\ b.level[l].side = r[id].side /\ b.level[l].price = r[id].price
      /\ r[id].side \in Sides /\ r[id].price \in Nat
  BY RestingOrder
<1>4. m # l
  BY <1>2, <1>3, BehindIsStrict
<1> HIDE DEF m, l, o
<1>5. \A x \in Blocks(ov[m]) : x \in OrderBlocks /\ x \notin Blocks(ov[l])
  BY <1>1, <1>2, <1>3, <1>4, RingsApart, QueueHasHead
<1> QED BY <1>2, <1>3, <1>4, <1>5 DEF m, l, o

LEMMA Modifies ==
  ASSUME NEW b, NEW lv, NEW ov, NEW r, NEW n, BookIs(b, lv, ov, r, n), NEW id \in DOMAIN r,
         NEW qty \in Qtys, NEW b2, b2 = [b EXCEPT !.order[b.by_id[id]].qty = qty],
         NEW r2, r2 = [r EXCEPT ![id].qty = qty]
  PROVE  BookIs(b2, lv, ov, r2, n) /\ TopsKept(b, b2, ov, ov, r[id].side, r[id].price)
<1> DEFINE o == b.by_id[id]
           order == [b.order EXCEPT ![o].qty = qty]
<1>1. b \in BookType /\ LevelsAre(b, lv) /\ QueuesAre(b, ov) /\ OrdersAre(b, ov, r, n)
  BY DEF BookIs
<1>2. id \in OrderIds /\ o \in OrderBlocks /\ b.order[o].id = id
  BY RestingOrder
<1>3. qty \in Nat
  BY InputAssumption
<1>4. /\ order \in [OrderBlocks -> OrderRecord]
      /\ \A x \in OrderBlocks : /\ SameButQty(order[x], b.order[x])
                                /\ order[x].qty = IF x = o THEN qty ELSE b.order[x].qty
                                /\ x # o => order[x] = b.order[x]
  BY <1>1, <1>2, <1>3 DEF BookType, OrderRecord, SameButQty
<1>5. b2 = [b EXCEPT !.order = order]
  BY <1>1 DEF BookType
<1> HIDE DEF order
<1>6. /\ b2 \in BookType /\ b2.order = order /\ b2.level = b.level /\ b2.at = b.at /\ b2.best = b.best
      /\ b2.free_order = b.free_order /\ b2.free_level = b.free_level /\ b2.by_id = b.by_id
      /\ b2.next_order = b.next_order /\ b2.next_level = b.next_level
  BY <1>1, <1>4, <1>5 DEF BookType
<1>7. LevelsAre(b2, lv)
  BY <1>1, <1>6, LevelsKept
<1>8. ASSUME NEW l \in LevelBlocks \ b.free_level
      PROVE  QueueIs(b2, ov[l], l) /\ \A x \in Blocks(ov[l]) : x \in OrderBlocks
  <2>1. QueueIs(b, ov[l], l)
    BY <1>1 DEF QueuesAre, QueueIs
  <2>2. \A x \in Blocks(ov[l]) : x \in OrderBlocks
    BY <1>1, QueueHasHead
  <2> QED BY <2>1, <2>2, <1>4, <1>6, QueueKept
<1>9. QueuesAre(b2, ov)
  BY <1>1, <1>6, <1>8 DEF QueuesAre, QueueIs
<1>10. r[id] \in [side : Sides, price : Prices, qty : Qtys]
  BY <1>1 DEF OrdersAre
<1>11. /\ DOMAIN r2 = DOMAIN r /\ r2[id] = [side |-> r[id].side, price |-> r[id].price, qty |-> qty]
       /\ \A i \in DOMAIN r : i # id => r2[i] = r[i]
  BY <1>10
<1>12. ASSUME NEW i \in DOMAIN r
       PROVE  LET x == b2.by_id[i]
                  l == getOrdersAtPrice(b2, r2[i].price)
              IN  /\ b2.order[x].id = i /\ b2.order[x].side = r2[i].side
                  /\ b2.order[x].price = r2[i].price /\ b2.order[x].qty = r2[i].qty
                  /\ l # Null /\ x \in Blocks(ov[l])
  <2> DEFINE x == b.by_id[i]
             l == getOrdersAtPrice(b, r[i].price)
  <2>1. /\ b.order[x].id = i /\ b.order[x].side = r[i].side
        /\ b.order[x].price = r[i].price /\ b.order[x].qty = r[i].qty
        /\ l \in LevelBlocks /\ x \in Blocks(ov[l]) /\ x \in OrderBlocks
    BY RestingOrder
  <2>2. r2[i].price = r[i].price /\ r2[i].side = r[i].side
        /\ r2[i].qty = IF i = id THEN qty ELSE r[i].qty
    BY <1>11
  <2>3. i = id <=> x = o
    BY <2>1, <1>2
  <2>4. b2.by_id[i] = x /\ getOrdersAtPrice(b2, r2[i].price) = l
    BY <2>2, <1>6 DEF getOrdersAtPrice
  <2> HIDE DEF x, l, o
  <2>5. /\ b2.order[x].id = b.order[x].id /\ b2.order[x].side = b.order[x].side
        /\ b2.order[x].price = b.order[x].price
        /\ b2.order[x].qty = IF x = o THEN qty ELSE b.order[x].qty
    BY <2>1, <1>4, <1>6 DEF SameButQty
  <2>6. l # Null
    BY <2>1, NullIsNoBlock
  <2> QED BY <2>1, <2>2, <2>3, <2>4, <2>5, <2>6
<1>13. OrdersAre(b2, ov, r2, n)
  <2>1. \A i \in DOMAIN r2 : i < n /\ r2[i] \in [side : Sides, price : Prices, qty : Qtys]
    BY <1>1, <1>10, <1>11 DEF OrdersAre
  <2>2. \A l \in LevelBlocks \ b2.free_level : \A x \in Blocks(ov[l]) :
          b2.order[x].id \in OrderIds /\ b2.by_id[b2.order[x].id] = x
    BY <1>1, <1>4, <1>6, <1>8 DEF OrdersAre, SameButQty
  <2>3. \A x \in OrderBlocks :
          x \notin b2.free_order <=> b2.order[x].id \in OrderIds /\ b2.by_id[b2.order[x].id] = x
    BY <1>1, <1>4, <1>6 DEF OrdersAre, SameButQty
  <2>4. /\ DOMAIN r2 \subseteq OrderIds /\ n \in Nat /\ b2.next_order \in b2.free_order
        /\ \A i \in OrderIds : b2.by_id[i] # Null <=> i \in DOMAIN r2
    BY <1>1, <1>6, <1>11 DEF OrdersAre
  <2> QED BY <2>1, <2>2, <2>3, <2>4, <1>11, <1>12 DEF OrdersAre
<1>14. TopsKept(b, b2, ov, ov, r[id].side, r[id].price)
  <2> SUFFICES ASSUME NEW t \in Sides, b.best[t] # Null,
                      t # r[id].side \/ Behind(r[id].side, r[id].price, b.level[b.best[t]].price)
               PROVE  /\ b2.best[t] = b.best[t]
                      /\ b2.level[b.best[t]].price = b.level[b.best[t]].price
                      /\ ov[b.best[t]] = ov[b.best[t]]
                      /\ \A x \in Blocks(ov[b.best[t]]) : b2.order[x] = b.order[x]
    BY Zenon DEF TopsKept
  <2>1. \A x \in Blocks(ov[b.best[t]]) : x \in OrderBlocks /\ x # o
    BY OtherBest
  <2> QED BY <2>1, <1>4, <1>6
<1> QED BY <1>6, <1>7, <1>9, <1>13, <1>14 DEF BookIs

-----------------------------------------------------------------------------
(* CANCEL. *)

\* The list of level l without the order at place q, and the others as they are.
Without(ov, l, q) == [ov EXCEPT ![l] = WithoutBlock(ov[l], q)]

\* Order id rests in block o, at place q of the list of level l.
Leaves(b, lv, ov, r, n, id, o, l, q) ==
  /\ BookIs(b, lv, ov, r, n) /\ id \in DOMAIN r
  /\ o = b.by_id[id] /\ l = getOrdersAtPrice(b, r[id].price)
  /\ q \in 1 .. Len(ov[l]) /\ ov[l][q] = o

\* List u has the blocks of list w except o.
Loses(u, w, o) == Blocks(u) = Blocks(w) \ {o}

LEMMA ListWithout ==
  ASSUME NEW b, NEW lv, NEW ov, NEW r, NEW n, NEW id, NEW o, NEW l, NEW q,
         Leaves(b, lv, ov, r, n, id, o, l, q), NEW ov2, ov2 = Without(ov, l, q)
  PROVE  /\ ov2 \in [LevelBlocks -> Seq(OrderBlocks)] /\ ov2[l] = WithoutBlock(ov[l], q)
         /\ \A m \in LevelBlocks : m # l => ov2[m] = ov[m]
         /\ \A m \in LevelBlocks \ b.free_level : Loses(ov2[m], ov[m], o)
<1> USE DEF Leaves
<1>1. b \in BookType /\ LevelsAre(b, lv) /\ QueuesAre(b, ov)
  BY DEF BookIs
<1>2. ov \in [LevelBlocks -> Seq(OrderBlocks)]
  BY <1>1 DEF QueuesAre
<1>3. l \in LevelBlocks \ b.free_level /\ o \in Blocks(ov[l])
  BY RestingOrder
<1>4. ov[l] \in Seq(OrderBlocks) /\ Once(ov[l]) /\ q \in 1 .. Len(ov[l])
  BY <1>1, <1>2, <1>3 DEF QueuesAre
<1>5. WithoutBlock(ov[l], q) \in Seq(OrderBlocks) /\ Blocks(WithoutBlock(ov[l], q)) = Blocks(ov[l]) \ {o}
  BY <1>4, WithoutBlockFacts
<1>6. /\ ov2 \in [LevelBlocks -> Seq(OrderBlocks)] /\ ov2[l] = WithoutBlock(ov[l], q)
      /\ \A m \in LevelBlocks : m # l => ov2[m] = ov[m]
  BY <1>2, <1>3, <1>5 DEF Without
<1>7. \A m \in LevelBlocks \ b.free_level : m # l => o \notin Blocks(ov[m])
  BY <1>1, <1>3, RingsApart
<1> QED BY <1>5, <1>6, <1>7 DEF Loses

\* The hash map and the pool of the orders give the order back.
Gives(b, b2, ov, id, o) ==
  /\ b2.by_id = [b.by_id EXCEPT ![id] = Null]
  /\ b2.free_order = b.free_order \cup {o} /\ b2.next_order = b.next_order
  /\ \A y \in OrderBlocks :
       /\ b2.order[y].id = b.order[y].id /\ b2.order[y].side = b.order[y].side
       /\ b2.order[y].price = b.order[y].price /\ b2.order[y].qty = b.order[y].qty
  /\ \A i \in Index : b2.at[i] = b.at[i] \/ (b.at[i] # Null /\ Blocks(ov[b.at[i]]) = {o})
  /\ \A m \in LevelBlocks \ b2.free_level : m \notin b.free_level

LEMMA OrderLeaves ==
  ASSUME NEW b, NEW lv, NEW ov, NEW r, NEW n, NEW id, NEW o, NEW l, NEW q,
         Leaves(b, lv, ov, r, n, id, o, l, q), NEW b2, Gives(b, b2, ov, id, o),
         NEW r2, r2 = Restrict(r, DOMAIN r \ {id}), NEW ov2, ov2 = Without(ov, l, q)
  PROVE  OrdersAre(b2, ov2, r2, n)
<1> USE DEF Gives
<1>1. /\ b \in BookType /\ LevelsAre(b, lv) /\ QueuesAre(b, ov) /\ OrdersAre(b, ov, r, n)
      /\ BookIs(b, lv, ov, r, n) /\ id \in DOMAIN r /\ o = b.by_id[id]
  BY DEF BookIs, Leaves
<1>2. id \in OrderIds /\ o \in OrderBlocks /\ b.order[o].id = id /\ o \notin b.free_order
  BY <1>1, RestingOrder
<1>3. \A m \in LevelBlocks \ b.free_level : Blocks(ov2[m]) = Blocks(ov[m]) \ {o}
  <2>1. \A m \in LevelBlocks \ b.free_level : Loses(ov2[m], ov[m], o)
    BY ListWithout
  <2> QED BY <2>1 DEF Loses
<1>4. b2.by_id[id] = Null /\ \A i \in OrderIds : i # id => b2.by_id[i] = b.by_id[i]
  BY <1>1, <1>2 DEF BookType
<1>5. DOMAIN r2 = DOMAIN r \ {id} /\ \A i \in DOMAIN r2 : r2[i] = r[i]
  BY DEF Restrict
<1>6. /\ DOMAIN r2 \subseteq OrderIds /\ n \in Nat /\ b2.next_order \in b2.free_order
      /\ \A i \in DOMAIN r2 : i < n /\ r2[i] \in [side : Sides, price : Prices, qty : Qtys]
  BY <1>1, <1>5 DEF OrdersAre
<1>7. \A i \in OrderIds : b2.by_id[i] # Null <=> i \in DOMAIN r2
  BY <1>1, <1>4, <1>5 DEF OrdersAre
<1>8. ASSUME NEW i \in DOMAIN r2
      PROVE  LET x == b2.by_id[i]
                 m == getOrdersAtPrice(b2, r2[i].price)
             IN  /\ b2.order[x].id = i /\ b2.order[x].side = r2[i].side
                 /\ b2.order[x].price = r2[i].price /\ b2.order[x].qty = r2[i].qty
                 /\ m # Null /\ x \in Blocks(ov2[m])
  <2> DEFINE x == b.by_id[i]
             m == getOrdersAtPrice(b, r[i].price)
  <2>1. i \in DOMAIN r /\ i # id /\ r2[i] = r[i]
    BY <1>5
  <2>2. /\ i \in OrderIds /\ x \in OrderBlocks /\ m \in LevelBlocks \ b.free_level
        /\ b.order[x].id = i /\ b.order[x].side = r[i].side
        /\ b.order[x].price = r[i].price /\ b.order[x].qty = r[i].qty
        /\ x \in Blocks(ov[m]) /\ priceToIndex(r[i].price) \in Index
    BY <1>1, <2>1, RestingOrder
  <2>3. x # o
    BY <2>1, <2>2, <1>2
  <2>4. b2.by_id[i] = x
    BY <2>1, <2>2, <1>4
  <2>5. getOrdersAtPrice(b2, r2[i].price) = m
    BY <2>1, <2>2, <2>3 DEF getOrdersAtPrice
  <2>6. x \in Blocks(ov2[m]) /\ m # Null
    BY <2>2, <2>3, <1>3, NullIsNoBlock
  <2> HIDE DEF x, m
  <2> QED BY <2>1, <2>2, <2>4, <2>5, <2>6
<1>9. ASSUME NEW m \in LevelBlocks \ b2.free_level, NEW x \in Blocks(ov2[m])
      PROVE  b2.order[x].id \in OrderIds /\ b2.by_id[b2.order[x].id] = x
  <2>1. m \in LevelBlocks \ b.free_level /\ x \in Blocks(ov[m]) /\ x # o
    BY <1>9, <1>3
  <2>2. b.order[x].id \in OrderIds /\ b.by_id[b.order[x].id] = x /\ x \in OrderBlocks
    BY <2>1, <1>1, QueueHasHead DEF OrdersAre
  <2>3. b.order[x].id # id
    BY <2>1, <2>2, <1>1
  <2> QED BY <2>2, <2>3, <1>4
<1>10. ASSUME NEW x \in OrderBlocks
       PROVE  x \notin b2.free_order <=> b2.order[x].id \in OrderIds /\ b2.by_id[b2.order[x].id] = x
  <2>1. x \notin b.free_order <=> b.order[x].id \in OrderIds /\ b.by_id[b.order[x].id] = x
    BY <1>1 DEF OrdersAre
  <2>2. x # Null
    BY NullIsNoBlock
  <2>3. CASE x = o
    BY <2>2, <2>3, <1>2, <1>4
  <2>4. CASE x # o
    BY <2>1, <2>2, <2>4, <1>1, <1>4
  <2> QED BY <2>3, <2>4
<1> QED BY <1>6, <1>7, <1>8, <1>9, <1>10 DEF OrdersAre

\* The links of the order's neighbours, when its level keeps other orders.
Unlinks(b, b2, w, l, o, q) ==
  LET a == w[Pred(w, q)]
      c == w[Succ(w, q)]
  IN  /\ b2.at = b.at /\ b2.best = b.best
      /\ b2.free_level = b.free_level /\ b2.next_level = b.next_level
      /\ \A y \in OrderBlocks \ {o} : /\ b2.order[y].next = IF y = a THEN c ELSE b.order[y].next
                                      /\ b2.order[y].prev = IF y = c THEN a ELSE b.order[y].prev
                                      /\ y # a /\ y # c => b2.order[y] = b.order[y]
      /\ \A m \in LevelBlocks :
           /\ b2.level[m].side = b.level[m].side /\ b2.level[m].price = b.level[m].price
           /\ b2.level[m].prev = b.level[m].prev /\ b2.level[m].next = b.level[m].next
           /\ b2.level[m].first = IF m = l /\ b.level[m].first = o THEN c ELSE b.level[m].first

LEMMA QueueShrinks ==
  ASSUME NEW b, NEW b2, NEW w \in Seq(OrderBlocks), NEW l \in LevelBlocks, QueueIs(b, w, l),
         NEW q \in 1 .. Len(w), Len(w) # 1, NEW o, o = w[q], NEW ov, NEW id,
         Gives(b, b2, ov, id, o), Unlinks(b, b2, w, l, o, q)
  PROVE  QueueIs(b2, WithoutBlock(w, q), l)
<1> DEFINE w2 == WithoutBlock(w, q)
           a == w[Pred(w, q)]
           c == w[Succ(w, q)]
           On(k) == IF k < q THEN k ELSE k + 1
<1>1. Len(w) \in Nat /\ Len(w) >= 2 /\ \A k \in 1 .. Len(w) : w[k] \in OrderBlocks
  <2>1. \A len \in Nat : \A i \in 1 .. len : len # 1 => len >= 2
    OBVIOUS
  <2>2. Len(w) \in Nat /\ \A k \in 1 .. Len(w) : w[k] \in OrderBlocks
    OBVIOUS
  <2> QED BY <2>1, <2>2
<1>2. Once(w) /\ IsRing(b.order, w) /\ b.level[l].first = w[1]
  BY DEF QueueIs
<1>3. /\ w2 \in Seq(OrderBlocks) /\ Len(w2) = Len(w) - 1 /\ Once(w2) /\ Blocks(w2) = Blocks(w) \ {o}
      /\ \A k \in 1 .. (Len(w) - 1) : w2[k] = IF k < q THEN w[k] ELSE w[k + 1]
  BY <1>2, WithoutBlockFacts
<1>4. \A y \in Blocks(w) \ {o} : /\ b2.order[y].next = IF y = a THEN c ELSE b.order[y].next
                                 /\ b2.order[y].prev = IF y = c THEN a ELSE b.order[y].prev
  <2>1. \A y \in Blocks(w) \ {o} : y \in OrderBlocks \ {o}
    BY <1>1 DEF Blocks
  <2> QED BY <2>1 DEF Unlinks
<1>5. IsRing(b2.order, w2)
  <2>1. a = w[Pred(w, q)] /\ c = w[Succ(w, q)]
    OBVIOUS
  <2> HIDE DEF a, c
  <2> QED BY <2>1, <1>2, <1>4, RingWithoutBlock
<1> HIDE DEF w2
<1>6. ASSUME NEW k \in 1 .. Len(w2) PROVE On(k) \in 1 .. Len(w) /\ w2[k] = w[On(k)]
  BY <1>1, <1>3
<1>7. b2.level[l].first = w2[1]
  <2>1. 1 \in 1 .. (Len(w) - 1) /\ 2 \in 1 .. Len(w) /\ 1 \in 1 .. Len(w)
    BY <1>1
  <2>2. b2.level[l].first = IF w[1] = o THEN c ELSE w[1]
    BY <1>2 DEF Unlinks
  <2>3. CASE q = 1
    <3>1. c = w[2] /\ w2[1] = w[2]
      BY <1>1, <1>3, <2>1, <2>3 DEF Succ
    <3> QED BY <3>1, <2>2, <2>3
  <2>4. CASE q # 1
    <3>1. w[1] # o /\ 1 < q
      BY <1>1, <1>2, <2>1, <2>4 DEF Once
    <3> QED BY <3>1, <2>1, <2>2, <1>3
  <2> QED BY <2>3, <2>4
<1>8. \A y \in Blocks(w2) : b2.order[y].side = b2.level[l].side /\ b2.order[y].price = b2.level[l].price
  <2>1. \A y \in Blocks(w2) : y \in Blocks(w) /\ y \in OrderBlocks
    BY <1>1, <1>3 DEF Blocks
  <2> QED BY <2>1 DEF QueueIs, Gives, Unlinks
<1>9. ASSUME NEW j \in 1 .. Len(w2), NEW k \in 1 .. Len(w2), j < k
      PROVE  b2.order[w2[j]].id < b2.order[w2[k]].id
  <2>1. On(j) < On(k)
    BY <1>1, <1>3, <1>9
  <2>2. b.order[w[On(j)]].id < b.order[w[On(k)]].id
    <3> HIDE DEF On
    <3> QED BY <2>1, <1>6 DEF QueueIs
  <2>3. w2[j] = w[On(j)] /\ w2[k] = w[On(k)] /\ w2[j] \in OrderBlocks /\ w2[k] \in OrderBlocks
    BY <1>1, <1>6
  <2> HIDE DEF On
  <2> QED BY <2>2, <2>3 DEF Gives
<1> QED BY <1>1, <1>3, <1>5, <1>7, <1>8, <1>9 DEF QueueIs, w2

\* CANCEL of an order that is not alone at its level.
LEMMA LevelStays ==
  ASSUME NEW b, NEW lv, NEW ov, NEW r, NEW n, NEW id, NEW o, NEW l, NEW q,
         Leaves(b, lv, ov, r, n, id, o, l, q), Len(ov[l]) # 1, NEW b2 \in BookType,
         Gives(b, b2, ov, id, o), Unlinks(b, b2, ov[l], l, o, q),
         NEW r2, r2 = Restrict(r, DOMAIN r \ {id})
  PROVE  \E ov2 : BookIs(b2, lv, ov2, r2, n) /\ TopsKept(b, b2, ov, ov2, r[id].side, r[id].price)
<1> DEFINE w == ov[l]
           ov2 == Without(ov, l, q)
<1>1. /\ b \in BookType /\ LevelsAre(b, lv) /\ QueuesAre(b, ov) /\ BookIs(b, lv, ov, r, n)
      /\ id \in DOMAIN r /\ o = b.by_id[id] /\ l = getOrdersAtPrice(b, r[id].price)
      /\ q \in 1 .. Len(w) /\ w[q] = o
  BY DEF BookIs, Leaves
<1>2. l \in LevelBlocks \ b.free_level /\ o \in Blocks(w)
  BY <1>1, RestingOrder
<1>3. w \in Seq(OrderBlocks) /\ \A m \in LevelBlocks \ b.free_level : QueueIs(b, ov[m], m)
  BY <1>1, <1>2 DEF QueuesAre, QueueIs
<1>4. /\ ov2 \in [LevelBlocks -> Seq(OrderBlocks)] /\ ov2[l] = WithoutBlock(w, q)
      /\ \A m \in LevelBlocks : m # l => ov2[m] = ov[m]
  BY ListWithout
<1> HIDE DEF w, ov2
<1>5. b2.free_level = b.free_level /\ b2.best = b.best
      /\ \A m \in LevelBlocks : b2.level[m].price = b.level[m].price
  BY DEF Unlinks
<1>6. LevelsAre(b2, lv)
  BY <1>1, LevelsKept DEF Unlinks
<1>7. w[Pred(w, q)] \in Blocks(w) /\ w[Succ(w, q)] \in Blocks(w)
  <2>1. \A len \in Nat : \A i \in 1 .. len : /\ (IF i = len THEN 1 ELSE i + 1) \in 1 .. len
                                             /\ (IF i = 1 THEN len ELSE i - 1) \in 1 .. len
    OBVIOUS
  <2>2. Len(w) \in Nat
    BY <1>3
  <2>3. Pred(w, q) \in 1 .. Len(w) /\ Succ(w, q) \in 1 .. Len(w)
    BY <2>1, <2>2, <1>1 DEF Pred, Succ
  <2> QED BY <2>3 DEF Blocks
<1>8. ASSUME NEW m \in LevelBlocks \ b.free_level, m # l
      PROVE  \A y \in Blocks(ov[m]) : b2.order[y] = b.order[y]
  <2>1. \A y \in Blocks(ov[m]) : y \notin Blocks(w) /\ y \in OrderBlocks
    <3>1. \A y \in Blocks(ov[m]) : m # l => y \notin Blocks(ov[l])
      BY <1>1, <1>2, RingsApart
    <3>2. \A y \in Blocks(ov[m]) : y \in OrderBlocks
      BY <1>1, QueueHasHead
    <3> QED BY <3>1, <3>2, <1>8 DEF w
  <2> QED BY <2>1, <1>2, <1>7 DEF Unlinks, w
<1>9. QueuesAre(b2, ov2)
  <2>1. ASSUME NEW m \in LevelBlocks \ b.free_level PROVE QueueIs(b2, ov2[m], m)
    <3>1. CASE m = l
      <4>1. QueueIs(b, w, l) /\ Unlinks(b, b2, w, l, o, q) /\ Len(w) # 1
        BY <1>2, <1>3 DEF w
      <4>2. QueueIs(b2, WithoutBlock(w, q), l)
        BY <4>1, <1>1, <1>2, <1>3, QueueShrinks
      <4> QED BY <4>2, <3>1, <1>4
    <3>2. CASE m # l
      <4>1. QueueIs(b, ov[m], m)
        BY <1>3
      <4>2. \A y \in Blocks(ov[m]) : SameButQty(b2.order[y], b.order[y])
        BY <3>2, <1>8 DEF SameButQty
      <4>3. /\ b2.level[m].first = b.level[m].first /\ b2.level[m].side = b.level[m].side
            /\ b2.level[m].price = b.level[m].price
        BY <3>2 DEF Unlinks
      <4>4. QueueIs(b2, ov[m], m)
        BY <4>1, <4>2, <4>3, QueueKept
      <4> QED BY <4>4, <3>2, <1>4
    <3> QED BY <3>1, <3>2
  <2> QED BY <2>1, <1>4, <1>5 DEF QueuesAre, QueueIs
<1>10. OrdersAre(b2, ov2, r2, n)
  BY OrderLeaves DEF ov2
<1>11. TopsKept(b, b2, ov, ov2, r[id].side, r[id].price)
  <2> SUFFICES ASSUME NEW t \in Sides, b.best[t] # Null,
                      t # r[id].side \/ Behind(r[id].side, r[id].price, b.level[b.best[t]].price)
               PROVE  /\ b2.best[t] = b.best[t]
                      /\ b2.level[b.best[t]].price = b.level[b.best[t]].price
                      /\ ov2[b.best[t]] = ov[b.best[t]]
                      /\ \A x \in Blocks(ov[b.best[t]]) : b2.order[x] = b.order[x]
    BY Zenon DEF TopsKept
  <2>1. b.best[t] \in LevelBlocks \ b.free_level /\ b.best[t] # l
    BY <1>1, OtherBest
  <2> QED BY <2>1, <1>4, <1>5, <1>8
<1> QED BY <1>6, <1>9, <1>10, <1>11 DEF BookIs

LEMMA CancelsAtLevel ==
  ASSUME NEW b, NEW lv, NEW ov, NEW r, NEW n, NEW id, NEW o, NEW l, NEW q,
         Leaves(b, lv, ov, r, n, id, o, l, q), b.order[o].prev # o,
         NEW b2, b2 = removeOrder(b, o), NEW r2, r2 = Restrict(r, DOMAIN r \ {id})
  PROVE  \E ov2 : BookIs(b2, lv, ov2, r2, n) /\ TopsKept(b, b2, ov, ov2, r[id].side, r[id].price)
<1> DEFINE w == ov[l]
           a == w[Pred(w, q)]
           c == w[Succ(w, q)]
           o1 == [b.order EXCEPT ![a].next = c]
           o2 == [o1 EXCEPT ![c].prev = a]
           o3 == [o2 EXCEPT ![o].prev = Null, ![o].next = Null]
           level == [b.level EXCEPT ![l].first = IF @ = o THEN c ELSE @]
           by_id == [b.by_id EXCEPT ![id] = Null]
           d == [b EXCEPT !.level = level, !.order = o3, !.by_id = by_id,
                          !.free_order = b.free_order \cup {o}]
<1>1. /\ b \in BookType /\ LevelsAre(b, lv) /\ QueuesAre(b, ov) /\ BookIs(b, lv, ov, r, n)
      /\ id \in DOMAIN r /\ o = b.by_id[id] /\ l = getOrdersAtPrice(b, r[id].price)
      /\ q \in 1 .. Len(w) /\ w[q] = o
  BY DEF BookIs, Leaves
<1>2. /\ l \in LevelBlocks \ b.free_level /\ o \in Blocks(w) /\ o \in OrderBlocks /\ id \in OrderIds
      /\ b.order[o].id = id /\ b.order[o].price = r[id].price /\ b.order[o].side = r[id].side
  BY <1>1, RestingOrder
<1>3. w \in Seq(OrderBlocks) /\ Len(w) \in Nat /\ IsRing(b.order, w) /\ b.level[l].first = w[1]
  BY <1>1, <1>2 DEF QueuesAre
<1>4. b.order[o].prev = a /\ b.order[o].next = c
  BY <1>1, <1>3 DEF IsRing
<1>5. Len(w) # 1
  <2> SUFFICES ASSUME Len(w) = 1 PROVE FALSE
    OBVIOUS
  <2>1. q = 1 /\ Pred(w, q) = 1
    BY <1>1 DEF Pred
  <2> QED BY <2>1, <1>1, <1>4
<1>6. a \in OrderBlocks /\ c \in OrderBlocks
  <2>1. \A len \in Nat : \A i \in 1 .. len : /\ (IF i = len THEN 1 ELSE i + 1) \in 1 .. len
                                             /\ (IF i = 1 THEN len ELSE i - 1) \in 1 .. len
    OBVIOUS
  <2>2. Pred(w, q) \in 1 .. Len(w) /\ Succ(w, q) \in 1 .. Len(w)
    BY <2>1, <1>1, <1>3 DEF Pred, Succ
  <2> QED BY <2>2, <1>3
<1> HIDE DEF a, c, w
<1>7. /\ o1 \in [OrderBlocks -> OrderRecord]
      /\ \A y \in OrderBlocks : /\ o1[y].id = b.order[y].id /\ o1[y].side = b.order[y].side
                                /\ o1[y].price = b.order[y].price /\ o1[y].qty = b.order[y].qty
                                /\ o1[y].prev = b.order[y].prev
                                /\ o1[y].next = IF y = a THEN c ELSE b.order[y].next
                                /\ y # a => o1[y] = b.order[y]
  <2>1. b.order \in [OrderBlocks -> OrderRecord]
    BY <1>1 DEF BookType
  <2> QED BY <2>1, <1>6 DEF OrderRecord
<1> HIDE DEF o1
<1>8. /\ o2 \in [OrderBlocks -> OrderRecord]
      /\ \A y \in OrderBlocks : /\ o2[y].id = o1[y].id /\ o2[y].side = o1[y].side
                                /\ o2[y].price = o1[y].price /\ o2[y].qty = o1[y].qty
                                /\ o2[y].next = o1[y].next
                                /\ o2[y].prev = IF y = c THEN a ELSE o1[y].prev
                                /\ y # c => o2[y] = o1[y]
  BY <1>6, <1>7 DEF OrderRecord
<1> HIDE DEF o2
<1>9. /\ o3 \in [OrderBlocks -> OrderRecord]
      /\ o3[o].id = o2[o].id /\ o3[o].side = o2[o].side
      /\ o3[o].price = o2[o].price /\ o3[o].qty = o2[o].qty
      /\ \A y \in OrderBlocks \ {o} : o3[y] = o2[y]
  <2> DEFINE rec == [o2[o] EXCEPT !.prev = Null, !.next = Null]
  <2>1. rec \in OrderRecord /\ rec.id = o2[o].id /\ rec.side = o2[o].side
        /\ rec.price = o2[o].price /\ rec.qty = o2[o].qty
    <3>1. o2[o] \in OrderRecord
      BY <1>2, <1>8
    <3> QED BY <3>1 DEF OrderRecord
  <2>2. o3 = [o2 EXCEPT ![o] = rec]
    BY <1>2, <1>8
  <2> HIDE DEF rec, o3
  <2> QED BY <1>2, <1>8, <2>1, <2>2
<1>10. /\ level \in [LevelBlocks -> LevelRecord]
       /\ \A m \in LevelBlocks :
            /\ level[m].side = b.level[m].side /\ level[m].price = b.level[m].price
            /\ level[m].prev = b.level[m].prev /\ level[m].next = b.level[m].next
            /\ level[m].first = IF m = l /\ b.level[m].first = o THEN c ELSE b.level[m].first
  <2>1. b.level \in [LevelBlocks -> LevelRecord]
    BY <1>1 DEF BookType
  <2> QED BY <2>1, <1>2, <1>6 DEF LevelRecord
<1>11. by_id \in [OrderIds -> OrderBlocks \cup {Null}]
  BY <1>1 DEF BookType
<1>12. b2 = d
  <2>1. getOrdersAtPrice(b, b.order[o].price) = l
    BY <1>1, <1>2
  <2>2. removeOrder(b, o) = d
    BY <1>1, <1>2, <1>4, <2>1 DEF removeOrder, o1, o2, BookType
  <2> QED BY <2>2
<1> HIDE DEF o3, level, by_id
<1>13. /\ d \in BookType /\ d.order = o3 /\ d.level = level /\ d.by_id = by_id
       /\ d.free_order = b.free_order \cup {o} /\ d.next_order = b.next_order
       /\ d.free_level = b.free_level /\ d.next_level = b.next_level
       /\ d.at = b.at /\ d.best = b.best
  BY <1>1, <1>2, <1>9, <1>10, <1>11 DEF BookType
<1> HIDE DEF d
<1>14. Gives(b, d, ov, id, o)
  <2>1. \A y \in OrderBlocks :
          /\ d.order[y].id = b.order[y].id /\ d.order[y].side = b.order[y].side
          /\ d.order[y].price = b.order[y].price /\ d.order[y].qty = b.order[y].qty
    BY <1>2, <1>7, <1>8, <1>9, <1>13
  <2> QED BY <2>1, <1>13 DEF Gives, by_id
<1>15. Unlinks(b, d, w, l, o, q)
  <2>1. \A y \in OrderBlocks \ {o} : /\ d.order[y].next = IF y = a THEN c ELSE b.order[y].next
                                     /\ d.order[y].prev = IF y = c THEN a ELSE b.order[y].prev
                                     /\ y # a /\ y # c => d.order[y] = b.order[y]
    BY <1>7, <1>8, <1>9, <1>13
  <2> QED BY <2>1, <1>10, <1>13 DEF Unlinks, a, c
<1> QED BY <1>5, <1>12, <1>13, <1>14, <1>15, LevelStays DEF w

\* The level at position p of its side's list is unlinked, and its block is free.
Removed(b, b2, lv, s, p) ==
  LET w == lv[s]
      l == w[p]
      a == w[Pred(w, p)]
      c == w[Succ(w, p)]
  IN  /\ \A m \in LevelBlocks :
           /\ b2.level[m].side = b.level[m].side /\ b2.level[m].price = b.level[m].price
           /\ b2.level[m].first = b.level[m].first
      /\ \A m \in LevelBlocks \ {l} : /\ b2.level[m].next = IF m = a THEN c ELSE b.level[m].next
                                      /\ b2.level[m].prev = IF m = c THEN a ELSE b.level[m].prev
      /\ b2.at = [b.at EXCEPT ![priceToIndex(b.level[l].price)] = Null]
      /\ b2.best = [b.best EXCEPT ![s] = HeadOf(WithoutBlock(w, p))]
      /\ b2.free_level = b.free_level \cup {l} /\ b2.next_level = b.next_level

LEMMA LevelRemoved ==
  ASSUME NEW b, NEW lv, b \in BookType, LevelsAre(b, lv), NEW b2,
         NEW s \in Sides, NEW p \in 1 .. Len(lv[s]), Removed(b, b2, lv, s, p),
         NEW lv2, lv2 = [lv EXCEPT ![s] = WithoutBlock(lv[s], p)]
  PROVE  LevelsAre(b2, lv2)
<1> DEFINE w == lv[s]
           w2 == WithoutBlock(w, p)
           l == w[p]
           a == w[Pred(w, p)]
           c == w[Succ(w, p)]
           i0 == priceToIndex(b.level[l].price)
<1>1. /\ w \in Seq(LevelBlocks) /\ Once(w) /\ IsRing(b.level, w) /\ Len(w) \in Nat
      /\ lv \in [Sides -> Seq(LevelBlocks)] /\ p \in 1 .. Len(w) /\ l \in LevelBlocks
  BY DEF LevelsAre
<1>2. l \in Blocks(w) /\ l \in LevelBlocks \ b.free_level /\ b.level[l].side = s
      /\ b.at[i0] = l /\ b.level[l].price \in Nat /\ i0 \in Index
  <2>1. l \in Blocks(w)
    BY DEF Blocks
  <2>2. l \in LevelBlocks \ b.free_level /\ b.level[l].side = s /\ b.at[i0] = l
    BY <2>1, LevelInUse DEF LevelsAre
  <2>3. b.level[l].price \in Nat
    BY <2>2, LevelInUse
  <2> QED BY <2>1, <2>2, <2>3, IndexOfPrice
<1>3. \A len \in Nat : \A i \in 1 .. len : /\ (IF i = len THEN 1 ELSE i + 1) \in 1 .. len
                                           /\ (IF i = 1 THEN len ELSE i - 1) \in 1 .. len
  OBVIOUS
<1>4. a \in Blocks(w) /\ c \in Blocks(w)
  <2>1. Pred(w, p) \in 1 .. Len(w) /\ Succ(w, p) \in 1 .. Len(w)
    BY <1>1, <1>3 DEF Pred, Succ
  <2> QED BY <2>1 DEF Blocks
<1>5. /\ w2 \in Seq(LevelBlocks) /\ Len(w2) = Len(w) - 1 /\ Once(w2) /\ Blocks(w2) = Blocks(w) \ {l}
      /\ \A k \in 1 .. (Len(w) - 1) : w2[k] = IF k < p THEN w[k] ELSE w[k + 1]
  <2> HIDE DEF w
  <2> QED BY <1>1, WithoutBlockFacts
<1>6. /\ \A m \in LevelBlocks :
           b2.level[m].side = b.level[m].side /\ b2.level[m].price = b.level[m].price
      /\ \A m \in LevelBlocks \ {l} : /\ b2.level[m].next = IF m = a THEN c ELSE b.level[m].next
                                      /\ b2.level[m].prev = IF m = c THEN a ELSE b.level[m].prev
      /\ b2.at = [b.at EXCEPT ![i0] = Null] /\ b2.best = [b.best EXCEPT ![s] = HeadOf(w2)]
      /\ b2.free_level = b.free_level \cup {l} /\ b2.next_level = b.next_level
  BY Zenon DEF Removed
<1>7. lv2 \in [Sides -> Seq(LevelBlocks)] /\ lv2[s] = w2 /\ \A t \in Sides : t # s => lv2[t] = lv[t]
  BY <1>1, <1>5
<1>8. \A t \in Sides : \A m \in Blocks(lv[t]) : m \in LevelBlocks /\ b.level[m].side = t
  BY LevelInUse DEF LevelsAre
<1>9. \A m \in Blocks(w2) : m \in LevelBlocks \ {l} /\ m \in Blocks(w)
  BY <1>5, <1>8
<1>10. IsRing(b2.level, w2)
  <2>1. CASE Len(w) = 1
    BY <2>1, <1>5 DEF IsRing
  <2>2. CASE Len(w) # 1
    <3>1. \A y \in Blocks(w) \ {l} : /\ b2.level[y].next = IF y = a THEN c ELSE b.level[y].next
                                     /\ b2.level[y].prev = IF y = c THEN a ELSE b.level[y].prev
      BY <1>6, <1>8
    <3>2. a = w[Pred(w, p)] /\ c = w[Succ(w, p)] /\ l = w[p]
      OBVIOUS
    <3>3. Once(w) /\ IsRing(b.level, w) /\ w \in Seq(LevelBlocks) /\ p \in 1 .. Len(w) /\ Len(w) # 1
      BY <2>2, <1>1
    <3> HIDE DEF a, c, l, w
    <3>4. \A y \in Blocks(w) \ {w[p]} : /\ b2.level[y].next = IF y = a THEN c ELSE b.level[y].next
                                        /\ b2.level[y].prev = IF y = c THEN a ELSE b.level[y].prev
      BY <3>1, <3>2
    <3> QED BY <3>2, <3>3, <3>4, RingWithoutBlock
  <2> QED BY <2>1, <2>2
<1> HIDE DEF w2, a, c
<1>11. \A i \in Index : b2.at[i] = IF i = i0 THEN Null ELSE b.at[i]
  BY <1>6 DEF BookType
<1>12. \A t \in Sides : b2.best[t] = IF t = s THEN HeadOf(w2) ELSE b.best[t]
  BY <1>6 DEF BookType
<1> HIDE DEF w, l, i0
<1>13. ASSUME NEW t \in Sides PROVE Once(lv2[t]) /\ IsRing(b2.level, lv2[t]) /\ b2.best[t] = HeadOf(lv2[t])
  <2>1. CASE t = s
    BY <2>1, <1>5, <1>7, <1>10, <1>12
  <2>2. CASE t # s
    <3>1. Once(lv[t]) /\ IsRing(b.level, lv[t]) /\ b.best[t] = HeadOf(lv[t])
      BY DEF LevelsAre
    <3>2. \A m \in Blocks(lv[t]) : m \in LevelBlocks \ {l} /\ m # a /\ m # c
      BY <2>2, <1>2, <1>4, <1>8 DEF w
    <3>3. IsRing(b2.level, lv[t])
      BY <3>1, <3>2, <1>6, RingKept
    <3> QED BY <3>1, <3>3, <2>2, <1>7, <1>12
  <2> QED BY <2>1, <2>2
<1>14. ASSUME NEW t \in Sides, NEW m \in Blocks(lv2[t])
       PROVE  m \in Blocks(lv[t]) /\ m \in LevelBlocks /\ m # l
  <2>1. CASE t = s
    BY <2>1, <1>7, <1>9, <1>14 DEF w
  <2>2. CASE t # s
    BY <2>2, <1>2, <1>7, <1>8, <1>14
  <2> QED BY <2>1, <2>2
<1>15. ASSUME NEW t \in Sides, NEW m \in Blocks(lv2[t])
       PROVE  /\ b2.level[m].side = t /\ b2.level[m].price \in Prices
              /\ b2.at[priceToIndex(b2.level[m].price)] = m
  <2>1. /\ b.level[m].side = t /\ b.level[m].price \in Prices
        /\ b.at[priceToIndex(b.level[m].price)] = m /\ m \in LevelBlocks /\ m # l
    BY <1>14, <1>15 DEF LevelsAre
  <2>2. priceToIndex(b.level[m].price) \in Index /\ priceToIndex(b.level[m].price) # i0
    BY <2>1, <1>2, IndexOfPrice, InputAssumption
  <2> QED BY <2>1, <2>2, <1>6, <1>11
<1>16. ASSUME NEW i \in Index, b2.at[i] # Null
       PROVE  /\ priceToIndex(b2.level[b2.at[i]].price) = i
              /\ b2.at[i] \in Blocks(lv2[b2.level[b2.at[i]].side])
  <2>1. i # i0 /\ b2.at[i] = b.at[i] /\ b.at[i] # Null
    BY <1>11, <1>16
  <2> DEFINE m == b.at[i]
  <2>2. /\ priceToIndex(b.level[m].price) = i /\ m \in Blocks(lv[b.level[m].side])
        /\ m \in LevelBlocks /\ b.level[m].side \in Sides
    <3>1. priceToIndex(b.level[m].price) = i
      BY <2>1 DEF LevelsAre
    <3>2. m \in LevelBlocks \ b.free_level
      BY <2>1, LevelInUse
    <3> HIDE DEF m
    <3> QED BY <3>1, <3>2, LevelInUse
  <2>3. m # l
    BY <2>1, <2>2, <1>2 DEF i0
  <2>4. m \in Blocks(lv2[b.level[m].side])
    BY <2>2, <2>3, <1>5, <1>7 DEF w
  <2> QED BY <2>1, <2>2, <2>4, <1>6
<1>17. ASSUME NEW t \in Sides, NEW j \in 1 .. Len(lv2[t]), NEW k \in 1 .. Len(lv2[t]), j < k
       PROVE  Behind(t, b2.level[lv2[t][k]].price, b2.level[lv2[t][j]].price)
  <2>0. b2.level[lv2[t][k]].price = b.level[lv2[t][k]].price
        /\ b2.level[lv2[t][j]].price = b.level[lv2[t][j]].price
    <3>1. lv2[t][k] \in Blocks(lv2[t]) /\ lv2[t][j] \in Blocks(lv2[t])
      BY DEF Blocks
    <3> QED BY <3>1, <1>14, <1>6
  <2>1. CASE t # s
    <3>1. lv2[t] = lv[t]
      BY <2>1, <1>7
    <3>2. Behind(t, b.level[lv[t][k]].price, b.level[lv[t][j]].price)
      BY <3>1, <1>17 DEF LevelsAre
    <3> QED BY <3>1, <3>2, <2>0
  <2>2. CASE t = s
    <3> DEFINE On(h) == IF h < p THEN h ELSE h + 1
    <3>1. lv2[t] = w2 /\ j \in 1 .. (Len(w) - 1) /\ k \in 1 .. (Len(w) - 1)
      BY <2>2, <1>5, <1>7
    <3>2. On(j) < On(k) /\ On(j) \in 1 .. Len(w) /\ On(k) \in 1 .. Len(w)
      BY <3>1, <1>1, <1>17
    <3>3. w2[j] = w[On(j)] /\ w2[k] = w[On(k)]
      BY <3>1, <1>5
    <3>4. Behind(s, b.level[w[On(k)]].price, b.level[w[On(j)]].price)
      <4> HIDE DEF On
      <4> QED BY <3>2 DEF LevelsAre, w
    <3> HIDE DEF On
    <3> QED BY <3>1, <3>3, <3>4, <2>0, <2>2
  <2> QED BY <2>1, <2>2
<1>18. ASSUME NEW m \in LevelBlocks
       PROVE  m \notin b2.free_level <=> m \in Blocks(lv2[b2.level[m].side])
  <2>1. b2.level[m].side = b.level[m].side /\ b.level[m].side \in Sides
    BY <1>6 DEF BookType, LevelRecord
  <2>2. m \notin b.free_level <=> m \in Blocks(lv[b.level[m].side])
    BY DEF LevelsAre
  <2>3. CASE m = l
    BY <2>1, <2>3, <1>2, <1>6, <1>7, <1>9
  <2>4. CASE m # l
    <3>1. m \in Blocks(lv2[b.level[m].side]) <=> m \in Blocks(lv[b.level[m].side])
      BY <2>1, <2>4, <1>5, <1>7 DEF w
    <3> QED BY <3>1, <2>1, <2>2, <2>4, <1>6
  <2> QED BY <2>3, <2>4
<1>19. b2.next_level \in b2.free_level
  BY <1>6 DEF LevelsAre
<1> QED BY <1>7, <1>13, <1>15, <1>16, <1>17, <1>18, <1>19 DEF LevelsAre

\* CANCEL of the only order of a level.
LEMMA LevelEnds ==
  ASSUME NEW b, NEW lv, NEW ov, NEW r, NEW n, NEW id, NEW o, NEW l, NEW q,
         Leaves(b, lv, ov, r, n, id, o, l, q), Len(ov[l]) = 1, NEW b2 \in BookType,
         Gives(b, b2, ov, id, o), b2.order = b.order,
         NEW s, s = r[id].side, NEW p \in 1 .. Len(lv[s]), l = lv[s][p],
         Removed(b, b2, lv, s, p),
         NEW r2, r2 = Restrict(r, DOMAIN r \ {id})
  PROVE  \E lv2, ov2 : BookIs(b2, lv2, ov2, r2, n) /\ TopsKept(b, b2, ov, ov2, s, r[id].price)
<1> DEFINE w == lv[s]
           lv2 == [lv EXCEPT ![s] = WithoutBlock(lv[s], p)]
           ov2 == Without(ov, l, q)
<1>1. /\ b \in BookType /\ LevelsAre(b, lv) /\ QueuesAre(b, ov) /\ BookIs(b, lv, ov, r, n)
      /\ id \in DOMAIN r /\ o = b.by_id[id] /\ l = getOrdersAtPrice(b, r[id].price)
  BY DEF BookIs, Leaves
<1>2. l \in LevelBlocks \ b.free_level /\ s \in Sides
  BY <1>1, RestingOrder
<1>3. /\ ov2 \in [LevelBlocks -> Seq(OrderBlocks)]
      /\ \A m \in LevelBlocks : m # l => ov2[m] = ov[m]
  BY ListWithout
<1>4. LevelsAre(b2, lv2)
  BY <1>1, <1>2, LevelRemoved
<1>5. OrdersAre(b2, ov2, r2, n)
  BY OrderLeaves
<1> HIDE DEF lv2, ov2
<1>6. /\ b2.free_level = b.free_level \cup {l}
      /\ b2.best = [b.best EXCEPT ![s] = HeadOf(WithoutBlock(w, p))]
      /\ \A m \in LevelBlocks :
           /\ b2.level[m].side = b.level[m].side /\ b2.level[m].price = b.level[m].price
           /\ b2.level[m].first = b.level[m].first
  BY Zenon DEF Removed
<1>7. QueuesAre(b2, ov2)
  <2>1. ASSUME NEW m \in LevelBlocks \ b2.free_level PROVE QueueIs(b2, ov2[m], m)
    <3>1. m \in LevelBlocks \ b.free_level /\ m # l /\ ov2[m] = ov[m]
      BY <2>1, <1>3, <1>6
    <3>2. QueueIs(b, ov[m], m)
      BY <3>1, <1>1 DEF QueuesAre, QueueIs
    <3>3. \A y \in Blocks(ov[m]) : SameButQty(b2.order[y], b.order[y])
      BY DEF SameButQty
    <3> QED BY <3>1, <3>2, <3>3, <1>6, QueueKept
  <2> QED BY <2>1, <1>3 DEF QueuesAre, QueueIs
<1>8. TopsKept(b, b2, ov, ov2, s, r[id].price)
  <2> SUFFICES ASSUME NEW t \in Sides, b.best[t] # Null,
                      t # s \/ Behind(s, r[id].price, b.level[b.best[t]].price)
               PROVE  /\ b2.best[t] = b.best[t]
                      /\ b2.level[b.best[t]].price = b.level[b.best[t]].price
                      /\ ov2[b.best[t]] = ov[b.best[t]]
                      /\ \A x \in Blocks(ov[b.best[t]]) : b2.order[x] = b.order[x]
    BY Zenon DEF TopsKept
  <2>1. b.best[t] \in LevelBlocks \ b.free_level /\ b.best[t] # l
    BY <1>1, OtherBest
  <2>2. b2.best[t] = b.best[t]
    <3>1. CASE t # s
      BY <3>1, <1>1, <1>6 DEF BookType
    <3>2. CASE t = s
      <4>1. Len(w) \in Nat \ {0} /\ b.best[s] = w[1] /\ w \in Seq(LevelBlocks)
        <5>1. Len(lv[t]) \in Nat \ {0} /\ b.best[t] = lv[t][1]
          BY <1>1, BestLevel
        <5>2. lv[s] \in Seq(LevelBlocks)
          BY <1>1, <1>2 DEF LevelsAre
        <5> QED BY <5>1, <5>2, <3>2
      <4>2. p # 1
        BY <4>1, <3>2, <2>1
      <4>3. 1 \in 1 .. (Len(w) - 1) /\ 1 < p
        BY <4>1, <4>2
      <4>4. Len(WithoutBlock(w, p)) = Len(w) - 1 /\ WithoutBlock(w, p)[1] = w[1]
        <5>1. p \in 1 .. Len(w)
          OBVIOUS
        <5> HIDE DEF w
        <5>2. /\ Len(WithoutBlock(w, p)) = Len(w) - 1
              /\ \A k \in 1 .. (Len(w) - 1) :
                   WithoutBlock(w, p)[k] = IF k < p THEN w[k] ELSE w[k + 1]
          BY <4>1, <5>1, WithoutBlockFacts
        <5> QED BY <5>2, <4>3
      <4>5. HeadOf(WithoutBlock(w, p)) = w[1]
        BY <4>1, <4>3, <4>4 DEF HeadOf
      <4> QED BY <4>1, <4>5, <3>2, <1>1, <1>2, <1>6 DEF BookType
    <3> QED BY <3>1, <3>2
  <2> QED BY <2>1, <2>2, <1>3, <1>6
<1> QED BY <1>4, <1>5, <1>7, <1>8 DEF BookIs

LEMMA CancelsLevel ==
  ASSUME NEW b, NEW lv, NEW ov, NEW r, NEW n, NEW id, NEW o, NEW l, NEW q,
         Leaves(b, lv, ov, r, n, id, o, l, q), b.order[o].prev = o,
         NEW b2, b2 = removeOrder(b, o), NEW r2, r2 = Restrict(r, DOMAIN r \ {id})
  PROVE  \E lv2, ov2 : BookIs(b2, lv2, ov2, r2, n) /\ TopsKept(b, b2, ov, ov2, r[id].side, r[id].price)
<1> DEFINE s == r[id].side
           w == lv[s]
           i0 == priceToIndex(b.level[l].price)
           at == [b.at EXCEPT ![i0] = Null]
           free == b.free_level \cup {l}
           by_id == [b.by_id EXCEPT ![id] = Null]
           Rest(best, level) ==
             [b EXCEPT !.at = at, !.free_level = free, !.best = best, !.level = level,
                       !.by_id = by_id, !.free_order = b.free_order \cup {o}]
<1>1. /\ b \in BookType /\ LevelsAre(b, lv) /\ QueuesAre(b, ov) /\ BookIs(b, lv, ov, r, n)
      /\ id \in DOMAIN r /\ o = b.by_id[id] /\ l = getOrdersAtPrice(b, r[id].price)
      /\ q \in 1 .. Len(ov[l]) /\ ov[l][q] = o
  BY DEF BookIs, Leaves
<1>2. /\ l \in LevelBlocks \ b.free_level /\ o \in Blocks(ov[l]) /\ o \in OrderBlocks /\ id \in OrderIds
      /\ b.order[o].id = id /\ b.order[o].price = r[id].price /\ b.order[o].side = s
      /\ b.level[l].side = s /\ b.level[l].price = r[id].price /\ s \in Sides
      /\ priceToIndex(r[id].price) \in Index
  BY <1>1, RestingOrder
<1>3. Len(ov[l]) = 1
  <2> DEFINE u == ov[l]
  <2>1. u \in Seq(OrderBlocks) /\ Len(u) \in Nat /\ IsRing(b.order, u) /\ Once(u)
    BY <1>1, <1>2 DEF QueuesAre
  <2>2. u[Pred(u, q)] = u[q]
    BY <1>1, <2>1 DEF IsRing
  <2>3. Pred(u, q) \in 1 .. Len(u)
    <3>1. \A len \in Nat : \A i \in 1 .. len : (IF i = 1 THEN len ELSE i - 1) \in 1 .. len
      OBVIOUS
    <3> QED BY <3>1, <2>1, <1>1 DEF Pred
  <2>4. Pred(u, q) = q
    BY <2>1, <2>2, <2>3, <1>1 DEF Once
  <2>5. \A len \in Nat : \A i \in 1 .. len : (IF i = 1 THEN len ELSE i - 1) = i => len = 1
    OBVIOUS
  <2> QED BY <2>1, <2>4, <2>5, <1>1 DEF Pred
<1>4. /\ w \in Seq(LevelBlocks) /\ Len(w) \in Nat /\ IsRing(b.level, w) /\ Once(w)
      /\ b.best[s] = HeadOf(w) /\ l \in Blocks(w)
  BY <1>1, <1>2 DEF LevelsAre
<1>5. PICK p \in 1 .. Len(w) : w[p] = l
  BY <1>4 DEF Blocks
<1> DEFINE a == w[Pred(w, p)]
           c == w[Succ(w, p)]
           w2 == WithoutBlock(w, p)
           best == [b.best EXCEPT ![s] = HeadOf(w2)]
<1>6. b.level[l].prev = a /\ b.level[l].next = c
  BY <1>4, <1>5 DEF IsRing
<1>7. Pred(w, p) \in 1 .. Len(w) /\ Succ(w, p) \in 1 .. Len(w)
      /\ (Len(w) # 1 => Pred(w, p) # p /\ Succ(w, p) # p)
  <2>1. \A len \in Nat : \A i \in 1 .. len :
          /\ (IF i = len THEN 1 ELSE i + 1) \in 1 .. len
          /\ (IF i = 1 THEN len ELSE i - 1) \in 1 .. len
          /\ len # 1 => (IF i = len THEN 1 ELSE i + 1) # i /\ (IF i = 1 THEN len ELSE i - 1) # i
    OBVIOUS
  <2> QED BY <2>1, <1>4, <1>5 DEF Pred, Succ
<1>8. a \in LevelBlocks /\ c \in LevelBlocks /\ (Len(w) # 1 => a # l /\ c # l)
  BY <1>4, <1>5, <1>7 DEF Once
<1>9. /\ w2 \in Seq(LevelBlocks) /\ Len(w2) = Len(w) - 1
      /\ \A k \in 1 .. (Len(w) - 1) : w2[k] = IF k < p THEN w[k] ELSE w[k + 1]
  <2>1. p \in 1 .. Len(w)
    OBVIOUS
  <2> HIDE DEF w
  <2> QED BY <1>4, <2>1, WithoutBlockFacts
<1>10. getOrdersAtPrice(b, b.order[o].price) = l /\ i0 = priceToIndex(b.order[o].price)
  BY <1>1, <1>2
<1>11. Len(w) = 1 => c = l /\ a = l
  <2>1. \A len \in Nat : \A i \in 1 .. len :
          len = 1 => (IF i = len THEN 1 ELSE i + 1) = i /\ (IF i = 1 THEN len ELSE i - 1) = i
    OBVIOUS
  <2>2. Len(w) = 1 => Succ(w, p) = p /\ Pred(w, p) = p
    BY <2>1, <1>4 DEF Succ, Pred
  <2> QED BY <2>2, <1>5
<1>12. \E level :
         /\ level \in [LevelBlocks -> LevelRecord] /\ b2 = Rest(best, level)
         /\ \A m \in LevelBlocks :
              /\ level[m].side = b.level[m].side /\ level[m].price = b.level[m].price
              /\ level[m].first = b.level[m].first
         /\ \A m \in LevelBlocks \ {l} : /\ level[m].next = IF m = a THEN c ELSE b.level[m].next
                                         /\ level[m].prev = IF m = c THEN a ELSE b.level[m].prev
  <2>0. b.level \in [LevelBlocks -> LevelRecord]
    BY <1>1 DEF BookType
  <2>1. CASE Len(w) = 1
    <3>1. HeadOf(w2) = Null
      BY <2>1, <1>9 DEF HeadOf
    <3>2. removeOrder(b, o) = Rest(best, b.level)
      <4>1. b.level[l].next = l
        BY <2>1, <1>6, <1>11
      <4>2. removeOrdersAtPrice(b, s, b.order[o].price)
              = [b EXCEPT !.at = at, !.free_level = free, !.best = best]
        <5> HIDE DEF w, w2, a, c
        <5> QED BY <4>1, <3>1, <1>1, <1>10 DEF removeOrdersAtPrice, BookType
      <4>3. removeOrder(b, o)
              = [removeOrdersAtPrice(b, s, b.order[o].price) EXCEPT
                   !.by_id[id] = Null, !.free_order = @ \cup {o}]
        BY <1>2 DEF removeOrder
      <4> DEFINE level == b.level
      <4> HIDE DEF w, w2, a, c, at, free, best
      <4>4. [b EXCEPT !.at = at, !.free_level = free, !.best = best]
              = [b EXCEPT !.at = at, !.free_level = free, !.best = best, !.level = level]
        BY <1>1 DEF BookType
      <4> HIDE DEF level
      <4>5. removeOrder(b, o) = Rest(best, level)
        BY <4>2, <4>3, <4>4, <1>1 DEF BookType
      <4> QED BY <4>5 DEF level
    <3>3. \A m \in LevelBlocks \ {l} : m # a /\ m # c
      BY <1>11, <2>1
    <3> HIDE DEF a, c, Rest
    <3> WITNESS b.level
    <3> QED BY <2>0, <3>2, <3>3
  <2>2. CASE Len(w) # 1
    <3> DEFINE l1 == [b.level EXCEPT ![a].next = c]
               l2 == [l1 EXCEPT ![c].prev = a]
               l3 == [l2 EXCEPT ![l].prev = Null, ![l].next = Null]
    <3>1. a # l /\ c # l
      BY <2>2, <1>8
    <3>2. HeadOf(w2) = IF b.best[s] = l THEN c ELSE b.best[s]
      <4>1. Len(w2) # 0 /\ 1 \in 1 .. (Len(w) - 1) /\ Len(w) # 0 /\ 1 \in 1 .. Len(w)
        <5>1. \A len \in Nat : \A i \in 1 .. len : len # 1 =>
                len - 1 # 0 /\ 1 \in 1 .. (len - 1) /\ len # 0 /\ 1 \in 1 .. len
          OBVIOUS
        <5> HIDE DEF w2
        <5> QED BY <5>1, <2>2, <1>4, <1>5, <1>9
      <4>2. HeadOf(w2) = w2[1] /\ b.best[s] = w[1]
        BY <4>1, <1>4 DEF HeadOf
      <4>3. CASE p = 1
        <5>1. Succ(w, p) = 2 /\ l = w[1]
          BY <4>3, <2>2, <1>5 DEF Succ
        <5>2. w2[1] = w[2]
          <6> HIDE DEF w2
          <6> QED BY <4>1, <4>3, <1>9
        <5> HIDE DEF w, w2
        <5> QED BY <4>2, <5>1, <5>2
      <4>4. CASE p # 1
        <5>1. 1 < p /\ w[1] # l
          BY <4>1, <4>4, <1>4, <1>5 DEF Once
        <5> QED BY <4>1, <4>2, <5>1, <1>9
      <4> QED BY <4>3, <4>4
    <3> HIDE DEF a, c, w, w2
    <3>3. /\ l1 \in [LevelBlocks -> LevelRecord] /\ l1[l] = b.level[l]
          /\ \A m \in LevelBlocks :
               /\ l1[m].side = b.level[m].side /\ l1[m].price = b.level[m].price
               /\ l1[m].first = b.level[m].first /\ l1[m].prev = b.level[m].prev
               /\ l1[m].next = IF m = a THEN c ELSE b.level[m].next
      BY <2>0, <3>1, <1>2, <1>8 DEF LevelRecord
    <3> HIDE DEF l1
    <3>4. /\ l2 \in [LevelBlocks -> LevelRecord] /\ l2[l] = b.level[l]
          /\ \A m \in LevelBlocks :
               /\ l2[m].side = l1[m].side /\ l2[m].price = l1[m].price
               /\ l2[m].first = l1[m].first /\ l2[m].next = l1[m].next
               /\ l2[m].prev = IF m = c THEN a ELSE l1[m].prev
      <4> DEFINE rec == [l1[c] EXCEPT !.prev = a]
      <4>1. /\ rec \in LevelRecord /\ rec.prev = a /\ rec.next = l1[c].next /\ rec.side = l1[c].side
            /\ rec.price = l1[c].price /\ rec.first = l1[c].first
        <5>1. l1[c] \in LevelRecord
          BY <3>3, <1>8
        <5> QED BY <5>1, <1>8 DEF LevelRecord
      <4>2. l2 = [l1 EXCEPT ![c] = rec]
        BY <3>3, <1>8
      <4> HIDE DEF rec, l2
      <4> QED BY <4>1, <4>2, <3>1, <3>3, <1>2, <1>8
    <3> HIDE DEF l2
    <3>5. /\ l3 \in [LevelBlocks -> LevelRecord]
          /\ l3[l].side = l2[l].side /\ l3[l].price = l2[l].price /\ l3[l].first = l2[l].first
          /\ \A m \in LevelBlocks \ {l} : l3[m] = l2[m]
      <4> DEFINE rec == [l2[l] EXCEPT !.prev = Null, !.next = Null]
      <4>1. rec \in LevelRecord /\ rec.side = l2[l].side /\ rec.price = l2[l].price
            /\ rec.first = l2[l].first
        <5>1. l2[l] \in LevelRecord
          BY <3>4, <1>2
        <5> QED BY <5>1 DEF LevelRecord
      <4>2. l3 = [l2 EXCEPT ![l] = rec]
        BY <3>4, <1>2
      <4> HIDE DEF rec, l3
      <4> QED BY <3>4, <4>1, <4>2, <1>2
    <3>6. removeOrder(b, o) = Rest(best, l3)
      <4>1. b.level[l].next # l
        BY <3>1, <1>6
      <4>2. removeOrdersAtPrice(b, s, b.order[o].price)
              = [b EXCEPT !.at = at, !.free_level = free, !.best = best, !.level = l3]
        <5>1. l1 = [b.level EXCEPT ![b.level[l].prev].next = b.level[l].next]
          BY <1>6 DEF l1
        <5>2. l1[l].next = c /\ l1[l].prev = a
          BY <3>3, <1>6
        <5>3. l2 = [l1 EXCEPT ![l1[l].next].prev = l1[l].prev]
          BY <5>2 DEF l2
        <5>4. l2[l].next = c
          BY <3>4, <1>6
        <5>5. best = [b.best EXCEPT ![s] = IF @ = l THEN l2[l].next ELSE @]
          BY <3>2, <5>4
        <5> HIDE DEF best, l3
        <5>6. l3 = [l2 EXCEPT ![l].prev = Null, ![l].next = Null]
          BY DEF l3
        <5>7. removeOrdersAtPrice(b, s, b.order[o].price)
                = [[b EXCEPT !.at[i0] = Null, !.free_level = @ \cup {l}]
                     EXCEPT !.best[s] = IF @ = l THEN l2[l].next ELSE @, !.level = l3]
          <6> DEFINE m == getOrdersAtPrice(b, b.order[o].price)
                     m1 == [b.level EXCEPT ![b.level[m].prev].next = b.level[m].next]
                     m2 == [m1 EXCEPT ![m1[m].next].prev = m1[m].prev]
                     m3 == [m2 EXCEPT ![m].prev = Null, ![m].next = Null]
          <6>1. m = l
            BY <1>10
          <6>2. m1 = l1 /\ m2 = l2 /\ m3 = l3
            BY <6>1, <5>1, <5>3, <5>6
          <6>3. b.level[m].next # m
            <7> HIDE DEF m
            <7> QED BY <4>1, <6>1
          <6>4. removeOrdersAtPrice(b, s, b.order[o].price)
                  = [[b EXCEPT !.at[priceToIndex(b.order[o].price)] = Null, !.free_level = @ \cup {m}]
                       EXCEPT !.best[s] = IF @ = m THEN m2[m].next ELSE @, !.level = m3]
            <7> DEFINE R == [[b EXCEPT !.at[priceToIndex(b.order[o].price)] = Null, !.free_level = @ \cup {m}]
                       EXCEPT !.best[s] = IF @ = m THEN m2[m].next ELSE @, !.level = m3]
                       L == [[b EXCEPT !.at[priceToIndex(b.order[o].price)] = Null, !.free_level = @ \cup {m}]
                             EXCEPT !.best[s] = Null]
            <7>1. removeOrdersAtPrice(b, s, b.order[o].price) = IF b.level[m].next = m THEN L ELSE R
              BY Zenon DEF removeOrdersAtPrice
            <7> HIDE DEF L, R
            <7>2. removeOrdersAtPrice(b, s, b.order[o].price) = R
              BY <7>1, <6>3
            <7> QED BY <7>2 DEF R
          <6> HIDE DEF m1, m2, m3, m
          <6> QED BY <6>1, <6>2, <6>4, <1>10
        <5>8. b.free_level \cup {l} = free /\ [b.at EXCEPT ![i0] = Null] = at
          OBVIOUS
        <5> HIDE DEF at, free, i0
        <5>9. [[b EXCEPT !.at[i0] = Null, !.free_level = @ \cup {l}]
                EXCEPT !.best[s] = IF @ = l THEN l2[l].next ELSE @, !.level = l3]
              = [b EXCEPT !.at = at, !.free_level = free, !.best = best, !.level = l3]
          BY <5>5, <5>8, <1>1 DEF BookType
        <5> QED BY <5>7, <5>9
      <4>3. removeOrder(b, o)
              = [removeOrdersAtPrice(b, s, b.order[o].price) EXCEPT
                   !.by_id[id] = Null, !.free_order = @ \cup {o}]
        BY <1>2 DEF removeOrder
      <4> HIDE DEF at, free, best, l3
      <4> QED BY <4>2, <4>3, <1>1 DEF BookType
    <3> HIDE DEF l3, Rest, best
    <3> WITNESS l3
    <3> QED BY <3>3, <3>4, <3>5, <3>6
  <2> QED BY <2>1, <2>2
<1> HIDE DEF w2
<1>13. PICK level :
         /\ level \in [LevelBlocks -> LevelRecord] /\ b2 = Rest(best, level)
         /\ \A m \in LevelBlocks :
              /\ level[m].side = b.level[m].side /\ level[m].price = b.level[m].price
              /\ level[m].first = b.level[m].first
         /\ \A m \in LevelBlocks \ {l} : /\ level[m].next = IF m = a THEN c ELSE b.level[m].next
                                         /\ level[m].prev = IF m = c THEN a ELSE b.level[m].prev
  BY <1>12
<1>14. /\ at \in [Index -> LevelBlocks \cup {Null}] /\ free \in SUBSET LevelBlocks
       /\ best \in [Sides -> LevelBlocks \cup {Null}]
       /\ by_id \in [OrderIds -> OrderBlocks \cup {Null}] /\ b.free_order \cup {o} \in SUBSET OrderBlocks
  <2>1. HeadOf(w2) \in LevelBlocks \cup {Null}
    <3>1. Len(w2) \in Nat /\ \A k \in 1 .. Len(w2) : w2[k] \in LevelBlocks
      BY <1>9
    <3> QED BY <3>1 DEF HeadOf
  <2> QED BY <2>1, <1>1, <1>2 DEF BookType
<1> HIDE DEF at, free, best, by_id, a, c
<1>15. /\ b2 \in BookType /\ b2.order = b.order /\ b2.level = level /\ b2.by_id = by_id
       /\ b2.free_order = b.free_order \cup {o} /\ b2.next_order = b.next_order
       /\ b2.free_level = free /\ b2.next_level = b.next_level /\ b2.at = at /\ b2.best = best
  BY <1>1, <1>13, <1>14 DEF BookType
<1>16. Removed(b, b2, lv, s, p)
  BY <1>5, <1>13, <1>15 DEF Removed, at, free, best, w2, a, c
<1>17. Gives(b, b2, ov, id, o)
  <2>1. Blocks(ov[l]) = {o}
    <3>1. \A k \in 1 .. Len(ov[l]) : k = q
      BY <1>1, <1>3
    <3> QED BY <3>1, <1>1 DEF Blocks
  <2>2. \A i \in Index : b2.at[i] = b.at[i] \/ (b.at[i] # Null /\ Blocks(ov[b.at[i]]) = {o})
    <3>1. b.at[i0] = l /\ l # Null
      BY <1>2, <1>10, NullIsNoBlock DEF getOrdersAtPrice
    <3>2. \A i \in Index : i # i0 => b2.at[i] = b.at[i]
      BY <1>1, <1>15 DEF BookType, at
    <3> QED BY <2>1, <3>1, <3>2
  <2>3. \A m \in LevelBlocks \ b2.free_level : m \notin b.free_level
    BY <1>15 DEF free
  <2> QED BY <2>2, <2>3, <1>15 DEF Gives, by_id
<1>18. s = r[id].side /\ p \in 1 .. Len(lv[s]) /\ l = lv[s][p]
  BY <1>5
<1> HIDE DEF s
<1> QED BY <1>3, <1>15, <1>16, <1>17, <1>18, LevelEnds

LEMMA Cancels ==
  ASSUME NEW b, NEW lv, NEW ov, NEW r, NEW n, BookIs(b, lv, ov, r, n), NEW id \in DOMAIN r,
         NEW b2, b2 = removeOrder(b, b.by_id[id]), NEW r2, r2 = Restrict(r, DOMAIN r \ {id})
  PROVE  \E lv2, ov2 : BookIs(b2, lv2, ov2, r2, n) /\ TopsKept(b, b2, ov, ov2, r[id].side, r[id].price)
<1> DEFINE o == b.by_id[id]
           l == getOrdersAtPrice(b, r[id].price)
<1>1. o \in Blocks(ov[l])
  BY RestingOrder
<1>2. PICK q \in 1 .. Len(ov[l]) : ov[l][q] = o
  BY <1>1 DEF Blocks
<1>3. Leaves(b, lv, ov, r, n, id, o, l, q)
  BY <1>2 DEF Leaves
<1>4. b2 = removeOrder(b, o)
  OBVIOUS
<1> HIDE DEF o, l
<1>5. CASE b.order[o].prev = o
  BY <1>3, <1>4, <1>5, CancelsLevel
<1>6. CASE b.order[o].prev # o
  BY <1>3, <1>4, <1>6, CancelsAtLevel
<1> QED BY <1>5, <1>6

-----------------------------------------------------------------------------
(* What a reader of the lists sees. *)

LEMMA ListsRead ==
  ASSUME NEW b, NEW lv, NEW ov, NEW r, NEW n, BookIs(b, lv, ov, r, n)
  PROVE  /\ \A s \in Sides : LevelsOf(b, s) = lv[s]
         /\ \A l \in LevelBlocks \ b.free_level : OrdersOf(b, l) = ov[l]
<1>1. LevelsAre(b, lv) /\ QueuesAre(b, ov)
  BY DEF BookIs
<1>2. ASSUME NEW s \in Sides PROVE LevelsOf(b, s) = lv[s]
  <2> DEFINE w == lv[s]
  <2>1. w \in Seq(LevelBlocks) /\ Once(w) /\ IsRing(b.level, w) /\ b.best[s] = HeadOf(w)
    BY <1>1 DEF LevelsAre
  <2> HIDE DEF w
  <2>2. Len(w) <= LevelPoolSize /\ LevelPoolSize \in Nat
    <3>1. w \in Seq(0 .. (LevelPoolSize - 1)) /\ LevelPoolSize \in Nat \ {0}
      BY <2>1, PoolsAssumption DEF LevelBlocks
    <3> QED BY <3>1, <2>1, OnceIsShort
  <2>3. Walk(b.level, HeadOf(w), LevelPoolSize) = w
    BY <2>1, <2>2, NullIsNoBlock, WalkOfRing
  <2> QED BY <2>1, <2>3 DEF LevelsOf, w
<1>3. ASSUME NEW l \in LevelBlocks \ b.free_level PROVE OrdersOf(b, l) = ov[l]
  <2> DEFINE w == ov[l]
  <2>1. w \in Seq(OrderBlocks) /\ Once(w) /\ IsRing(b.order, w) /\ b.level[l].first = HeadOf(w)
    BY <1>1 DEF QueuesAre, HeadOf
  <2> HIDE DEF w
  <2>2. Len(w) <= OrderPoolSize /\ OrderPoolSize \in Nat
    <3>1. w \in Seq(0 .. (OrderPoolSize - 1)) /\ OrderPoolSize \in Nat \ {0}
      BY <2>1, PoolsAssumption DEF OrderBlocks
    <3> QED BY <3>1, <2>1, OnceIsShort
  <2>3. Walk(b.order, HeadOf(w), OrderPoolSize) = w
    BY <2>1, <2>2, NullIsNoBlock, WalkOfRing
  <2> QED BY <2>1, <2>3 DEF OrdersOf, w
<1> QED BY <1>2, <1>3

\* An update that keeps a best level keeps what updateBBO() would say of it.
LEMMA TopStays ==
  ASSUME NEW b, NEW lv, NEW ov, NEW r, NEW n, BookIs(b, lv, ov, r, n),
         NEW b2, NEW lv2, NEW ov2, NEW r2, NEW n2, BookIs(b2, lv2, ov2, r2, n2),
         NEW s, NEW price, TopsKept(b, b2, ov, ov2, s, price),
         NEW t \in Sides, b.best[t] # Null, t # s \/ Behind(s, price, b.level[b.best[t]].price)
  PROVE  Top(b2, t) = Top(b, t)
<1> DEFINE l == b.best[t]
           w == ov[l]
<1>1. /\ b2.best[t] = l /\ b2.level[l].price = b.level[l].price /\ ov2[l] = w
      /\ \A o \in Blocks(w) : b2.order[o] = b.order[o]
  BY Zenon DEF TopsKept
<1>2. l \in LevelBlocks \ b.free_level
  BY BestLevel DEF BookIs
<1>3. l \in LevelBlocks \ b2.free_level
  BY <1>1, BestLevel DEF BookIs
<1>4. OrdersOf(b, l) = w /\ OrdersOf(b2, l) = w
  BY <1>1, <1>2, <1>3, ListsRead
<1>5. [k \in 1 .. Len(w) |-> b2.order[w[k]]] = [k \in 1 .. Len(w) |-> b.order[w[k]]]
  BY <1>1 DEF Blocks
<1> HIDE DEF l, w
<1>6. b.best[t] = l /\ l # Null
  BY DEF l
<1> QED BY <1>1, <1>4, <1>5, <1>6 DEF Top

\* The blocks in use.
UsedLevels(b) == UNION {ToSet(LevelsOf(b, s)) : s \in Sides}
HeldOrders(b) == {b.by_id[i] : i \in OrderIds} \ {Null}

\* CLEAR finds nothing to do when no order rests.
LEMMA ClearsNothing ==
  ASSUME NEW b, NEW lv, NEW ov, NEW r, NEW n, BookIs(b, lv, ov, r, n), DOMAIN r = {},
         NEW b2, b2 = [b EXCEPT !.free_order = @ \cup HeldOrders(b), !.free_level = @ \cup UsedLevels(b),
                                !.by_id = [i \in OrderIds |-> Null], !.best = [s \in Sides |-> Null]]
  PROVE  b2 = b
<1> DEFINE orders == HeldOrders(b)
           used == UsedLevels(b)
<1>1. b \in BookType /\ LevelsAre(b, lv) /\ QueuesAre(b, ov) /\ OrdersAre(b, ov, r, n)
  BY DEF BookIs
<1>2. ASSUME NEW l \in LevelBlocks \ b.free_level PROVE FALSE
  <2>1. ov[l][1] \in Blocks(ov[l])
    BY <1>1, QueueHasHead
  <2> QED BY <2>1, LevelHasOrder
<1>3. ASSUME NEW s \in Sides PROVE LevelsOf(b, s) = << >> /\ b.best[s] = Null
  <2>1. lv[s] \in Seq(LevelBlocks) /\ b.best[s] = HeadOf(lv[s]) /\ LevelsOf(b, s) = lv[s]
    BY <1>1, ListsRead DEF LevelsAre
  <2>2. b.best[s] = Null
    BY <1>1, <1>2, BestLevel
  <2>3. Len(lv[s]) = 0
    <3> SUFFICES ASSUME Len(lv[s]) # 0 PROVE FALSE
      OBVIOUS
    <3>1. 1 \in 1 .. Len(lv[s])
      BY <2>1
    <3>2. lv[s][1] = Null /\ lv[s][1] \in LevelBlocks
      BY <2>1, <2>2, <3>1 DEF HeadOf
    <3> QED BY <3>2, NullIsNoBlock
  <2> QED BY <2>1, <2>2, <2>3
<1>4. used = {}
  BY <1>3 DEF ToSet, UsedLevels
<1>5. \A i \in OrderIds : b.by_id[i] = Null
  BY <1>1 DEF OrdersAre
<1>6. orders = {}
  BY <1>5 DEF HeldOrders
<1> HIDE DEF orders, used
<1>7. b.by_id = [i \in OrderIds |-> Null] /\ b.best = [s \in Sides |-> Null]
  BY <1>1, <1>3, <1>5 DEF BookType
<1>8. b.free_order \cup orders = b.free_order /\ b.free_level \cup used = b.free_level
  BY <1>4, <1>6
<1> DEFINE free == b.free_order \cup orders
           kept == b.free_level \cup used
           ids == [i \in OrderIds |-> Null]
           tops == [s \in Sides |-> Null]
<1>9. free = b.free_order /\ kept = b.free_level /\ ids = b.by_id /\ tops = b.best
  BY <1>7, <1>8
<1> HIDE DEF free, kept, ids, tops
<1>10. b = [b EXCEPT !.free_order = free, !.free_level = kept, !.by_id = ids, !.best = tops]
  BY <1>1, <1>9 DEF BookType
<1> QED BY <1>10 DEF free, kept, ids, tops, orders, used

-----------------------------------------------------------------------------
(* The book in every reachable state. *)

\* There are lists of levels and queues of orders, of which the memory of the book is
\* the picture.
BookInv == \E lv, ov : BookIs(book, lv, ov, resting, next_id)

\* What the theorems assume, and the code does not enforce: prices do not share slots, and
\* the snapshot of a recovery arrives when the book is empty.
Orderly == NoCollisions /\ ClearsMidway = FALSE

LEMMA InitBook == ASSUME Init PROVE BookInv
<1> DEFINE lv == [s \in Sides |-> << >>]
           ov == [l \in LevelBlocks |-> << >>]
<1>1. 0 \in OrderBlocks /\ 0 \in LevelBlocks
  BY PoolsAssumption DEF OrderBlocks, LevelBlocks
<1>2. BlankOrder \in OrderRecord /\ BlankLevel \in LevelRecord
  BY <1>1 DEF BlankOrder, BlankLevel, OrderRecord, LevelRecord, Sides
<1>3. EmptyBook \in BookType
  BY <1>1, <1>2 DEF EmptyBook, BookType
<1>4. LevelsAre(EmptyBook, lv)
  <2>1. Blocks(<< >>) = {} /\ Once(<< >>) /\ IsRing(EmptyBook.level, << >>) /\ HeadOf(<< >>) = Null
    BY DEF Blocks, Once, IsRing, HeadOf
  <2>2. EmptyBook.level = [l \in LevelBlocks |-> BlankLevel] /\ EmptyBook.free_level = LevelBlocks
        /\ EmptyBook.next_level = 0 /\ EmptyBook.at = [i \in Index |-> Null]
        /\ EmptyBook.best = [s \in Sides |-> Null] /\ BlankLevel.side \in Sides
    BY DEF EmptyBook, BlankLevel, Sides
  <2> QED BY <1>1, <2>1, <2>2 DEF LevelsAre
<1>5. QueuesAre(EmptyBook, ov)
  BY DEF QueuesAre, EmptyBook
<1>6. OrdersAre(EmptyBook, ov, << >>, 1)
  <2>1. DOMAIN << >> = {}
    OBVIOUS
  <2>2. EmptyBook.free_order = OrderBlocks /\ EmptyBook.free_level = LevelBlocks
        /\ EmptyBook.next_order = 0 /\ EmptyBook.by_id = [i \in OrderIds |-> Null]
    BY DEF EmptyBook
  <2> QED BY <1>1, <2>1, <2>2, NullIsNoBlock DEF OrdersAre
<1> QED BY <1>3, <1>4, <1>5, <1>6 DEF BookInv, BookIs, Init

\* What an update leaves: a book that is right, with its tops beyond price kept.
Updated(s, price) ==
  \E lv, ov, lv2, ov2 :
    /\ BookIs(book, lv, ov, resting, next_id)
    /\ BookIs(book', lv2, ov2, resting', next_id')
    /\ TopsKept(book, book', ov, ov2, s, price)

LEMMA AddUpdates ==
  ASSUME Orderly, BookInv, NEW s \in Sides, NEW price \in Prices, NEW qty \in Qtys,
         OnAdd(s, price, qty)
  PROVE  Updated(s, price)
<1>1. PICK lv, ov : BookIs(book, lv, ov, resting, next_id)
  BY DEF BookInv
<1>2. Arrives(book, lv, ov, resting, next_id, s, price, qty, resting')
  BY <1>1 DEF OnAdd, Arrives, Rests, Crosses, Orderly
<1>3. book' = addOrder(AllocateOrder(book, NewOrder(next_id, s, price, qty)), book.next_order)
      /\ next_id' = next_id + 1
  BY Zenon DEF OnAdd, NewOrder
<1>4. \E lv2, ov2 : BookIs(book', lv2, ov2, resting', next_id') /\ TopsKept(book, book', ov, ov2, s, price)
  <2>1. CASE getOrdersAtPrice(book, price) = Null
    BY <1>2, <1>3, <2>1, ArrivesFirst
  <2>2. CASE getOrdersAtPrice(book, price) # Null
    BY <1>2, <1>3, <2>2, ArrivesAtLevel
  <2> QED BY <2>1, <2>2
<1> QED BY <1>1, <1>4 DEF Updated

LEMMA ModifyUpdates ==
  ASSUME BookInv, NEW id, NEW qty \in Qtys, OnModify(id, qty)
  PROVE  Updated(resting[id].side, resting[id].price)
<1>1. PICK lv, ov : BookIs(book, lv, ov, resting, next_id)
  BY DEF BookInv
<1>2. id \in DOMAIN resting /\ next_id' = next_id
      /\ book' = [book EXCEPT !.order[book.by_id[id]].qty = qty]
      /\ resting' = [resting EXCEPT ![id].qty = qty]
  BY DEF OnModify
<1>3. BookIs(book', lv, ov, resting', next_id)
      /\ TopsKept(book, book', ov, ov, resting[id].side, resting[id].price)
  BY <1>1, <1>2, Modifies
<1> QED BY <1>1, <1>2, <1>3 DEF Updated

LEMMA CancelUpdates ==
  ASSUME BookInv, NEW id, OnCancel(id)
  PROVE  Updated(resting[id].side, resting[id].price)
<1>1. PICK lv, ov : BookIs(book, lv, ov, resting, next_id)
  BY DEF BookInv
<1>2. id \in DOMAIN resting /\ next_id' = next_id
      /\ book' = removeOrder(book, book.by_id[id])
      /\ resting' = Restrict(resting, DOMAIN resting \ {id})
  BY DEF OnCancel
<1>3. \E lv2, ov2 : BookIs(book', lv2, ov2, resting', next_id)
                    /\ TopsKept(book, book', ov, ov2, resting[id].side, resting[id].price)
  BY <1>1, <1>2, Cancels
<1> QED BY <1>1, <1>2, <1>3 DEF Updated

LEMMA ClearKeeps ==
  ASSUME Orderly, BookInv, OnClear
  PROVE  UNCHANGED vars
<1>1. PICK lv, ov : BookIs(book, lv, ov, resting, next_id)
  BY DEF BookInv
<1>2. resting = << >> /\ resting' = resting /\ bbo_' = bbo_ /\ next_id' = next_id
  BY DEF OnClear, Orderly
<1>3. DOMAIN resting = {}
  BY <1>2
<1>4. book' = [book EXCEPT !.free_order = @ \cup HeldOrders(book), !.free_level = @ \cup UsedLevels(book),
                           !.by_id = [i \in OrderIds |-> Null], !.best = [s \in Sides |-> Null]]
  BY Zenon DEF OnClear, HeldOrders, UsedLevels
<1>5. book' = book
  BY <1>1, <1>3, <1>4, ClearsNothing
<1> QED BY <1>2, <1>5 DEF vars

LEMMA NextBook == ASSUME Orderly, BookInv, [Next]_vars PROVE BookInv'
<1>1. ASSUME NEW s \in Sides, NEW price \in Prices, NEW qty \in Qtys, OnAdd(s, price, qty)
      PROVE  BookInv'
  BY <1>1, AddUpdates DEF Updated, BookInv
<1>2. ASSUME NEW id \in OrderIds, NEW qty \in Qtys, OnModify(id, qty) PROVE BookInv'
  BY <1>2, ModifyUpdates DEF Updated, BookInv
<1>3. ASSUME NEW id \in OrderIds, OnCancel(id) PROVE BookInv'
  BY <1>3, CancelUpdates DEF Updated, BookInv
<1>4. ASSUME UNCHANGED vars PROVE BookInv'
  BY <1>4 DEF vars, BookInv
<1>5. ASSUME OnClear PROVE BookInv'
  BY <1>4, <1>5, ClearKeeps
<1> QED BY <1>1, <1>2, <1>3, <1>4, <1>5 DEF Next

LEMMA BookHolds == ASSUME Orderly PROVE Spec => []BookInv
<1> QED BY InitBook, NextBook, PTL DEF Spec

-----------------------------------------------------------------------------
(* What the readers of the book see. *)

\* One level, and one order, as Shown() gives them.
ShownOrder(o) == [id |-> book.order[o].id, qty |-> book.order[o].qty]
ShownQueue(w) == [j \in 1 .. Len(w) |-> ShownOrder(w[j])]
ShownLevel(l) == [price |-> book.level[l].price, orders |-> ShownQueue(OrdersOf(book, l))]

LEMMA ShownFacts ==
  ASSUME NEW lv, NEW ov, BookIs(book, lv, ov, resting, next_id), NEW side \in Sides
  PROVE  /\ DOMAIN Shown(side) = 1 .. Len(lv[side])
         /\ \A k \in 1 .. Len(lv[side]) :
              /\ lv[side][k] \in LevelBlocks \ book.free_level
              /\ lv[side][k] \in Blocks(lv[side])
              /\ book.level[lv[side][k]].side = side
              /\ Shown(side)[k].price = book.level[lv[side][k]].price
              /\ Shown(side)[k].orders = ShownQueue(ov[lv[side][k]])
<1>1. Shown(side) = [k \in 1 .. Len(LevelsOf(book, side)) |-> ShownLevel(LevelsOf(book, side)[k])]
  BY Zenon DEF Shown, ShownLevel, ShownQueue, ShownOrder
<1>2. LevelsOf(book, side) = lv[side]
  BY ListsRead
<1>3. ASSUME NEW k \in 1 .. Len(lv[side])
      PROVE  /\ lv[side][k] \in LevelBlocks \ book.free_level
             /\ lv[side][k] \in Blocks(lv[side])
             /\ book.level[lv[side][k]].side = side
  <2>1. lv[side][k] \in Blocks(lv[side])
    BY DEF Blocks
  <2> QED BY <2>1, LevelInUse DEF BookIs, LevelsAre
<1>4. ASSUME NEW k \in 1 .. Len(lv[side])
      PROVE  Shown(side)[k] = [price |-> book.level[lv[side][k]].price,
                               orders |-> ShownQueue(ov[lv[side][k]])]
  <2>1. Shown(side)[k] = ShownLevel(lv[side][k])
    BY <1>1, <1>2
  <2>2. OrdersOf(book, lv[side][k]) = ov[lv[side][k]]
    BY <1>3, ListsRead
  <2> QED BY <2>1, <2>2 DEF ShownLevel
<1>5. DOMAIN Shown(side) = 1 .. Len(lv[side])
  BY <1>1, <1>2
<1>6. ASSUME NEW k \in 1 .. Len(lv[side])
      PROVE  /\ Shown(side)[k].price = book.level[lv[side][k]].price
             /\ Shown(side)[k].orders = ShownQueue(ov[lv[side][k]])
  <2> DEFINE p == book.level[lv[side][k]].price
             q == ShownQueue(ov[lv[side][k]])
  <2>1. Shown(side)[k] = [price |-> p, orders |-> q]
    BY <1>4
  <2> HIDE DEF p, q
  <2>2. Shown(side)[k].price = p /\ Shown(side)[k].orders = q
    BY <2>1
  <2> QED BY <2>2 DEF p, q
<1> QED BY <1>3, <1>5, <1>6

\* The prices of the lists are those of the resting orders.
LEMMA PricesShown ==
  ASSUME NEW lv, NEW ov, BookIs(book, lv, ov, resting, next_id), NEW side \in Sides
  PROVE  {Shown(side)[k].price : k \in DOMAIN Shown(side)} = {resting[i].price : i \in OnSide(side)}
<1>1. ASSUME NEW k \in DOMAIN Shown(side)
      PROVE  \E i \in OnSide(side) : resting[i].price = Shown(side)[k].price
  <2> DEFINE l == lv[side][k]
  <2>1. l \in LevelBlocks \ book.free_level /\ book.level[l].side = side
        /\ Shown(side)[k].price = book.level[l].price
    BY <1>1, ShownFacts
  <2> HIDE DEF l
  <2>2. ov[l][1] \in Blocks(ov[l])
    BY <2>1, QueueHasHead DEF BookIs
  <2>3. book.order[ov[l][1]].id \in OnSide(side)
        /\ resting[book.order[ov[l][1]].id].price = book.level[l].price
    BY <2>1, <2>2, LevelHasOrder DEF OnSide
  <2> QED BY <2>1, <2>3
<1>2. ASSUME NEW i \in OnSide(side)
      PROVE  \E k \in DOMAIN Shown(side) : resting[i].price = Shown(side)[k].price
  <2> DEFINE l == getOrdersAtPrice(book, resting[i].price)
  <2>1. i \in DOMAIN resting /\ resting[i].side = side
    BY DEF OnSide
  <2>2. l \in LevelBlocks \ book.free_level /\ book.level[l].side = side
        /\ book.level[l].price = resting[i].price
    BY <2>1, RestingOrder
  <2> HIDE DEF l
  <2>3. l \in Blocks(lv[side])
    BY <2>2, LevelInUse DEF BookIs
  <2>4. PICK k \in 1 .. Len(lv[side]) : lv[side][k] = l
    BY <2>3 DEF Blocks
  <2>5. k \in DOMAIN Shown(side) /\ Shown(side)[k].price = book.level[l].price
    BY <2>4, ShownFacts
  <2> QED BY <2>2, <2>5
<1> QED BY <1>1, <1>2

\* The orders of a level of the lists are those that rest at its price.
LEMMA OrdersShown ==
  ASSUME NEW lv, NEW ov, BookIs(book, lv, ov, resting, next_id), NEW side \in Sides,
         NEW k \in DOMAIN Shown(side)
  PROVE  /\ \A i, j \in DOMAIN Shown(side)[k].orders :
              i < j => Shown(side)[k].orders[i].id < Shown(side)[k].orders[j].id
         /\ ToSet(Shown(side)[k].orders) =
              {[id |-> i, qty |-> resting[i].qty] : i \in OnLevel(side, Shown(side)[k].price)}
<1> DEFINE l == lv[side][k]
           price == book.level[l].price
           w == ov[l]
<1>1. l \in LevelBlocks \ book.free_level /\ book.level[l].side = side
      /\ Shown(side)[k].price = price /\ Shown(side)[k].orders = ShownQueue(w)
  BY ShownFacts
<1>2. price \in Nat /\ book.at[priceToIndex(price)] = l
  BY <1>1, LevelInUse DEF BookIs
<1>3. \A i, j \in 1 .. Len(w) : i < j => book.order[w[i]].id < book.order[w[j]].id
  BY <1>1 DEF BookIs, QueuesAre
<1> HIDE DEF l
<1>4. \A o \in Blocks(w) : ShownOrder(o) \in {[id |-> i, qty |-> resting[i].qty] : i \in OnLevel(side, price)}
  <2> TAKE o \in Blocks(w)
  <2> DEFINE i == book.order[o].id
  <2>1. i \in DOMAIN resting /\ resting[i].side = side /\ resting[i].price = price
        /\ resting[i].qty = book.order[o].qty
    BY <1>1, LevelHasOrder
  <2>2. i \in OnLevel(side, price)
    BY <2>1 DEF OnLevel, OnSide
  <2> QED BY <2>1, <2>2 DEF ShownOrder
<1>5. ASSUME NEW i \in OnLevel(side, price)
      PROVE  \E o \in Blocks(w) : ShownOrder(o) = [id |-> i, qty |-> resting[i].qty]
  <2> DEFINE o == book.by_id[i]
  <2>1. i \in DOMAIN resting /\ resting[i].price = price
    BY DEF OnLevel, OnSide
  <2>2. getOrdersAtPrice(book, resting[i].price) = l
    BY <1>2, <2>1 DEF getOrdersAtPrice
  <2>3. o \in Blocks(ov[l]) /\ book.order[o].id = i /\ book.order[o].qty = resting[i].qty
    BY <2>1, <2>2, RestingOrder
  <2> QED BY <2>3 DEF ShownOrder
<1> DEFINE queue == ShownQueue(w)
<1> HIDE DEF w, price
<1>6. DOMAIN queue = 1 .. Len(w) /\ \A j \in 1 .. Len(w) : queue[j] = ShownOrder(w[j])
  BY DEF ShownQueue
<1>7. \A i, j \in DOMAIN queue : i < j => queue[i].id < queue[j].id
  BY <1>3, <1>6 DEF ShownOrder
<1> HIDE DEF queue
<1>8. ToSet(queue) = {ShownOrder(o) : o \in Blocks(w)}
  BY <1>6 DEF ToSet, Blocks
<1>9. ToSet(queue) = {[id |-> i, qty |-> resting[i].qty] : i \in OnLevel(side, price)}
  BY <1>4, <1>5, <1>8
<1> QED BY <1>1, <1>7, <1>9 DEF queue

LEMMA BookShowsOrders == ASSUME BookInv PROVE ListsShowOrders
<1>1. PICK lv, ov : BookIs(book, lv, ov, resting, next_id)
  BY DEF BookInv
<1> SUFFICES ASSUME NEW side \in Sides
    PROVE  /\ \A j, k \in DOMAIN Shown(side) :
                j < k => Behind(side, Shown(side)[k].price, Shown(side)[j].price)
           /\ {Shown(side)[k].price : k \in DOMAIN Shown(side)} = {resting[i].price : i \in OnSide(side)}
           /\ \A k \in DOMAIN Shown(side) :
                /\ \A i, j \in DOMAIN Shown(side)[k].orders :
                     i < j => Shown(side)[k].orders[i].id < Shown(side)[k].orders[j].id
                /\ ToSet(Shown(side)[k].orders) =
                     {[id |-> i, qty |-> resting[i].qty] : i \in OnLevel(side, Shown(side)[k].price)}
  BY Zenon DEF ListsShowOrders
<1>2. \A j, k \in 1 .. Len(lv[side]) :
        j < k => Behind(side, book.level[lv[side][k]].price, book.level[lv[side][j]].price)
  BY <1>1 DEF BookIs, LevelsAre
<1>3. \A j, k \in DOMAIN Shown(side) :
        j < k => Behind(side, Shown(side)[k].price, Shown(side)[j].price)
  BY <1>1, <1>2, ShownFacts
<1> QED BY <1>1, <1>3, PricesShown, OrdersShown

\* In a ring, prev leads back from where next leads.
LEMMA RingTurns ==
  ASSUME NEW S, NEW w \in Seq(S), NEW node, IsRing(node, w), NEW x \in Blocks(w)
  PROVE  node[node[x].next].prev = x
<1>1. PICK k \in 1 .. Len(w) : w[k] = x
  BY DEF Blocks
<1>2. Succ(w, k) \in 1 .. Len(w) /\ Pred(w, Succ(w, k)) = k
  BY DEF Succ, Pred
<1> QED BY <1>1, <1>2 DEF IsRing

LEMMA LinksAgree == ASSUME BookInv PROVE ListsAreDoublyLinked
<1>1. PICK lv, ov : BookIs(book, lv, ov, resting, next_id)
  BY DEF BookInv
<1>2. book \in BookType /\ LevelsAre(book, lv) /\ QueuesAre(book, ov) /\ OrdersAre(book, ov, resting, next_id)
  BY <1>1 DEF BookIs
<1> SUFFICES ASSUME NEW side \in Sides, NEW l \in ToSet(LevelsOf(book, side))
    PROVE  /\ l \notin book.free_level
           /\ book.level[book.level[l].next].prev = l
           /\ book.at[priceToIndex(book.level[l].price)] = l
           /\ \A o \in ToSet(OrdersOf(book, l)) :
                /\ o \notin book.free_order
                /\ book.order[book.order[o].next].prev = o
                /\ book.by_id[book.order[o].id] = o
  BY Zenon DEF ListsAreDoublyLinked
<1>3. lv[side] \in Seq(LevelBlocks) /\ LevelsOf(book, side) = lv[side] /\ IsRing(book.level, lv[side])
  BY <1>1, <1>2, ListsRead DEF LevelsAre
<1>4. l \in Blocks(lv[side])
  BY <1>3 DEF ToSet, Blocks
<1>5. l \in LevelBlocks \ book.free_level /\ book.at[priceToIndex(book.level[l].price)] = l
  BY <1>2, <1>4, LevelInUse
<1>6. ov[l] \in Seq(OrderBlocks) /\ OrdersOf(book, l) = ov[l] /\ IsRing(book.order, ov[l])
  BY <1>1, <1>2, <1>5, ListsRead DEF QueuesAre
<1>7. ASSUME NEW o \in ToSet(OrdersOf(book, l))
      PROVE  /\ o \notin book.free_order
             /\ book.order[book.order[o].next].prev = o
             /\ book.by_id[book.order[o].id] = o
  <2>1. o \in Blocks(ov[l])
    BY <1>6 DEF ToSet, Blocks
  <2>2. o \in OrderBlocks
    BY <1>6, <2>1 DEF Blocks
  <2>3. o \notin book.free_order /\ book.by_id[book.order[o].id] = o
    BY <1>2, <1>5, <2>1, <2>2 DEF OrdersAre
  <2> QED BY <1>6, <2>1, <2>3, RingTurns
<1> QED BY <1>3, <1>4, <1>5, <1>7, RingTurns

LEMMA NothingLeaks == ASSUME BookInv PROVE NoBlockLeaks
<1>1. PICK lv, ov : BookIs(book, lv, ov, resting, next_id)
  BY DEF BookInv
<1>2. book \in BookType /\ LevelsAre(book, lv) /\ OrdersAre(book, ov, resting, next_id)
  BY <1>1 DEF BookIs
<1>3. ASSUME NEW s \in Sides PROVE ToSet(LevelsOf(book, s)) = Blocks(lv[s])
  <2>1. lv[s] \in Seq(LevelBlocks) /\ LevelsOf(book, s) = lv[s]
    BY <1>1, <1>2, ListsRead DEF LevelsAre
  <2> QED BY <2>1 DEF ToSet, Blocks
<1>4. ASSUME NEW l PROVE l \in LevelBlocks \ book.free_level <=> \E s \in Sides : l \in Blocks(lv[s])
  BY <1>2, LevelInUse
<1>5. LevelBlocks \ book.free_level = UNION {ToSet(LevelsOf(book, s)) : s \in Sides}
  BY <1>3, <1>4
<1>6. ASSUME NEW o \in OrderBlocks \ book.free_order PROVE \E i \in OrderIds : o = book.by_id[i]
  BY <1>2 DEF OrdersAre
<1>7. ASSUME NEW i \in OrderIds, book.by_id[i] # Null PROVE book.by_id[i] \in OrderBlocks \ book.free_order
  <2>1. i \in DOMAIN resting
    BY <1>2, <1>7 DEF OrdersAre
  <2> QED BY <1>1, <2>1, RestingOrder
<1>8. OrderBlocks \ book.free_order = {book.by_id[i] : i \in OrderIds} \ {Null}
  BY <1>6, <1>7, NullIsNoBlock
<1> QED BY <1>5, <1>8 DEF NoBlockLeaks

-----------------------------------------------------------------------------
(* The best bid and offer. *)

LEMMA BBOFollows ==
  ASSUME BBOExactOrUnset, NEW s, NEW price, Updated(s, price), updateBBO(s, price)
  PROVE  BBOExactOrUnset'
<1>1. PICK lv, ov, lv2, ov2 :
        /\ BookIs(book, lv, ov, resting, next_id)
        /\ BookIs(book', lv2, ov2, resting', next_id')
        /\ TopsKept(book, book', ov, ov2, s, price)
  BY Zenon DEF Updated
<1> SUFFICES ASSUME NEW t \in Sides PROVE bbo_'[t] \in {Top(book', t), Invalid}
  BY DEF BBOExactOrUnset
<1>2. bbo_[t] \in {Top(book, t), Invalid}
  BY DEF BBOExactOrUnset
<1>3. CASE TopTouched(t, s, price)
  BY <1>3 DEF updateBBO
<1>4. CASE ~TopTouched(t, s, price)
  <2>1. bbo_'[t] = bbo_[t]
    BY <1>4 DEF updateBBO
  <2>2. CASE book.best[t] = Null
    BY <1>2, <2>1, <2>2 DEF Top
  <2>3. CASE book.best[t] # Null
    <3>1. t # s \/ Behind(s, price, book.level[book.best[t]].price)
      BY <1>4, <2>3 DEF TopTouched
    <3>2. Top(book', t) = Top(book, t)
      BY <1>1, <2>3, <3>1, TopStays
    <3> QED BY <1>2, <2>1, <3>2
  <2> QED BY <2>2, <2>3
<1> QED BY <1>3, <1>4

LEMMA InitBBO == ASSUME Init PROVE BBOExactOrUnset
BY DEF Init, BBOExactOrUnset

LEMMA NextBBO ==
  ASSUME Orderly, BookInv, BBOExactOrUnset, [Next]_vars
  PROVE  BBOExactOrUnset'
<1>1. ASSUME NEW s \in Sides, NEW price \in Prices, NEW qty \in Qtys, OnAdd(s, price, qty)
      PROVE  BBOExactOrUnset'
  <2>1. updateBBO(s, price)
    BY <1>1 DEF OnAdd
  <2> QED BY <1>1, <2>1, AddUpdates, BBOFollows
<1>2. ASSUME NEW id \in OrderIds, NEW qty \in Qtys, OnModify(id, qty) PROVE BBOExactOrUnset'
  <2>1. updateBBO(resting[id].side, resting[id].price)
    BY <1>2 DEF OnModify
  <2> QED BY <1>2, <2>1, ModifyUpdates, BBOFollows
<1>3. ASSUME NEW id \in OrderIds, OnCancel(id) PROVE BBOExactOrUnset'
  <2>1. updateBBO(resting[id].side, resting[id].price)
    BY <1>3 DEF OnCancel
  <2> QED BY <1>3, <2>1, CancelUpdates, BBOFollows
<1>4. ASSUME UNCHANGED vars PROVE BBOExactOrUnset'
  <2>1. book' = book /\ bbo_' = bbo_
    BY <1>4 DEF vars
  <2> SUFFICES ASSUME NEW s \in Sides PROVE bbo_'[s] \in {Top(book', s), Invalid}
    BY DEF BBOExactOrUnset
  <2> QED BY <2>1 DEF BBOExactOrUnset
<1>5. ASSUME OnClear PROVE BBOExactOrUnset'
  BY <1>4, <1>5, ClearKeeps
<1> QED BY <1>1, <1>2, <1>3, <1>4, <1>5 DEF Next

-----------------------------------------------------------------------------
\* The types of the memory of the book hold after every market update
\* (onMarketUpdate() of market_order_book.cpp).
THEOREM TypeCorrect == ASSUME Orderly PROVE Spec => []TypeOK
<1>1. BookInv => TypeOK
  <2> SUFFICES ASSUME BookInv PROVE TypeOK
    OBVIOUS
  <2>1. PICK lv, ov : BookIs(book, lv, ov, resting, next_id)
    BY DEF BookInv
  <2>2. book \in BookType /\ next_id \in Nat
    BY <2>1 DEF BookIs, OrdersAre
  <2> QED BY <2>2 DEF BookType, TypeOK
<1> QED BY <1>1, BookHolds, PTL

\* Whoever walks bids_by_price_ or asks_by_price_, and first_mkt_order_ of each level, meets the
\* resting orders, all of them once, sorted by price and by time: for pools of any size, and
\* after any insertions and removals that addOrder() and removeOrder() made.
THEOREM ListsAreRight == ASSUME Orderly PROVE Spec => []ListsShowOrders
<1>1. BookInv => ListsShowOrders
  BY BookShowsOrders
<1> QED BY <1>1, BookHolds, PTL

\* No update leaves a pointer that does not come back, or a block of the two pools that is
\* neither linked in the book nor free: every allocate() has its deallocate().
THEOREM NoBlockIsLost == ASSUME Orderly PROVE Spec => []BlocksAreAccountedFor
<1>1. BookInv => BlocksAreAccountedFor
  BY LinksAgree, NothingLeaks DEF BlocksAreAccountedFor
<1> QED BY <1>1, BookHolds, PTL

\* bid_updated and ask_updated, taken before the update, are right: updateBBO() is never left
\* out when the top of the book changes.
THEOREM BBOIsRight == ASSUME Orderly PROVE Spec => []BBOExactOrUnset
<1>1. Init => BBOExactOrUnset
  BY InitBBO
<1>2. BookInv /\ BBOExactOrUnset /\ [Next]_vars => BBOExactOrUnset'
  BY NextBBO
<1> QED BY <1>1, <1>2, BookHolds, PTL DEF Spec
=============================================================================
