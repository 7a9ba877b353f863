----------------------------- MODULE HeapProofs -----------------------------
(***************************************************************************)
(* Proofs about HeapOps, for arrays of every length: the loop of           *)
(* insertHeap and the recursion of heapify end, rearrange the array and    *)
(* restore the order of the heap.                                          *)
(***************************************************************************)
EXTENDS HeapOps, Integers, SequenceTheorems, WellFoundedInduction, TLAPS

-----------------------------------------------------------------------------
(* Induction and tail recursion *)

\* A set of naturals that has n as soon as it has every number below n has all.
LEMMA NatSets ==
  ASSUME NEW P, \A n \in Nat : (\A m \in 0..(n - 1) : m \in P) => n \in P
  PROVE  Nat \subseteq P
<1> SUFFICES ASSUME Nat \ P # {} PROVE FALSE
  OBVIOUS
<1>1. IsWellFoundedOn({ss \in Nat \X Nat : ss[1] < ss[2]}, Nat)
  BY NatLessThanWellFounded DEF OpToRel
<1>2. PICK n \in Nat \ P : \A m \in Nat \ P : ~(<<m, n>> \in {ss \in Nat \X Nat : ss[1] < ss[2]})
  BY <1>1, WFMin
<1>3. ASSUME NEW m \in 0..(n - 1) PROVE m \in P
  <2>1. <<m, n>> \in Nat \X Nat /\ m < n
    OBVIOUS
  <2> QED
    BY <1>2, <2>1
<1> QED
  BY <1>2, <1>3

\* The runs of a loop: from x, as long as the state is in Go, to the state a[n].
IsRun(D, Go, next, x, n, a) ==
  /\ a \in [0..n -> D]
  /\ a[0] = x
  /\ \A i \in 0..(n - 1) : a[i] \in Go /\ a[i + 1] = next[a[i]]
  /\ a[n] \notin Go

Results(D, Go, next, out, x) ==
  {out[y] : y \in {z \in D : \E n \in Nat : \E a \in [0..n -> D] : IsRun(D, Go, next, x, n, a) /\ z = a[n]}}

\* A state outside Go is where the loop ends.
LEMMA RunEnds ==
  ASSUME NEW D, NEW Go, NEW next, NEW out, NEW x \in D, x \notin Go
  PROVE  Results(D, Go, next, out, x) = {out[x]}
<1> DEFINE a0 == [i \in 0..0 |-> x]
<1>1. 0 \in Nat /\ a0 \in [0..0 -> D] /\ IsRun(D, Go, next, x, 0, a0) /\ x = a0[0]
  BY DEF IsRun
<1>2. ASSUME NEW n \in Nat, NEW a \in [0..n -> D], IsRun(D, Go, next, x, n, a)
      PROVE  a[n] = x
  <2>1. n > 0 => 0 \in 0..(n - 1)
    OBVIOUS
  <2> QED
    BY <1>2, <2>1 DEF IsRun
<1> QED
  BY <1>1, <1>2 DEF Results

\* From a state in Go the loop reaches what it reaches from the next state.
LEMMA RunGoesOn ==
  ASSUME NEW D, NEW Go, NEW next, NEW out, NEW x \in D, x \in Go, next[x] \in D
  PROVE  Results(D, Go, next, out, x) = Results(D, Go, next, out, next[x])
<1>1. ASSUME NEW n \in Nat, NEW a \in [0..n -> D], IsRun(D, Go, next, x, n, a)
      PROVE  \E m \in Nat : \E b \in [0..m -> D] : IsRun(D, Go, next, next[x], m, b) /\ a[n] = b[m]
  <2> DEFINE b == [i \in 0..(n - 1) |-> a[i + 1]]
  <2>1. n # 0
    BY <1>1 DEF IsRun
  <2>2. n - 1 \in Nat /\ b \in [0..(n - 1) -> D] /\ b[n - 1] = a[n]
    BY <2>1
  <2>3. IsRun(D, Go, next, next[x], n - 1, b)
    <3>1. b[0] = next[x]
      BY <1>1, <2>1 DEF IsRun
    <3>2. ASSUME NEW i \in 0..(n - 1 - 1) PROVE b[i] \in Go /\ b[i + 1] = next[b[i]]
      BY <1>1, <2>1 DEF IsRun
    <3> QED
      BY <1>1, <2>2, <3>1, <3>2 DEF IsRun
  <2> QED
    BY <2>2, <2>3
<1>2. ASSUME NEW n \in Nat, NEW b \in [0..n -> D], IsRun(D, Go, next, next[x], n, b)
      PROVE  \E m \in Nat : \E a \in [0..m -> D] : IsRun(D, Go, next, x, m, a) /\ b[n] = a[m]
  <2> DEFINE a == [i \in 0..(n + 1) |-> IF i = 0 THEN x ELSE b[i - 1]]
  <2>2. n + 1 \in Nat /\ a \in [0..(n + 1) -> D] /\ a[n + 1] = b[n]
    OBVIOUS
  <2>3. IsRun(D, Go, next, x, n + 1, a)
    <3>1. ASSUME NEW i \in 0..(n + 1 - 1) PROVE a[i] \in Go /\ a[i + 1] = next[a[i]]
      <4>1. CASE i = 0
        BY <4>1, <1>2 DEF IsRun
      <4>2. CASE i # 0
        <5>1. i - 1 \in 0..(n - 1) /\ i \in 0..n /\ a[i] = b[i - 1] /\ a[i + 1] = b[i] /\ (i - 1) + 1 = i
          BY <4>2
        <5> HIDE DEF a
        <5> QED
          BY <5>1, <1>2 DEF IsRun
      <4> QED
        BY <4>1, <4>2
    <3> QED
      BY <1>2, <2>2, <3>1 DEF IsRun
  <2> QED
    BY <2>2, <2>3
<1> QED
  BY <1>1, <1>2 DEF Results

\* g satisfies the equation of a tail recursive function.
Solves(g, D, Go, next, out) ==
  /\ g = [x \in D |-> g[x]]
  /\ \A x \in D : g[x] = IF x \in Go THEN g[next[x]] ELSE out[x]

\* So the equation of a tail recursive function has a solution, whether or not
\* the recursion ends.
LEMMA TailRecursion ==
  ASSUME NEW D, NEW Go, NEW next \in [D -> D], NEW out
  PROVE  \E g : Solves(g, D, Go, next, out)
<1> DEFINE G == [x \in D |-> CHOOSE r : r \in Results(D, Go, next, out, x)]
<1>1. ASSUME NEW x \in D
      PROVE  G[x] = IF x \in Go THEN G[next[x]] ELSE out[x]
  <2>1. CASE x \in Go
    BY <2>1, RunGoesOn
  <2>2. CASE x \notin Go
    <3>1. Results(D, Go, next, out, x) = {out[x]}
      BY <2>2, RunEnds
    <3> QED
      BY <2>2, <3>1
  <2> QED
    BY <2>1, <2>2
<1>2. G = [x \in D |-> G[x]]
  OBVIOUS
<1> HIDE DEF G
<1> QED
  BY <1>1, <1>2 DEF Solves

-----------------------------------------------------------------------------
(* Parents, exchanges and rearrangements *)

\* Keys can be compared.
Keyed(S) == \A e \in S : e.cpu_burst \in Int

LEMMA Parents ==
  ASSUME NEW i \in Nat, i >= 2
  PROVE  /\ parent(i) \in Nat /\ 1 <= parent(i) /\ parent(i) < i
         /\ \A j \in Nat : parent(i) = j <=> i = left_child(j) \/ i = right_child(j)
BY DEF parent, left_child, right_child

LEMMA Children ==
  ASSUME NEW i \in Nat, i >= 1
  PROVE  /\ left_child(i) \in Nat /\ right_child(i) \in Nat
         /\ left_child(i) > i /\ right_child(i) > left_child(i)
         /\ parent(left_child(i)) = i /\ parent(right_child(i)) = i
BY DEF parent, left_child, right_child

LEMMA Swaps ==
  ASSUME NEW S, NEW h \in Seq(S), NEW i \in 1..Len(h), NEW j \in 1..Len(h), i # j
  PROVE  /\ Swap(h, i, j) \in Seq(S)
         /\ Len(Swap(h, i, j)) = Len(h)
         /\ \A k \in 1..Len(h) :
              Swap(h, i, j)[k] = IF k = i THEN h[j] ELSE IF k = j THEN h[i] ELSE h[k]
BY DEF Swap

\* r holds what h holds, as often, in another order.
Rearranges(r, h) ==
  /\ Len(r) = Len(h)
  /\ \E f \in [1..Len(h) -> 1..Len(h)] :
       /\ \A i, j \in 1..Len(h) : f[i] = f[j] => i = j
       /\ \A j \in 1..Len(h) : \E i \in 1..Len(h) : f[i] = j
       /\ \A i \in 1..Len(h) : r[i] = h[f[i]]

LEMMA RearrangesItself ==
  ASSUME NEW h PROVE Rearranges(h, h)
<1> DEFINE f == [i \in 1..Len(h) |-> i]
<1>1. /\ f \in [1..Len(h) -> 1..Len(h)]
      /\ \A i \in 1..Len(h) : f[i] = i
  OBVIOUS
<1> HIDE DEF f
<1> QED
  BY <1>1 DEF Rearranges

LEMMA SwapRearranges ==
  ASSUME NEW S, NEW h \in Seq(S), NEW i \in 1..Len(h), NEW j \in 1..Len(h), i # j
  PROVE  Rearranges(Swap(h, i, j), h)
<1> DEFINE f == [k \in 1..Len(h) |-> IF k = i THEN j ELSE IF k = j THEN i ELSE k]
<1>1. /\ f \in [1..Len(h) -> 1..Len(h)]
      /\ \A k \in 1..Len(h) : f[k] = IF k = i THEN j ELSE IF k = j THEN i ELSE k
  OBVIOUS
<1> HIDE DEF f
<1>2. \A k, l \in 1..Len(h) : f[k] = f[l] => k = l
  BY <1>1
<1>3. \A l \in 1..Len(h) : f[f[l]] = l
  BY <1>1
<1>4. ASSUME NEW k \in 1..Len(h) PROVE Swap(h, i, j)[k] = h[f[k]]
  <2>1. Swap(h, i, j)[k] = IF k = i THEN h[j] ELSE IF k = j THEN h[i] ELSE h[k]
    BY Swaps
  <2>2. f[k] = IF k = i THEN j ELSE IF k = j THEN i ELSE k
    BY <1>1
  <2> HIDE DEF Swap
  <2> QED
    BY <2>1, <2>2
<1>5. Len(Swap(h, i, j)) = Len(h)
  BY Swaps
<1> QED
  BY <1>1, <1>2, <1>3, <1>4, <1>5 DEF Rearranges

LEMMA RearrangesTwice ==
  ASSUME NEW h, NEW r, NEW s, Rearranges(r, h), Rearranges(s, r)
  PROVE  Rearranges(s, h)
<1> DEFINE I == 1..Len(h)
<1>1. Len(r) = Len(h) /\ Len(s) = Len(h)
  BY DEF Rearranges
<1>2. PICK f \in [I -> I] :
        /\ \A i, j \in I : f[i] = f[j] => i = j
        /\ \A j \in I : \E i \in I : f[i] = j
        /\ \A i \in I : r[i] = h[f[i]]
  BY DEF Rearranges
<1>3. PICK g \in [I -> I] :
        /\ \A i, j \in I : g[i] = g[j] => i = j
        /\ \A j \in I : \E i \in I : g[i] = j
        /\ \A i \in I : s[i] = r[g[i]]
  <2>1. I = 1..Len(r)
    BY <1>1
  <2> HIDE DEF I
  <2> QED
    BY ZenonT(60), <2>1 DEF Rearranges
<1> HIDE DEF I
<1> DEFINE c == [i \in I |-> f[g[i]]]
<1>4. c \in [I -> I] /\ \A i \in I : c[i] = f[g[i]] /\ g[i] \in I
  BY <1>2, <1>3
<1> HIDE DEF c
<1>5. \A i, j \in I : c[i] = c[j] => i = j
  BY <1>2, <1>3, <1>4
<1>6. \A j \in I : \E i \in I : c[i] = j
  BY <1>2, <1>3, <1>4
<1>7. ASSUME NEW i \in I PROVE s[i] = h[c[i]]
  <2>1. s[i] = r[g[i]] /\ g[i] \in I
    BY <1>3
  <2>2. r[g[i]] = h[f[g[i]]]
    BY <1>2, <2>1
  <2> QED
    BY <2>1, <2>2, <1>4
<1> QED
  BY <1>1, <1>4, <1>5, <1>6, <1>7 DEF Rearranges, I

-----------------------------------------------------------------------------
(* The loop of insertHeap *)

RiseFrom(S) == {x \in Seq(S) \X Nat : x[2] \in DOMAIN x[1]}

\* One iteration of the loop, as a function of the array and the position.
LEMMA RiseStep ==
  ASSUME NEW S, NEW h \in Seq(S), NEW cur \in 1..Len(h), SmallerThanParent(h, cur)
  PROVE  /\ Swap(h, parent(cur), cur) \in Seq(S)
         /\ Len(Swap(h, parent(cur), cur)) = Len(h)
         /\ parent(cur) \in 1..Len(h) /\ parent(cur) < cur
         /\ <<Swap(h, parent(cur), cur), parent(cur)>> \in RiseFrom(S)
<1>1. parent(cur) \in 1..Len(h) /\ parent(cur) < cur
  BY Parents DEF SmallerThanParent
<1>2. Swap(h, parent(cur), cur) \in Seq(S) /\ Len(Swap(h, parent(cur), cur)) = Len(h)
  BY <1>1, Swaps
<1> QED
  BY <1>1, <1>2, LenProperties DEF RiseFrom

\* The loop of insertHeap: Risen satisfies the equation that defines it.
LEMMA RisenEquation ==
  ASSUME NEW S, NEW h \in Seq(S), NEW cur \in 1..Len(h)
  PROVE  Risen(S)[<<h, cur>>] =
           IF SmallerThanParent(h, cur)
           THEN Risen(S)[<<Swap(h, parent(cur), cur), parent(cur)>>]
           ELSE h
<1> DEFINE D == RiseFrom(S)
           After(x) == <<Swap(x[1], parent(x[2]), x[2]), parent(x[2])>>
           Go == {x \in D : SmallerThanParent(x[1], x[2])}
           next == [x \in D |-> IF x \in Go THEN After(x) ELSE x]
           out == [x \in D |-> x[1]]
           Body(g) == [x \in D |-> IF SmallerThanParent(x[1], x[2]) THEN g[After(x)] ELSE x[1]]
<1>1. next \in [D -> D]
  <2> SUFFICES ASSUME NEW x \in D, x \in Go PROVE After(x) \in D
    OBVIOUS
  <2>1. x[1] \in Seq(S) /\ x[2] \in 1..Len(x[1]) /\ SmallerThanParent(x[1], x[2])
    BY DEF RiseFrom
  <2> QED
    BY <2>1, RiseStep
<1>2. PICK g : Solves(g, D, Go, next, out)
  <2> HIDE DEF D, Go, next, out
  <2> QED
    BY <1>1, TailRecursion
<1>3. \A x \in D : g[x] = IF SmallerThanParent(x[1], x[2]) THEN g[After(x)] ELSE x[1]
  BY <1>2 DEF Solves
<1>4. g = Body(g)
  <2> HIDE DEF D, After
  <2> QED
    BY <1>2, <1>3 DEF Solves
<1>5. Risen(S) = CHOOSE f : f = Body(f)
  BY DEF Risen, RiseFrom
<1>6. Risen(S) = Body(Risen(S))
  <2> HIDE DEF Body
  <2> QED
    BY <1>4, <1>5
<1>7. <<h, cur>> \in D
  BY LenProperties DEF RiseFrom
<1> QED
  BY <1>6, <1>7

-----------------------------------------------------------------------------
(* The recursion of heapify *)

\* The choice of heapify: the node itself when it is not larger than a child,
\* otherwise the smaller child.
LEMMA SmallestOfNodes ==
  ASSUME NEW S, Keyed(S), NEW h \in Seq(S), NEW i \in 1..Len(h)
  PROVE  /\ SmallestOf(h, i) \in {i, left_child(i), right_child(i)} \cap (1..Len(h))
         /\ \A k \in {i, left_child(i), right_child(i)} \cap (1..Len(h)) :
              h[SmallestOf(h, i)].cpu_burst <= h[k].cpu_burst
         /\ SmallestOf(h, i) # i => h[SmallestOf(h, i)].cpu_burst < h[i].cpu_burst
<1>1. /\ left_child(i) \in Nat /\ right_child(i) \in Nat
      /\ left_child(i) > i /\ right_child(i) > left_child(i)
  BY Children
<1>2. \A k \in 1..Len(h) : h[k].cpu_burst \in Int
  BY DEF Keyed
<1> QED
  BY SMTT(60), <1>1, <1>2 DEF SmallestOf

\* Beyond the array there are no children.
LEMMA SmallestOfOthers ==
  ASSUME NEW S, NEW h \in Seq(S), NEW i \in Nat \ {0}, i > Len(h)
  PROVE  SmallestOf(h, i) = i
<1>1. Len(h) \in Nat /\ i \in Nat /\ i >= 1
  BY LenProperties
<1>2. left_child(i) > Len(h) /\ right_child(i) > Len(h) /\ left_child(i) \in Nat /\ right_child(i) \in Nat
  BY <1>1 DEF left_child, right_child
<1>3. ~(left_child(i) <= Len(h)) /\ ~(right_child(i) <= Len(h))
  BY <1>1, <1>2
<1> QED
  BY <1>3 DEF SmallestOf

\* One call of heapify, as a function of the array and the position.
LEMMA SinkStep ==
  ASSUME NEW S, Keyed(S), NEW h \in Seq(S), NEW i \in Nat \ {0}, SmallestOf(h, i) # i
  PROVE  /\ i \in 1..Len(h) /\ SmallestOf(h, i) \in 1..Len(h) /\ SmallestOf(h, i) > i
         /\ Swap(h, i, SmallestOf(h, i)) \in Seq(S)
         /\ Len(Swap(h, i, SmallestOf(h, i))) = Len(h)
<1>1. i \in 1..Len(h)
  BY SmallestOfOthers, LenProperties
<1>2. SmallestOf(h, i) \in 1..Len(h) /\ SmallestOf(h, i) > i
  <2>1. SmallestOf(h, i) \in {left_child(i), right_child(i)} \cap (1..Len(h))
    BY <1>1, SmallestOfNodes
  <2>2. left_child(i) > i /\ right_child(i) > i
    BY <1>1 DEF left_child, right_child
  <2> QED
    BY <2>1, <2>2
<1> QED
  BY <1>1, <1>2, Swaps

\* The recursion of heapify: Sunk satisfies the equation that defines it.
LEMMA SunkEquation ==
  ASSUME NEW S, Keyed(S), NEW h \in Seq(S), NEW i \in Nat \ {0}
  PROVE  Sunk(S)[<<h, i>>] =
           IF SmallestOf(h, i) = i THEN h
           ELSE Sunk(S)[<<Swap(h, i, SmallestOf(h, i)), SmallestOf(h, i)>>]
<1> DEFINE D == Seq(S) \X (Nat \ {0})
           Small(x) == SmallestOf(x[1], x[2])
           After(x) == <<Swap(x[1], x[2], Small(x)), Small(x)>>
           Go == {x \in D : Small(x) # x[2]}
           next == [x \in D |-> IF x \in Go THEN After(x) ELSE x]
           out == [x \in D |-> x[1]]
           Body(g) == [x \in D |-> IF Small(x) = x[2] THEN x[1] ELSE g[After(x)]]
<1>1. next \in [D -> D]
  <2> SUFFICES ASSUME NEW x \in D, x \in Go PROVE After(x) \in D
    OBVIOUS
  <2>1. x[1] \in Seq(S) /\ x[2] \in Nat \ {0} /\ Small(x) # x[2]
    OBVIOUS
  <2> QED
    BY <2>1, SinkStep, LenProperties
<1>2. PICK g : Solves(g, D, Go, next, out)
  <2> HIDE DEF D, Go, next, out
  <2> QED
    BY <1>1, TailRecursion
<1>3. \A x \in D : g[x] = IF Small(x) = x[2] THEN x[1] ELSE g[After(x)]
  BY <1>2 DEF Solves
<1>4. g = Body(g)
  <2> HIDE DEF D, After, Small
  <2> QED
    BY <1>2, <1>3 DEF Solves
<1>5. Sunk(S) = CHOOSE f : f = Body(f)
  BY DEF Sunk
<1>6. Sunk(S) = Body(Sunk(S))
  <2> HIDE DEF Body
  <2> QED
    BY <1>4, <1>5
<1>7. <<h, i>> \in D
  OBVIOUS
<1> QED
  BY <1>6, <1>7

-----------------------------------------------------------------------------
(* Both restore the order of the heap *)

Key(h, i) == h[i].cpu_burst

LEMMA KeysAreInts ==
  ASSUME NEW S, Keyed(S), NEW h \in Seq(S)
  PROVE  \A i \in 1..Len(h) : Key(h, i) \in Int
BY DEF Keyed, Key

LEMMA OrderByKeys ==
  ASSUME NEW h
  PROVE  HeapOrdered(h) <=> \A i \in 2..Len(h) : Key(h, parent(i)) <= Key(h, i)
BY DEF HeapOrdered, Key

LEMMA SwapKeys ==
  ASSUME NEW S, NEW h \in Seq(S), NEW i \in 1..Len(h), NEW j \in 1..Len(h), i # j
  PROVE  \A k \in 1..Len(h) :
           Key(Swap(h, i, j), k) = IF k = i THEN Key(h, j) ELSE IF k = j THEN Key(h, i) ELSE Key(h, k)
BY SMTT(60), Swaps DEF Key

\* The order while the element at cur rises: only cur may be smaller than its
\* parent, and the children of cur are not smaller than that parent.
RisingOrder(h, cur) ==
  \A i \in 2..Len(h) :
    /\ i # cur => Key(h, parent(i)) <= Key(h, i)
    /\ cur > 1 /\ parent(i) = cur => Key(h, parent(cur)) <= Key(h, i)

LEMMA RiseKeepsOrder ==
  ASSUME NEW S, Keyed(S), NEW h \in Seq(S), NEW cur \in 1..Len(h), SmallerThanParent(h, cur),
         RisingOrder(h, cur)
  PROVE  RisingOrder(Swap(h, parent(cur), cur), parent(cur))
<1> DEFINE up == parent(cur)
           r == Swap(h, up, cur)
<1>1. /\ up \in 1..Len(h) /\ up < cur /\ cur \in 2..Len(h) /\ Len(r) = Len(h)
      /\ Key(h, up) > Key(h, cur)
  <2>1. up \in 1..Len(h) /\ up < cur /\ Len(r) = Len(h)
    BY RiseStep
  <2>2. cur > 1 /\ Key(h, up) > Key(h, cur)
    BY DEF SmallerThanParent, Key
  <2> QED
    BY <2>1, <2>2
<1>2. \A i \in 1..Len(h) : Key(h, i) \in Int
  BY KeysAreInts
<1>3. \A k \in 1..Len(h) :
        Key(r, k) = IF k = up THEN Key(h, cur) ELSE IF k = cur THEN Key(h, up) ELSE Key(h, k)
  BY <1>1, SwapKeys
<1> SUFFICES ASSUME NEW i \in 2..Len(h)
             PROVE  /\ i # up => Key(r, parent(i)) <= Key(r, i)
                    /\ up > 1 /\ parent(i) = up => Key(r, parent(up)) <= Key(r, i)
  BY <1>1 DEF RisingOrder
<1>4. i \in 1..Len(h) /\ parent(i) \in 1..Len(h) /\ parent(i) < i
  BY Parents
<1>5. up > 1 => parent(up) \in 1..Len(h) /\ parent(up) < up /\ Key(h, parent(up)) <= Key(h, up)
  BY <1>1, Parents DEF RisingOrder
<1>6. /\ i # cur => Key(h, parent(i)) <= Key(h, i)
      /\ parent(i) = cur => Key(h, up) <= Key(h, i)
  BY <1>1 DEF RisingOrder
<1> HIDE DEF r
<1>7. ASSUME i # up PROVE Key(r, parent(i)) <= Key(r, i)
  <2>1. CASE i = cur
    BY <1>1, <1>2, <1>3, <1>4, <2>1
  <2>2. CASE i # cur
    BY <1>1, <1>2, <1>3, <1>4, <1>6, <1>7, <2>2
  <2> QED
    BY <2>1, <2>2
<1>8. ASSUME up > 1, parent(i) = up PROVE Key(r, parent(up)) <= Key(r, i)
  <2>1. Key(r, parent(up)) = Key(h, parent(up)) /\ parent(up) \in 1..Len(h)
    BY <1>1, <1>3, <1>5, <1>8
  <2>2. Key(h, parent(up)) <= Key(r, i)
    BY <1>1, <1>2, <1>3, <1>4, <1>5, <1>6, <1>8
  <2> QED
    BY <2>1, <2>2
<1> QED
  BY <1>7, <1>8

\* When the loop stops, the order is that of a heap.
LEMMA RiseEnds ==
  ASSUME NEW S, Keyed(S), NEW h \in Seq(S), NEW cur \in 1..Len(h), ~SmallerThanParent(h, cur),
         RisingOrder(h, cur)
  PROVE  HeapOrdered(h)
<1>1. \A i \in 1..Len(h) : Key(h, i) \in Int
  BY KeysAreInts
<1>2. ASSUME NEW i \in 2..Len(h) PROVE Key(h, parent(i)) <= Key(h, i)
  <2>1. i \in 1..Len(h) /\ parent(i) \in 1..Len(h)
    BY Parents
  <2>2. CASE i = cur
    BY <1>1, <2>1, <2>2 DEF SmallerThanParent, Key
  <2>3. CASE i # cur
    BY <2>3 DEF RisingOrder
  <2> QED
    BY <2>2, <2>3
<1> QED
  BY <1>2, OrderByKeys

\* The loop of insertHeap ends with the elements it began with, in heap order.
LEMMA RisenIsHeap ==
  ASSUME NEW S, Keyed(S), NEW hh \in Seq(S), NEW c \in 1..Len(hh)
  PROVE  /\ Risen(S)[<<hh, c>>] \in Seq(S)
         /\ Rearranges(Risen(S)[<<hh, c>>], hh)
         /\ RisingOrder(hh, c) => HeapOrdered(Risen(S)[<<hh, c>>])
<1> DEFINE Good(h, cur) ==
             /\ Risen(S)[<<h, cur>>] \in Seq(S)
             /\ Rearranges(Risen(S)[<<h, cur>>], h)
             /\ RisingOrder(h, cur) => HeapOrdered(Risen(S)[<<h, cur>>])
           P == {cur \in Nat : \A h \in Seq(S) : cur \in 1..Len(h) => Good(h, cur)}
<1>1. ASSUME NEW n \in Nat, \A m \in 0..(n - 1) : m \in P
      PROVE  n \in P
  <2> SUFFICES ASSUME NEW h \in Seq(S), n \in 1..Len(h) PROVE Good(h, n)
    OBVIOUS
  <2>1. CASE ~SmallerThanParent(h, n)
    <3>1. Risen(S)[<<h, n>>] = h
      BY <2>1, RisenEquation
    <3> QED
      BY <2>1, <3>1, RearrangesItself, RiseEnds
  <2>2. CASE SmallerThanParent(h, n)
    <3> DEFINE r == Swap(h, parent(n), n)
    <3>1. /\ r \in Seq(S) /\ Len(r) = Len(h)
          /\ parent(n) \in 1..Len(h) /\ parent(n) < n
      BY <2>2, RiseStep
    <3>2. Risen(S)[<<h, n>>] = Risen(S)[<<r, parent(n)>>]
      BY <2>2, RisenEquation
    <3>3. Rearranges(r, h)
      BY <3>1, SwapRearranges
    <3>4. RisingOrder(h, n) => RisingOrder(r, parent(n))
      BY <2>2, RiseKeepsOrder
    <3> HIDE DEF r
    <3>5. parent(n) \in P
      BY <1>1, <3>1
    <3>6. Good(r, parent(n))
      BY <3>1, <3>5
    <3> QED
      BY <3>2, <3>3, <3>4, <3>6, RearrangesTwice
  <2> QED
    BY <2>1, <2>2
<1>2. Nat \subseteq P
  <2> HIDE DEF P
  <2> QED
    BY <1>1, NatSets
<1>3. c \in P /\ c \in 1..Len(hh)
  BY <1>2
<1> QED
  BY <1>3

\* The order while the element at i sinks: only the children of i may be smaller
\* than their parent, and they are not smaller than the parent of i.
SinkingOrder(h, i) ==
  \A j \in 2..Len(h) :
    /\ parent(j) # i => Key(h, parent(j)) <= Key(h, j)
    /\ i > 1 /\ parent(j) = i => Key(h, parent(i)) <= Key(h, j)

\* The children of a node, by the choice of heapify.
LEMMA ChosenChild ==
  ASSUME NEW S, Keyed(S), NEW h \in Seq(S), NEW i \in 1..Len(h),
         NEW j \in 2..Len(h), parent(j) = i
  PROVE  Key(h, SmallestOf(h, i)) <= Key(h, j)
<1>1. j \in {i, left_child(i), right_child(i)} \cap (1..Len(h))
  BY DEF parent, left_child, right_child
<1> QED
  BY <1>1, SmallestOfNodes DEF Key

LEMMA SinkKeepsOrder ==
  ASSUME NEW S, Keyed(S), NEW h \in Seq(S), NEW i \in Nat \ {0}, SmallestOf(h, i) # i,
         SinkingOrder(h, i)
  PROVE  SinkingOrder(Swap(h, i, SmallestOf(h, i)), SmallestOf(h, i))
<1> DEFINE s == SmallestOf(h, i)
           r == Swap(h, i, s)
<1>1. /\ i \in 1..Len(h) /\ s \in 1..Len(h) /\ s > i /\ s \in 2..Len(h) /\ Len(r) = Len(h)
      /\ Key(h, s) < Key(h, i)
  <2>1. i \in 1..Len(h) /\ s \in 1..Len(h) /\ s > i /\ Len(r) = Len(h)
    BY SinkStep
  <2>2. Key(h, s) < Key(h, i)
    BY <2>1, SmallestOfNodes DEF Key
  <2> QED
    BY <2>1, <2>2
<1>2. parent(s) = i
  <2>1. s \in {left_child(i), right_child(i)}
    BY <1>1, SmallestOfNodes
  <2>2. i \in Nat /\ i >= 1
    BY <1>1
  <2> QED
    BY <2>1, <2>2, Children
<1>3. \A k \in 1..Len(h) : Key(h, k) \in Int
  BY KeysAreInts
<1>4. \A k \in 1..Len(h) :
        Key(r, k) = IF k = i THEN Key(h, s) ELSE IF k = s THEN Key(h, i) ELSE Key(h, k)
  BY <1>1, SwapKeys
<1> SUFFICES ASSUME NEW j \in 2..Len(h)
             PROVE  /\ parent(j) # s => Key(r, parent(j)) <= Key(r, j)
                    /\ s > 1 /\ parent(j) = s => Key(r, parent(s)) <= Key(r, j)
  BY <1>1 DEF SinkingOrder
<1>5. j \in 1..Len(h) /\ parent(j) \in 1..Len(h) /\ parent(j) < j
  BY Parents
<1>6. /\ parent(j) # i => Key(h, parent(j)) <= Key(h, j)
      /\ i > 1 /\ parent(j) = i => Key(h, parent(i)) <= Key(h, j)
  BY DEF SinkingOrder
<1>7. parent(j) = i => Key(h, s) <= Key(h, j)
  BY <1>1, ChosenChild
<1>8. i > 1 => parent(i) \in 1..Len(h) /\ parent(i) < i /\ Key(h, parent(i)) <= Key(h, s)
  <2>1. i > 1 => parent(i) \in 1..Len(h) /\ parent(i) < i
    BY <1>1, Parents
  <2>2. i > 1 => Key(h, parent(i)) <= Key(h, s)
    BY <1>1, <1>2 DEF SinkingOrder
  <2> QED
    BY <2>1, <2>2
<1> HIDE DEF r, s
<1>9. ASSUME parent(j) # s PROVE Key(r, parent(j)) <= Key(r, j)
  <2>1. CASE parent(j) = i
    BY <1>1, <1>3, <1>4, <1>5, <1>7, <2>1
  <2>2. CASE j = i
    <3>1. Key(r, j) = Key(h, s) /\ Key(r, parent(j)) = Key(h, parent(i))
      BY <1>1, <1>4, <1>5, <1>9, <2>2
    <3> QED
      BY <3>1, <1>5, <1>8, <2>2
  <2>3. CASE parent(j) # i /\ j # i
    <3>1. j # s
      BY <1>2, <2>3
    <3> QED
      BY <1>3, <1>4, <1>5, <1>6, <1>9, <2>3, <3>1
  <2> QED
    BY <2>1, <2>2, <2>3
<1>10. ASSUME parent(j) = s PROVE Key(r, parent(s)) <= Key(r, j)
  <2>1. Key(r, i) = Key(h, s) /\ Key(r, j) = Key(h, j)
    BY <1>1, <1>4, <1>5, <1>10
  <2> QED
    BY <2>1, <1>2, <1>6, <1>10, <1>1
<1> QED
  BY <1>9, <1>10

\* When the recursion stops, the order is that of a heap.
LEMMA SinkEnds ==
  ASSUME NEW S, Keyed(S), NEW h \in Seq(S), NEW i \in Nat \ {0}, SmallestOf(h, i) = i,
         SinkingOrder(h, i)
  PROVE  HeapOrdered(h)
<1>2. ASSUME NEW j \in 2..Len(h) PROVE Key(h, parent(j)) <= Key(h, j)
  <2>1. parent(j) \in 1..Len(h)
    BY Parents
  <2>2. CASE parent(j) = i
    BY <2>1, <2>2, ChosenChild
  <2>3. CASE parent(j) # i
    BY <2>3 DEF SinkingOrder
  <2> QED
    BY <2>2, <2>3
<1> QED
  BY <1>2, OrderByKeys

\* The recursion of heapify ends with the elements it began with, in heap order.
LEMMA SunkIsHeap ==
  ASSUME NEW S, Keyed(S), NEW hh \in Seq(S), NEW c \in Nat \ {0}
  PROVE  /\ Sunk(S)[<<hh, c>>] \in Seq(S)
         /\ Rearranges(Sunk(S)[<<hh, c>>], hh)
         /\ SinkingOrder(hh, c) => HeapOrdered(Sunk(S)[<<hh, c>>])
<1> DEFINE Good(h, i) ==
             /\ Sunk(S)[<<h, i>>] \in Seq(S)
             /\ Rearranges(Sunk(S)[<<h, i>>], h)
             /\ SinkingOrder(h, i) => HeapOrdered(Sunk(S)[<<h, i>>])
           Left(h, i) == IF i <= Len(h) THEN Len(h) - i ELSE 0
           P == {n \in Nat : \A h \in Seq(S), i \in Nat \ {0} : Left(h, i) = n => Good(h, i)}
<1>1. ASSUME NEW n \in Nat, \A m \in 0..(n - 1) : m \in P
      PROVE  n \in P
  <2> SUFFICES ASSUME NEW h \in Seq(S), NEW i \in Nat \ {0}, Left(h, i) = n PROVE Good(h, i)
    OBVIOUS
  <2>1. CASE SmallestOf(h, i) = i
    <3>1. Sunk(S)[<<h, i>>] = h
      BY <2>1, SunkEquation
    <3> QED
      BY <2>1, <3>1, RearrangesItself, SinkEnds
  <2>2. CASE SmallestOf(h, i) # i
    <3> DEFINE s == SmallestOf(h, i)
               r == Swap(h, i, s)
    <3>1. /\ r \in Seq(S) /\ Len(r) = Len(h)
          /\ i \in 1..Len(h) /\ s \in 1..Len(h) /\ s > i
      BY <2>2, SinkStep
    <3>2. Sunk(S)[<<h, i>>] = Sunk(S)[<<r, s>>]
      BY <2>2, SunkEquation
    <3>3. Rearranges(r, h)
      BY <3>1, SwapRearranges
    <3>4. SinkingOrder(h, i) => SinkingOrder(r, s)
      BY <2>2, SinkKeepsOrder
    <3> HIDE DEF r, s
    <3>5. Left(r, s) \in 0..(n - 1) /\ s \in Nat \ {0}
      BY <3>1, LenProperties
    <3>6. Good(r, s)
      BY <1>1, <3>1, <3>5
    <3> QED
      BY <3>2, <3>3, <3>4, <3>6, RearrangesTwice
  <2> QED
    BY <2>1, <2>2
<1>2. Nat \subseteq P
  <2> HIDE DEF P
  <2> QED
    BY <1>1, NatSets
<1>3. Left(hh, c) \in P
  <2>1. Left(hh, c) \in Nat
    BY LenProperties
  <2> QED
    BY <1>2, <2>1
<1> QED
  BY <1>3

-----------------------------------------------------------------------------
(* What a call of insertHeap and of deleteHeap does to a heap *)

\* The array of elements is one of elements.
LEMMA ElementsOfSeq ==
  ASSUME NEW S, NEW h \in Seq(S)
  PROVE  /\ h \in Seq(Elements(h))
         /\ Elements(h) \subseteq S
         /\ Elements(h) = {h[i] : i \in 1..Len(h)}
<1>1. Len(h) \in Nat /\ DOMAIN h = 1..Len(h) /\ h \in [1..Len(h) -> S]
  BY LenProperties
<1>2. h \in [1..Len(h) -> Elements(h)]
  BY <1>1 DEF Elements
<1>3. h \in Seq(Elements(h))
  BY <1>1, <1>2
<1>4. Elements(h) = {h[i] : i \in 1..Len(h)}
  BY <1>1 DEF Elements
<1>5. Elements(h) \subseteq S
  BY <1>1, <1>4
<1> QED
  BY <1>3, <1>4, <1>5

\* The root of a heap has the smallest key.
LEMMA RootIsSmallest ==
  ASSUME NEW S, Keyed(S), NEW h \in Seq(S), HeapOrdered(h), NEW k \in 1..Len(h)
  PROVE  Key(h, 1) <= Key(h, k)
<1> DEFINE P == {n \in Nat : n \in 1..Len(h) => Key(h, 1) <= Key(h, n)}
<1>1. \A i \in 1..Len(h) : Key(h, i) \in Int
  BY KeysAreInts
<1>2. ASSUME NEW n \in Nat, \A m \in 0..(n - 1) : m \in P
      PROVE  n \in P
  <2> SUFFICES ASSUME n \in 1..Len(h) PROVE Key(h, 1) <= Key(h, n)
    OBVIOUS
  <2>1. CASE n = 1
    BY <1>1, <2>1
  <2>2. CASE n # 1
    <3>1. n \in 2..Len(h) /\ parent(n) \in 1..Len(h) /\ parent(n) \in 0..(n - 1)
      BY <2>2, Parents
    <3>2. Key(h, parent(n)) <= Key(h, n)
      BY <3>1, OrderByKeys
    <3>3. Key(h, 1) <= Key(h, parent(n))
      BY <1>2, <3>1
    <3>4. 1 \in 1..Len(h)
      BY <3>1
    <3> QED
      BY <1>1, <3>1, <3>2, <3>3, <3>4
  <2> QED
    BY <2>1, <2>2
<1>3. Nat \subseteq P
  <2> HIDE DEF P
  <2> QED
    BY <1>2, NatSets
<1> QED
  BY <1>3

\* insertHeap on a heap of any size leaves a heap that holds what it held and the
\* new node (insertHeap of heap.c).
THEOREM InsertKeepsHeap ==
  ASSUME NEW S, Keyed(S), NEW h \in Seq(S), NEW node \in S
  PROVE  /\ insertHeap(h, node) \in Seq(S)
         /\ Rearranges(insertHeap(h, node), Append(h, node))
         /\ HeapOrdered(h) => HeapOrdered(insertHeap(h, node))
<1> DEFINE g == Append(h, node)
           n == Len(g)
           E == Elements(g)
<1>1. /\ g \in Seq(S) /\ Len(h) \in Nat /\ n = Len(h) + 1
      /\ \A i \in 1..Len(h) : g[i] = h[i]
  BY AppendProperties, LenProperties
<1>2. g \in Seq(E) /\ E \subseteq S /\ Keyed(E)
  BY <1>1, ElementsOfSeq DEF Keyed
<1>3. n \in 1..Len(g)
  BY <1>1
<1>4. insertHeap(h, node) = Risen(E)[<<g, n>>]
  BY DEF insertHeap
<1>5. ASSUME HeapOrdered(h)
      PROVE  RisingOrder(g, n)
  <2> HIDE DEF g
  <2> SUFFICES ASSUME NEW i \in 2..Len(g)
               PROVE  /\ i # n => Key(g, parent(i)) <= Key(g, i)
                      /\ n > 1 /\ parent(i) = n => Key(g, parent(n)) <= Key(g, i)
    BY DEF RisingOrder
  <2>1. parent(i) \in Nat /\ 1 <= parent(i) /\ parent(i) < i
    BY Parents
  <2>2. parent(i) # n
    BY <1>1, <2>1
  <2>3. ASSUME i # n PROVE Key(g, parent(i)) <= Key(g, i)
    <3>1. i \in 2..Len(h) /\ parent(i) \in 1..Len(h) /\ i \in 1..Len(h)
      BY <1>1, <2>1, <2>3
    <3>2. g[i] = h[i] /\ g[parent(i)] = h[parent(i)]
      BY <1>1, <3>1
    <3>3. Key(h, parent(i)) <= Key(h, i)
      BY <1>5, <3>1, OrderByKeys
    <3> QED
      BY <3>2, <3>3 DEF Key
  <2> QED
    BY <2>2, <2>3
<1> HIDE DEF g, n, E
<1>6. Risen(E)[<<g, n>>] \in Seq(E)
  BY <1>2, <1>3, RisenIsHeap
<1>7. Risen(E)[<<g, n>>] \in Seq(S)
  BY <1>2, <1>6, SeqMonotonic
<1> QED
  BY <1>2, <1>3, <1>4, <1>5, <1>7, RisenIsHeap DEF g

\* deleteHeap on a heap that is not empty leaves a heap that holds what it held
\* but the root, which it returns (deleteHeap of heap.c).
THEOREM DeleteKeepsHeap ==
  ASSUME NEW S, Keyed(S), NEW h \in Seq(S), h # <<>>
  PROVE  /\ RestOfHeap(h) \in Seq(S)
         /\ Rearranges(<<get_min(h)>> \o RestOfHeap(h), h)
         /\ HeapOrdered(h) => HeapOrdered(RestOfHeap(h))
<1> DEFINE n == Len(h)
           t == SubSeq([h EXCEPT ![1] = h[n]], 1, n - 1)
           E == Elements(t)
           rest == RestOfHeap(h)
           u == <<h[1]>> \o rest
<1>1. n \in Nat \ {0} /\ 1 \in 1..n /\ n \in 1..n
  BY LenProperties, EmptySeq
<1>2. /\ t \in Seq(S) /\ Len(t) = n - 1
      /\ \A i \in 1..(n - 1) : t[i] = IF i = 1 THEN h[n] ELSE h[i]
  <2> DEFINE e == [h EXCEPT ![1] = h[n]]
  <2>1. /\ e \in Seq(S) /\ Len(e) = n
        /\ \A i \in 1..n : e[i] = IF i = 1 THEN h[n] ELSE h[i]
    BY <1>1, ExceptSeq
  <2> HIDE DEF e
  <2>2. SubSeq(e, 1, n - 1) \in Seq(S) /\ Len(SubSeq(e, 1, n - 1)) = n - 1
        /\ \A i \in 1..(n - 1) : SubSeq(e, 1, n - 1)[i] = e[i]
    BY <1>1, <2>1
  <2> QED
    BY <1>1, <2>1, <2>2 DEF e
<1>3. t \in Seq(E) /\ E \subseteq S /\ Keyed(E)
  BY <1>2, ElementsOfSeq DEF Keyed
<1>4. rest = Sunk(E)[<<t, 1>>]
  BY DEF RestOfHeap, heapify
<1>5. ASSUME HeapOrdered(h)
      PROVE  SinkingOrder(t, 1)
  <2> HIDE DEF t
  <2> SUFFICES ASSUME NEW j \in 2..Len(t), parent(j) # 1
               PROVE  Key(t, parent(j)) <= Key(t, j)
    BY DEF SinkingOrder
  <2>1. parent(j) \in Nat /\ 1 <= parent(j) /\ parent(j) < j
    BY Parents
  <2>2. j \in 2..n /\ j \in 1..(n - 1) /\ parent(j) \in 1..(n - 1)
    BY <1>1, <1>2, <2>1
  <2>3. t[j] = h[j] /\ t[parent(j)] = h[parent(j)]
    BY <1>2, <2>2
  <2>4. Key(h, parent(j)) <= Key(h, j)
    BY <1>5, <2>2, OrderByKeys
  <2> QED
    BY <2>3, <2>4 DEF Key
<1> HIDE DEF t, E, n
<1>6. Sunk(E)[<<t, 1>>] \in Seq(E)
  BY <1>3, SunkIsHeap
<1>7. rest \in Seq(S) /\ Rearranges(rest, t) /\ (HeapOrdered(h) => HeapOrdered(rest))
  BY <1>3, <1>4, <1>5, <1>6, SeqMonotonic, SunkIsHeap
<1> HIDE DEF rest
<1>8. /\ Len(u) = n /\ u[1] = h[1]
      /\ \A i \in 2..n : u[i] = rest[i - 1]
  <2>1. h[1] \in S /\ <<h[1]>> \in Seq(S) /\ Len(rest) = n - 1
    BY <1>1, <1>2, <1>7 DEF Rearranges, n
  <2> QED
    BY <1>1, <1>7, <2>1, ConcatProperties
<1>9. PICK f \in [1..(n - 1) -> 1..(n - 1)] :
        /\ \A i, j \in 1..(n - 1) : f[i] = f[j] => i = j
        /\ \A j \in 1..(n - 1) : \E i \in 1..(n - 1) : f[i] = j
        /\ \A i \in 1..(n - 1) : rest[i] = t[f[i]]
  <2> DEFINE I == 1..(n - 1)
  <2>1. 1..Len(t) = I
    BY <1>2
  <2> HIDE DEF I
  <2>2. \E f \in [I -> I] :
          /\ \A i, j \in I : f[i] = f[j] => i = j
          /\ \A j \in I : \E i \in I : f[i] = j
          /\ \A i \in I : rest[i] = t[f[i]]
    BY ZenonT(60), <1>7, <2>1 DEF Rearranges
  <2> QED
    BY <2>2 DEF I
<1> HIDE DEF u
<1> DEFINE p == [i \in 1..n |-> IF i = 1 THEN 1 ELSE IF f[i - 1] = 1 THEN n ELSE f[i - 1]]
<1>10. /\ p \in [1..n -> 1..n]
       /\ p[1] = 1
       /\ \A i \in 2..n : p[i] = (IF f[i - 1] = 1 THEN n ELSE f[i - 1]) /\ p[i] # 1
  <2>1. ASSUME NEW i \in 2..n PROVE f[i - 1] \in 1..(n - 1)
    <3>1. i - 1 \in 1..(n - 1)
      BY <1>1
    <3> QED
      BY <1>9, <3>1
  <2> QED
    BY <1>1, <2>1
<1> HIDE DEF p
<1>11. ASSUME NEW i \in 1..n, NEW j \in 1..n, p[i] = p[j]
       PROVE  i = j
  <2>1. CASE i = 1 \/ j = 1
    BY <1>1, <1>10, <1>11, <2>1
  <2>2. CASE i # 1 /\ j # 1
    <3>1. i \in 2..n /\ j \in 2..n /\ i - 1 \in 1..(n - 1) /\ j - 1 \in 1..(n - 1)
      BY <1>1, <2>2
    <3>2. f[i - 1] \in 1..(n - 1) /\ f[j - 1] \in 1..(n - 1)
      BY <1>9, <3>1
    <3>3. /\ p[i] = (IF f[i - 1] = 1 THEN n ELSE f[i - 1])
          /\ p[j] = (IF f[j - 1] = 1 THEN n ELSE f[j - 1])
      BY <1>10, <3>1
    <3>4. f[i - 1] = f[j - 1]
      <4>1. f[i - 1] # n /\ f[j - 1] # n
        <5>1. \A k \in 1..(n - 1) : k # n
          BY <1>1
        <5> QED
          BY <3>2, <5>1
      <4>2. (IF f[i - 1] = 1 THEN n ELSE f[i - 1]) = (IF f[j - 1] = 1 THEN n ELSE f[j - 1])
        BY <1>11, <3>3
      <4> QED
        BY <4>1, <4>2
    <3>5. i - 1 = j - 1
      BY <1>9, <3>1, <3>4
    <3> QED
      BY <3>5
  <2> QED
    BY <2>1, <2>2
<1>12. ASSUME NEW j \in 1..n
       PROVE  \E i \in 1..n : p[i] = j
  <2>1. CASE j = 1
    BY <1>1, <1>10, <2>1
  <2>2. CASE j = n /\ j # 1
    <3>1. 1 \in 1..(n - 1)
      BY <1>1, <2>2
    <3>2. PICK i \in 1..(n - 1) : f[i] = 1
      BY <1>9, <3>1
    <3>3. i + 1 \in 2..n /\ i + 1 \in 1..n /\ (i + 1) - 1 = i
      BY <1>1
    <3>4. p[i + 1] = n
      BY <1>10, <3>2, <3>3
    <3> QED
      BY <2>2, <3>3, <3>4
  <2>3. CASE j # n /\ j # 1
    <3>1. j \in 1..(n - 1)
      BY <1>1, <2>3
    <3>2. PICK i \in 1..(n - 1) : f[i] = j
      BY <1>9, <3>1
    <3>3. i + 1 \in 2..n /\ i + 1 \in 1..n /\ (i + 1) - 1 = i
      BY <1>1
    <3>4. p[i + 1] = j
      BY <1>10, <2>3, <3>2, <3>3
    <3> QED
      BY <3>3, <3>4
  <2> QED
    BY <2>1, <2>2, <2>3
<1>13. ASSUME NEW i \in 1..n
       PROVE  u[i] = h[p[i]]
  <2>1. CASE i = 1
    BY <1>8, <1>10, <2>1
  <2>2. CASE i # 1
    <3>1. i \in 2..n /\ i - 1 \in 1..(n - 1)
      BY <1>1, <2>2
    <3>2. f[i - 1] \in 1..(n - 1) /\ rest[i - 1] = t[f[i - 1]]
      BY <1>9, <3>1
    <3>3. t[f[i - 1]] = IF f[i - 1] = 1 THEN h[n] ELSE h[f[i - 1]]
      BY <1>2, <3>2
    <3>4. u[i] = rest[i - 1] /\ p[i] = IF f[i - 1] = 1 THEN n ELSE f[i - 1]
      BY <1>8, <1>10, <3>1
    <3> QED
      BY <3>2, <3>3, <3>4
  <2> QED
    BY <2>1, <2>2
<1>14. Rearranges(u, h)
  BY <1>8, <1>10, <1>11, <1>12, <1>13 DEF Rearranges, n
<1> QED
  BY <1>7, <1>14 DEF u, rest, get_min

-----------------------------------------------------------------------------
(* What a rearrangement keeps *)

\* No two elements are of the same process.
DistinctIdx(h) == \A i, j \in 1..Len(h) : h[i].idx = h[j].idx => i = j

LEMMA RearrangesKeeps ==
  ASSUME NEW S, NEW r \in Seq(S), NEW h \in Seq(S), Rearranges(r, h)
  PROVE  /\ Elements(r) = Elements(h)
         /\ DistinctIdx(h) => DistinctIdx(r)
<1> DEFINE I == 1..Len(h)
<1>1. PICK f \in [I -> I] :
        /\ \A i, j \in I : f[i] = f[j] => i = j
        /\ \A j \in I : \E i \in I : f[i] = j
        /\ \A i \in I : r[i] = h[f[i]]
  BY DEF Rearranges
<1>2. Elements(r) = {r[i] : i \in I} /\ Elements(h) = {h[i] : i \in I}
  BY ZenonT(60), ElementsOfSeq DEF Rearranges
<1>3. 1..Len(r) = I
  BY DEF Rearranges
<1> HIDE DEF I
<1>4. Elements(r) = Elements(h)
  BY <1>1, <1>2
<1>5. ASSUME DistinctIdx(h), NEW i \in I, NEW j \in I, r[i].idx = r[j].idx
      PROVE  i = j
  <2>1. f[i] \in I /\ f[j] \in I /\ r[i] = h[f[i]] /\ r[j] = h[f[j]]
    BY <1>1
  <2>2. f[i] = f[j]
    BY <1>5, <2>1 DEF DistinctIdx, I
  <2> QED
    BY <1>1, <2>2
<1>6. DistinctIdx(h) => DistinctIdx(r)
  BY <1>3, <1>5 DEF DistinctIdx
<1> QED
  BY <1>4, <1>6

\* insertHeap adds the node, and the processes stay distinct if it is of another.
LEMMA InsertAddsNode ==
  ASSUME NEW S, Keyed(S), NEW h \in Seq(S), NEW node \in S
  PROVE  /\ Elements(insertHeap(h, node)) = Elements(h) \cup {node}
         /\ DistinctIdx(h) /\ (\A e \in Elements(h) : e.idx # node.idx)
              => DistinctIdx(insertHeap(h, node))
<1> DEFINE g == Append(h, node)
<1>1. /\ g \in Seq(S) /\ Len(h) \in Nat /\ Len(g) = Len(h) + 1
      /\ \A i \in 1..Len(h) : g[i] = h[i]
      /\ g[Len(h) + 1] = node
  BY AppendProperties, LenProperties
<1> HIDE DEF g
<1>2. Elements(g) = {g[i] : i \in 1..Len(g)} /\ Elements(h) = {h[i] : i \in 1..Len(h)}
  BY <1>1, ElementsOfSeq
<1>3. 1..Len(g) = (1..Len(h)) \cup {Len(h) + 1}
  BY <1>1
<1>4. Elements(g) = Elements(h) \cup {node}
  BY <1>1, <1>2, <1>3
<1>5. ASSUME DistinctIdx(h), \A e \in Elements(h) : e.idx # node.idx
      PROVE  DistinctIdx(g)
  <2> SUFFICES ASSUME NEW i \in 1..Len(g), NEW j \in 1..Len(g), g[i].idx = g[j].idx
               PROVE  i = j
    BY DEF DistinctIdx
  <2>1. \A k \in 1..Len(h) : g[k] = h[k] /\ h[k].idx # node.idx
    BY <1>1, <1>2, <1>5
  <2>2. /\ i \in 1..Len(h) \/ i = Len(h) + 1
        /\ j \in 1..Len(h) \/ j = Len(h) + 1
    BY <1>3
  <2> QED
    BY <1>1, <1>5, <2>1, <2>2 DEF DistinctIdx
<1>6. insertHeap(h, node) \in Seq(S) /\ Rearranges(insertHeap(h, node), g)
  BY InsertKeepsHeap DEF g
<1> QED
  BY <1>1, <1>4, <1>5, <1>6, RearrangesKeeps

\* deleteHeap takes the root out, and leaves no other PCB of its process.
LEMMA DeleteTakesRoot ==
  ASSUME NEW S, Keyed(S), NEW h \in Seq(S), h # <<>>, DistinctIdx(h)
  PROVE  /\ get_min(h) \in Elements(h)
         /\ Elements(RestOfHeap(h)) = Elements(h) \ {get_min(h)}
         /\ DistinctIdx(RestOfHeap(h))
         /\ \A e \in Elements(RestOfHeap(h)) : e.idx # get_min(h).idx
<1> DEFINE rest == RestOfHeap(h)
           u == <<h[1]>> \o rest
<1>1. rest \in Seq(S) /\ Rearranges(u, h)
  BY DeleteKeepsHeap DEF get_min
<1>2. Len(h) \in Nat \ {0} /\ h[1] \in S /\ Elements(h) = {h[i] : i \in 1..Len(h)}
  BY EmptySeq, ElementsOfSeq
<1> HIDE DEF rest
<1>3. /\ u \in Seq(S) /\ Len(rest) \in Nat /\ Len(u) = Len(rest) + 1
      /\ u[1] = h[1] /\ \A i \in 1..Len(rest) : u[i + 1] = rest[i]
  BY <1>1, <1>2, ConcatProperties
<1> HIDE DEF u
<1>4. Elements(u) = Elements(h) /\ DistinctIdx(u)
  BY <1>1, <1>3, RearrangesKeeps
<1>5. Elements(rest) = {rest[i] : i \in 1..Len(rest)} /\ Elements(u) = {u[i] : i \in 1..Len(u)}
  BY <1>1, <1>3, ElementsOfSeq
<1>6. ASSUME NEW i \in 1..Len(rest)
      PROVE  rest[i].idx # h[1].idx /\ rest[i] \in Elements(u)
  <2>1. i + 1 \in 1..Len(u) /\ 1 \in 1..Len(u) /\ i + 1 # 1
    BY <1>3
  <2>2. u[i + 1] = rest[i]
    BY <1>3
  <2> QED
    BY <1>3, <1>4, <1>5, <2>1, <2>2 DEF DistinctIdx
<1>7. ASSUME NEW i \in 1..Len(u), u[i] # h[1]
      PROVE  u[i] \in Elements(rest)
  <2>1. i - 1 \in 1..Len(rest) /\ (i - 1) + 1 = i
    BY <1>3, <1>7
  <2>2. u[i] = rest[i - 1]
    BY <1>3, <2>1
  <2> QED
    BY <1>5, <2>1, <2>2
<1>8. Elements(rest) = Elements(h) \ {h[1]}
  <2>1. \A e \in Elements(rest) : e.idx # h[1].idx /\ e \in Elements(h)
    BY <1>4, <1>5, <1>6
  <2>2. \A e \in Elements(h) : e # h[1] => e \in Elements(rest)
    BY <1>4, <1>5, <1>7
  <2>3. h[1] \notin Elements(rest)
    BY <2>1
  <2> QED
    BY <2>1, <2>2, <2>3
<1>9. DistinctIdx(rest)
  <2> SUFFICES ASSUME NEW i \in 1..Len(rest), NEW j \in 1..Len(rest), rest[i].idx = rest[j].idx
               PROVE  i = j
    BY DEF DistinctIdx
  <2>1. i + 1 \in 1..Len(u) /\ j + 1 \in 1..Len(u) /\ u[i + 1] = rest[i] /\ u[j + 1] = rest[j]
    BY <1>3
  <2>2. i + 1 = j + 1
    BY <1>4, <2>1 DEF DistinctIdx
  <2> QED
    BY <2>2
<1>10. h[1] \in Elements(h)
  BY <1>2
<1> QED
  BY <1>5, <1>6, <1>8, <1>9, <1>10 DEF rest, get_min
=============================================================================
