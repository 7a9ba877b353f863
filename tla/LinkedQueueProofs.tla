-------------------------- MODULE LinkedQueueProofs --------------------------
(***************************************************************************)
(* Proofs about LinkedQueue, for any number of nodes and items, when a     *)
(* call is not interrupted by another one (MaxDepth = 1): the pointers of  *)
(* queue.c implement TornQueue, with searchQueue and without it, and no    *)
(* node of the list has been freed.  Without searchQueue, as the ready and *)
(* the wait queue are used, count is the length of the list and every node *)
(* is in it.                                                               *)
(***************************************************************************)
EXTENDS LinkedQueue, FiniteSetTheorems, SequenceTheorems, WellFoundedInduction, TLAPS

-----------------------------------------------------------------------------
(* Linked lists *)

\* The nodes of s, each once, are linked from h by the pointers nx, and the last
\* one ends the list.
IsList(h, nx, s) ==
  /\ s \in Seq(Addresses)
  /\ \A i, j \in 1..Len(s) : s[i] = s[j] => i = j
  /\ s = <<>> => h = NIL
  /\ s # <<>> => h = s[1] /\ nx[s[Len(s)]] = NIL
  /\ \A i \in 1..(Len(s) - 1) : s[i + 1] = nx[s[i]]

Nodes(s) == {s[i] : i \in 1..Len(s)}

\* A set of naturals that has n as soon as it has every number below n has all.
LEMMA NatSets ==
  ASSUME NEW P, \A n \in Nat : (\A m \in 0..(n - 1) : m \in P) => n \in P
  PROVE  Nat \subseteq P
<1> SUFFICES ASSUME Nat \ P # {} PROVE FALSE
  OBVIOUS
<1>1. IsWellFoundedOn({ss \in Nat \X Nat : ss[1] < ss[2]}, Nat)
  BY NatLessThanWellFounded DEF OpToRel
<1>2. PICK n \in Nat \ P : \A m \in Nat \ P : ~(<<m, n>> \in {ss \in Nat \X Nat : ss[1] < ss[2]})
  BY <1>1, WFMin
<1>3. ASSUME NEW m \in 0..(n - 1) PROVE m \in P
  <2>1. <<m, n>> \in Nat \X Nat /\ m < n
    OBVIOUS
  <2> QED
    BY <1>2, <2>1
<1> QED
  BY <1>2, <1>3

\* A list has no more nodes than there are addresses.
LEMMA ListLength ==
  ASSUME NEW h, NEW nx, NEW s, IsList(h, nx, s)
  PROVE  /\ Len(s) \in Nat /\ s \in [1..Len(s) -> Addresses]
         /\ Cardinality(Addresses) \in Nat
         /\ Len(s) <= Cardinality(Addresses)
<1>1. Len(s) \in Nat /\ s \in [1..Len(s) -> Addresses]
  BY LenProperties DEF IsList
<1>2. s \in Injection(1..Len(s), Addresses)
  BY <1>1 DEF IsList, Injection, IsInjective
<1>3. Cardinality(1..Len(s)) <= Cardinality(Addresses)
  BY <1>2, LinkedQueueAssumption, FS_Injection
<1>4. Cardinality(1..Len(s)) = Len(s)
  BY <1>1, FS_Interval
<1>5. Cardinality(Addresses) \in Nat
  BY LinkedQueueAssumption, FS_CardinalityType
<1> QED
  BY <1>1, <1>3, <1>4, <1>5

\* The steps of a walk from h along nx.
Step(h, nx, w, i) ==
  IF i = 1 THEN h ELSE IF w[i - 1] = NIL THEN NIL ELSE nx[w[i - 1]]

IsWalk(h, nx, w) ==
  w = [i \in 1..Cardinality(Addresses) |-> Step(h, nx, w, i)]

\* The walk along a list.
Along(s) ==
  [i \in 1..Cardinality(Addresses) |-> IF i <= Len(s) THEN s[i] ELSE NIL]

LEMMA AlongIsWalk ==
  ASSUME NEW h, NEW nx, NEW s, IsList(h, nx, s)
  PROVE  IsWalk(h, nx, Along(s))
<1> DEFINE N == Cardinality(Addresses)
<1>1. Len(s) \in Nat /\ N \in Nat /\ Len(s) <= N /\ s \in [1..Len(s) -> Addresses]
  BY ListLength
<1>2. ASSUME NEW i \in 1..N
      PROVE  Along(s)[i] = Step(h, nx, Along(s), i)
  <2>0. Along(s)[i] = IF i <= Len(s) THEN s[i] ELSE NIL
    BY <1>2 DEF Along
  <2>1. CASE i = 1
    <3>1. CASE s = <<>>
      BY <2>0, <2>1, <3>1, <1>1 DEF IsList, Step
    <3>2. CASE s # <<>>
      <4>1. 1 <= Len(s)
        BY <3>2, <1>1, EmptySeq DEF IsList
      <4> QED
        BY <2>0, <2>1, <3>2, <4>1 DEF IsList, Step
    <3> QED
      BY <3>1, <3>2
  <2>2. CASE i # 1
    <3>1. i - 1 \in 1..N /\ Along(s)[i - 1] = IF i - 1 <= Len(s) THEN s[i - 1] ELSE NIL
      BY <2>2, <1>1 DEF Along
    <3>2. CASE i <= Len(s)
      <4>1. i - 1 \in 1..(Len(s) - 1) /\ i - 1 \in 1..Len(s) /\ (i - 1) + 1 = i
        BY <3>2, <2>2, <1>1
      <4>2. s[i - 1] \in Addresses /\ s[i] = nx[s[i - 1]]
        BY <4>1, <1>1 DEF IsList
      <4>3. s[i - 1] # NIL
        BY <4>2, LinkedQueueAssumption
      <4> QED
        BY <2>0, <2>2, <3>1, <3>2, <4>1, <4>2, <4>3, <1>1 DEF Step
    <3>3. CASE i - 1 = Len(s)
      <4>1. i - 1 \in 1..Len(s) /\ s # <<>>
        BY <3>3, <2>2, <1>1
      <4>2. s[i - 1] \in Addresses /\ nx[s[i - 1]] = NIL
        BY <4>1, <3>3, <1>1 DEF IsList
      <4> QED
        BY <2>0, <2>2, <3>1, <3>3, <4>2, <1>1 DEF Step
    <3>4. CASE i - 1 > Len(s)
      BY <2>0, <2>2, <3>1, <3>4, <1>1 DEF Step
    <3> QED
      BY <3>2, <3>3, <3>4, <1>1
  <2> QED
    BY <2>1, <2>2
<1>3. Along(s) = [i \in 1..N |-> Step(h, nx, Along(s), i)]
  BY <1>2 DEF Along
<1> QED
  BY <1>3 DEF IsWalk

\* There is one walk only.
LEMMA OneWalk ==
  ASSUME NEW h, NEW nx, NEW v, NEW w, IsWalk(h, nx, v), IsWalk(h, nx, w),
         Cardinality(Addresses) \in Nat
  PROVE  v = w
<1> DEFINE N == Cardinality(Addresses)
           P == {n \in Nat : n \in 1..N => v[n] = w[n]}
<1>1. ASSUME NEW n \in Nat, \A m \in 0..(n - 1) : m \in P
      PROVE  n \in P
  <2> SUFFICES ASSUME n \in 1..N PROVE v[n] = w[n]
    OBVIOUS
  <2>1. v[n] = Step(h, nx, v, n) /\ w[n] = Step(h, nx, w, n)
    BY DEF IsWalk
  <2>2. CASE n = 1
    BY <2>1, <2>2 DEF Step
  <2>3. CASE n # 1
    <3>1. n - 1 \in 1..N /\ n - 1 \in 0..(n - 1)
      BY <2>3
    <3>2. v[n - 1] = w[n - 1]
      BY <1>1, <3>1
    <3> QED
      BY <2>1, <2>3, <3>2 DEF Step
  <2> QED
    BY <2>2, <2>3
<1>2. Nat \subseteq P
  <2> HIDE DEF P
  <2> QED
    BY <1>1, NatSets
<1>3. \A n \in 1..N : v[n] = w[n]
  BY <1>2
<1>4. v = [n \in 1..N |-> v[n]] /\ w = [n \in 1..N |-> w[n]]
  <2>1. v = [n \in 1..N |-> Step(h, nx, v, n)] /\ w = [n \in 1..N |-> Step(h, nx, w, n)]
    BY DEF IsWalk
  <2>2. /\ \A n \in 1..N : v[n] = Step(h, nx, v, n)
        /\ \A n \in 1..N : w[n] = Step(h, nx, w, n)
    BY <2>1
  <2> QED
    BY <2>1, <2>2
<1> QED
  BY <1>3, <1>4

\* What a walk from the head of a list meets is the list.
LEMMA WalkMeetsList ==
  ASSUME NEW h, NEW nx, NEW s, IsList(h, nx, s)
  PROVE  WalkFrom(h, nx) = s
<1> DEFINE N == Cardinality(Addresses)
           w == CHOOSE v : IsWalk(h, nx, v)
<1>1. Len(s) \in Nat /\ N \in Nat /\ Len(s) <= N /\ s \in [1..Len(s) -> Addresses]
  BY ListLength
<1>2. w = Along(s)
  <2>1. IsWalk(h, nx, w)
    BY AlongIsWalk
  <2> QED
    BY <2>1, <1>1, AlongIsWalk, OneWalk
<1>3. WalkFrom(h, nx) = SubSeq(w, 1, Cardinality({i \in 1..N : w[i] # NIL}))
  BY DEF WalkFrom, IsWalk, Step
<1>4. {i \in 1..N : Along(s)[i] # NIL} = 1..Len(s)
  <2>1. \A i \in 1..N : Along(s)[i] = IF i <= Len(s) THEN s[i] ELSE NIL
    BY DEF Along
  <2>2. \A i \in 1..Len(s) : s[i] # NIL
    BY <1>1, LinkedQueueAssumption
  <2> QED
    BY <1>1, <2>1, <2>2
<1>5. Cardinality(1..Len(s)) = Len(s)
  <2>1. 1 \in Int /\ Len(s) \in Int /\ Len(s) \in Nat
    BY <1>1
  <2> HIDE DEF w, N
  <2>2. Cardinality(1..Len(s)) = IF 1 > Len(s) THEN 0 ELSE Len(s) - 1 + 1
    BY <2>1, FS_Interval
  <2> QED
    BY <2>1, <2>2
<1>6. SubSeq(Along(s), 1, Len(s)) = s
  <2>1. \A i \in 1..Len(s) : Along(s)[i] = s[i] /\ s[i] \in Addresses
    BY <1>1 DEF Along
  <2>2. /\ SubSeq(Along(s), 1, Len(s)) \in Seq(Addresses)
        /\ Len(SubSeq(Along(s), 1, Len(s))) = Len(s)
        /\ \A i \in 1..Len(s) : SubSeq(Along(s), 1, Len(s))[i] = Along(s)[i]
    <3> DEFINE t == Along(s)
    <3>1. \A i \in 1..Len(s) : t[i] \in Addresses
      BY <2>1
    <3> HIDE DEF t
    <3>2. /\ SubSeq(t, 1, Len(s)) \in Seq(Addresses)
          /\ Len(SubSeq(t, 1, Len(s))) = IF 1 <= Len(s) THEN Len(s) - 1 + 1 ELSE 0
          /\ \A i \in 1..(Len(s) - 1 + 1) : SubSeq(t, 1, Len(s))[i] = t[1 + i - 1]
      BY <3>1, <1>1, SubSeqProperties
    <3>3. \A i \in 1..Len(s) : 1 + i - 1 = i
      BY <1>1
    <3> QED
      BY <1>1, <3>2, <3>3 DEF t
  <2>3. s \in Seq(Addresses)
    BY DEF IsList
  <2> QED
    BY <2>1, <2>2, <2>3, SeqEqual
<1> HIDE DEF w
<1> QED
  BY <1>2, <1>3, <1>4, <1>5, <1>6

-----------------------------------------------------------------------------
(* What the calls do to a list *)

\* The elements of a sequence with one more, and of one without its first.
LEMMA Appended ==
  ASSUME NEW S, NEW s \in Seq(S), NEW n \in S
  PROVE  /\ Append(s, n) \in Seq(S) /\ Append(s, n) # <<>>
         /\ Len(s) \in Nat /\ Len(Append(s, n)) = Len(s) + 1
         /\ \A i \in 1..Len(s) : Append(s, n)[i] = s[i]
         /\ Append(s, n)[Len(s) + 1] = n
BY AppendProperties, LenProperties

LEMMA Tailed ==
  ASSUME NEW S, NEW s \in Seq(S), s # <<>>
  PROVE  /\ Tail(s) \in Seq(S)
         /\ Len(s) \in Nat \ {0} /\ Len(Tail(s)) = Len(s) - 1
         /\ \A i \in 1..(Len(s) - 1) : Tail(s)[i] = s[i + 1]
         /\ Head(s) = s[1]
BY HeadTailProperties, EmptySeq

\* SubSeq and concatenation take the i-th element out.
Cut(s, i) == SubSeq(s, 1, i - 1) \o SubSeq(s, i + 1, Len(s))

LEMMA CutOut ==
  ASSUME NEW S, NEW s \in Seq(S), NEW i \in 1..Len(s)
  PROVE  /\ Cut(s, i) \in Seq(S)
         /\ Len(s) \in Nat \ {0} /\ Len(Cut(s, i)) = Len(s) - 1
         /\ \A j \in 1..(Len(s) - 1) : Cut(s, i)[j] = IF j < i THEN s[j] ELSE s[j + 1]
<1> DEFINE a == SubSeq(s, 1, i - 1)
           b == SubSeq(s, i + 1, Len(s))
<1>1. Len(s) \in Nat \ {0} /\ i \in Nat \ {0} /\ i <= Len(s) /\ \A j \in 1..Len(s) : s[j] \in S
  BY LenProperties
<1>2. a \in Seq(S) /\ Len(a) = i - 1 /\ \A j \in 1..(i - 1) : a[j] = s[j]
  <2>1. \A j \in 1..(i - 1) : s[j] \in S
    BY <1>1
  <2>2. /\ a \in Seq(S)
        /\ Len(a) = IF 1 <= i - 1 THEN (i - 1) - 1 + 1 ELSE 0
        /\ \A j \in 1..((i - 1) - 1 + 1) : a[j] = s[1 + j - 1]
    <3>1. 1 \in Int /\ i - 1 \in Int
      BY <1>1
    <3> QED
      BY <2>1, <3>1, SubSeqProperties
  <2>3. \A j \in 1..(i - 1) : 1 + j - 1 = j
    BY <1>1
  <2> QED
    BY <1>1, <2>2, <2>3
<1>3. b \in Seq(S) /\ Len(b) = Len(s) - i /\ \A j \in 1..(Len(s) - i) : b[j] = s[i + j]
  <2>1. \A j \in (i + 1)..Len(s) : s[j] \in S
    BY <1>1
  <2>2. /\ b \in Seq(S)
        /\ Len(b) = IF i + 1 <= Len(s) THEN Len(s) - (i + 1) + 1 ELSE 0
        /\ \A j \in 1..(Len(s) - (i + 1) + 1) : b[j] = s[(i + 1) + j - 1]
    <3>1. i + 1 \in Int /\ Len(s) \in Int
      BY <1>1
    <3> QED
      BY <2>1, <3>1, SubSeqProperties
  <2>3. \A j \in 1..(Len(s) - i) : (i + 1) + j - 1 = i + j
    BY <1>1
  <2> QED
    BY <1>1, <2>2, <2>3
<1> HIDE DEF a, b
<1>4. /\ a \o b \in Seq(S)
      /\ Len(a \o b) = Len(a) + Len(b)
      /\ \A j \in 1..(Len(a) + Len(b)) : (a \o b)[j] = IF j <= Len(a) THEN a[j] ELSE b[j - Len(a)]
  BY <1>2, <1>3, ConcatProperties
<1>5. ASSUME NEW j \in 1..(Len(s) - 1)
      PROVE  (a \o b)[j] = IF j < i THEN s[j] ELSE s[j + 1]
  <2>1. CASE j < i
    BY <1>1, <1>2, <1>3, <1>4, <2>1
  <2>2. CASE ~(j < i)
    <3>1. j - (i - 1) \in 1..(Len(s) - i) /\ i + (j - (i - 1)) = j + 1 /\ ~(j <= i - 1)
      BY <1>1, <2>2
    <3>2. j \in 1..(Len(a) + Len(b))
      BY <1>1, <1>2, <1>3
    <3>3. (a \o b)[j] = b[j - (i - 1)]
      BY <1>2, <1>4, <3>1, <3>2
    <3> QED
      BY <1>3, <2>2, <3>1, <3>3
  <2> QED
    BY <2>1, <2>2
<1>6. Cut(s, i) = a \o b
  BY DEF Cut, a, b
<1>7. Len(a \o b) = Len(s) - 1
  BY <1>1, <1>2, <1>3, <1>4
<1> QED
  BY <1>1, <1>4, <1>5, <1>6, <1>7

\* A list stays one when only pointers of other nodes change.
LEMMA ListElsewhere ==
  ASSUME NEW h, NEW nx, NEW s, IsList(h, nx, s), NEW ny,
         \A n \in Nodes(s) : ny[n] = nx[n]
  PROVE  IsList(h, ny, s)
<1>1. Len(s) \in Nat /\ s \in Seq(Addresses)
  BY ListLength DEF IsList
<1>2. \A i \in 1..Len(s) : ny[s[i]] = nx[s[i]]
  BY DEF Nodes
<1>3. s # <<>> => Len(s) \in 1..Len(s)
  BY <1>1, EmptySeq
<1>4. \A i \in 1..(Len(s) - 1) : i \in 1..Len(s)
  BY <1>1
<1> QED
  BY <1>2, <1>3, <1>4 DEF IsList

LEMMA ListOfOne ==
  ASSUME NEW n \in Addresses, NEW nx, nx[n] = NIL
  PROVE  IsList(n, nx, <<n>>)
BY DEF IsList

LEMMA ListOfNone ==
  ASSUME NEW nx
  PROVE  IsList(NIL, nx, <<>>)
BY DEF IsList

\* A new node is linked to the last one.
LEMMA ListAppend ==
  ASSUME NEW h, NEW nx \in [Addresses -> Pointers], NEW s, IsList(h, nx, s), s # <<>>,
         NEW n \in Addresses \ Nodes(s), nx[n] = NIL
  PROVE  IsList(h, [nx EXCEPT ![s[Len(s)]] = n], Append(s, n))
<1> DEFINE t == Append(s, n)
           ny == [nx EXCEPT ![s[Len(s)]] = n]
           k == Len(s)
<1>1. /\ t \in Seq(Addresses) /\ t # <<>> /\ k \in Nat /\ Len(t) = k + 1
      /\ \A i \in 1..k : t[i] = s[i]
      /\ t[k + 1] = n
  BY Appended DEF IsList
<1>2. k \in 1..k /\ \A i \in 1..k : s[i] \in Addresses /\ s[i] # n
  BY <1>1, EmptySeq, ElementOfSeq DEF IsList, Nodes
<1>3. \A i, j \in 1..Len(t) : t[i] = t[j] => i = j
  <2>1. \A i, j \in 1..k : s[i] = s[j] => i = j
    BY DEF IsList
  <2>2. \A i \in 1..Len(t) : i \in 1..k \/ i = k + 1
    BY <1>1
  <2> HIDE DEF t, k
  <2> QED
    BY <1>1, <1>2, <2>1, <2>2
<1>4. h = t[1] /\ ny[t[Len(t)]] = NIL
  <2>1. 1 \in 1..k
    BY <1>1, <1>2
  <2>2. n # s[k] /\ n \in Addresses /\ ny[n] = nx[n]
    BY <1>2
  <2> QED
    BY <1>1, <2>1, <2>2 DEF IsList
<1>5. ASSUME NEW i \in 1..(Len(t) - 1)
      PROVE  t[i + 1] = ny[t[i]]
  <2>1. i \in 1..k
    BY <1>1
  <2>2. CASE i = k
    BY <1>1, <1>2, <2>2
  <2>3. CASE i # k
    <3>1. i \in 1..(k - 1) /\ i + 1 \in 1..k
      BY <1>1, <2>1, <2>3
    <3>2. s[i] # s[k] /\ s[i] \in Addresses
      BY <1>2, <2>1, <2>3 DEF IsList
    <3>3. ny[s[i]] = nx[s[i]]
      BY <3>2
    <3>4. s[i + 1] = nx[s[i]]
      BY <3>1 DEF IsList
    <3> QED
      BY <1>1, <2>1, <3>1, <3>3, <3>4
  <2> QED
    BY <2>2, <2>3
<1> QED
  BY <1>1, <1>3, <1>4, <1>5 DEF IsList

\* head moves on to the second node.
LEMMA ListTail ==
  ASSUME NEW h, NEW nx, NEW s, IsList(h, nx, s), s # <<>>
  PROVE  IsList(nx[h], nx, Tail(s))
<1> DEFINE t == Tail(s)
           k == Len(s)
<1>1. /\ t \in Seq(Addresses) /\ k \in Nat \ {0} /\ Len(t) = k - 1
      /\ \A i \in 1..(k - 1) : t[i] = s[i + 1]
  BY Tailed DEF IsList
<1>2. \A i, j \in 1..Len(t) : t[i] = t[j] => i = j
  <2>1. \A i, j \in 1..k : s[i] = s[j] => i = j
    BY DEF IsList
  <2>2. \A i \in 1..Len(t) : i \in 1..(k - 1) /\ i + 1 \in 1..k
    BY <1>1
  <2> HIDE DEF t, k
  <2>3. ASSUME NEW i \in 1..Len(t), NEW j \in 1..Len(t), t[i] = t[j] PROVE i = j
    <3>1. s[i + 1] = s[j + 1]
      BY <1>1, <2>2, <2>3
    <3>2. i + 1 = j + 1
      BY <2>1, <2>2, <3>1
    <3> QED
      BY <3>2
  <2> QED
    BY <2>3
<1>3. t = <<>> => nx[h] = NIL
  <2>1. t = <<>> => Len(t) = 0
    <3> HIDE DEF t
    <3> QED
      OBVIOUS
  <2>2. t = <<>> => k = 1
    <3> HIDE DEF t, k
    <3> QED
      BY <1>1, <2>1
  <2> QED
    BY <2>2 DEF IsList
<1>4. t # <<>> => nx[h] = t[1] /\ nx[t[Len(t)]] = NIL
  <2> HAVE t # <<>>
  <2>1. 1 \in 1..(k - 1) /\ k - 1 \in 1..(k - 1)
    BY <1>1, EmptySeq
  <2>2. h = s[1] /\ s[1 + 1] = nx[s[1]] /\ nx[s[k]] = NIL
    BY <2>1 DEF IsList
  <2>3. t[1] = s[1 + 1] /\ t[k - 1] = s[(k - 1) + 1] /\ (k - 1) + 1 = k
    BY <1>1, <2>1
  <2> QED
    BY <1>1, <2>2, <2>3
<1>5. ASSUME NEW i \in 1..(Len(t) - 1)
      PROVE  t[i + 1] = nx[t[i]]
  <2>1. i \in 1..(k - 1) /\ i + 1 \in 1..(k - 1)
    BY <1>1
  <2>2. s[(i + 1) + 1] = nx[s[i + 1]]
    BY <2>1 DEF IsList
  <2> QED
    BY <1>1, <2>1, <2>2
<1> QED
  BY <1>1, <1>2, <1>3, <1>4, <1>5 DEF IsList

\* A node that is not the first is unlinked by its predecessor.
LEMMA ListCut ==
  ASSUME NEW h, NEW nx \in [Addresses -> Pointers], NEW s, IsList(h, nx, s),
         NEW c \in 2..Len(s)
  PROVE  IsList(h, [nx EXCEPT ![s[c - 1]] = nx[s[c]]], Cut(s, c))
<1> DEFINE t == Cut(s, c)
           k == Len(s)
           ny == [nx EXCEPT ![s[c - 1]] = nx[s[c]]]
<1>0. k \in Nat /\ c \in 1..k /\ s \in Seq(Addresses)
  BY ListLength DEF IsList
<1>1. /\ t \in Seq(Addresses) /\ k \in Nat \ {0} /\ Len(t) = k - 1
      /\ \A j \in 1..(k - 1) : t[j] = IF j < c THEN s[j] ELSE s[j + 1]
  BY <1>0, CutOut
<1>2. /\ \A i, j \in 1..k : s[i] = s[j] => i = j
      /\ \A i \in 1..k : s[i] \in Addresses
      /\ \A i \in 1..(k - 1) : s[i + 1] = nx[s[i]]
      /\ h = s[1] /\ nx[s[k]] = NIL
      /\ c - 1 \in 1..k /\ c \in 2..k
  BY <1>0, <1>1, ElementOfSeq, EmptySeq DEF IsList
<1>3. \A i \in 1..k : ny[s[i]] = IF i = c - 1 THEN nx[s[c]] ELSE nx[s[i]]
  BY <1>2
<1> HIDE DEF t, k, ny
<1>4. ASSUME NEW i \in 1..(k - 1), NEW j \in 1..(k - 1), t[i] = t[j] PROVE i = j
  <2> DEFINE at(m) == IF m < c THEN m ELSE m + 1
  <2>1. at(i) \in 1..k /\ at(j) \in 1..k /\ t[i] = s[at(i)] /\ t[j] = s[at(j)]
    BY <1>1, <1>2
  <2>2. at(i) = at(j)
    <3> HIDE DEF at
    <3> QED
      BY <1>2, <1>4, <2>1
  <2> QED
    BY <2>2, <1>1, <1>2
<1>5. t # <<>>
  BY <1>1, <1>2
<1>6. h = t[1] /\ ny[t[k - 1]] = NIL
  <2>1. t[1] = s[1]
    BY <1>1, <1>2
  <2>2. CASE c = k
    <3>1. t[k - 1] = s[c - 1]
      BY <1>1, <1>2, <2>2
    <3> QED
      BY <1>2, <1>3, <2>1, <2>2, <3>1
  <2>3. CASE c # k
    <3>1. t[k - 1] = s[(k - 1) + 1] /\ (k - 1) + 1 = k /\ k # c - 1 /\ k \in 1..k
      BY <1>1, <1>2, <2>3
    <3> QED
      BY <1>2, <1>3, <2>1, <3>1
  <2> QED
    BY <2>2, <2>3
<1>7. ASSUME NEW i \in 1..((k - 1) - 1)
      PROVE  t[i + 1] = ny[t[i]]
  <2>0. i \in 1..(k - 1) /\ i + 1 \in 1..(k - 1)
    BY <1>1
  <2>1. CASE i + 1 < c
    <3>1. i < c /\ i # c - 1 /\ i \in 1..k
      BY <1>1, <1>2, <2>0, <2>1
    <3>2. t[i] = s[i] /\ t[i + 1] = s[i + 1]
      BY <1>1, <2>0, <2>1, <3>1
    <3> QED
      BY <1>2, <1>3, <2>0, <3>1, <3>2
  <2>2. CASE i + 1 = c
    <3>1. t[i] = s[i] /\ t[i + 1] = s[c + 1] /\ i = c - 1 /\ i \in 1..k /\ c \in 1..(k - 1)
      BY <1>1, <1>2, <2>0, <2>2
    <3>2. ny[s[i]] = nx[s[c]]
      BY <1>3, <3>1
    <3>3. s[c + 1] = nx[s[c]]
      BY <1>2, <3>1
    <3> QED
      BY <3>1, <3>2, <3>3
  <2>3. CASE i + 1 > c
    <3>1. t[i] = s[i + 1] /\ t[i + 1] = s[(i + 1) + 1] /\ i + 1 # c - 1 /\ i + 1 \in 1..k
      BY <1>1, <1>2, <2>0, <2>3
    <3>2. s[(i + 1) + 1] = nx[s[i + 1]]
      BY <1>2, <2>0
    <3> QED
      BY <1>3, <3>1, <3>2
  <2> QED
    BY <2>1, <2>2, <2>3, <1>1, <1>2
<1>8. IsList(h, ny, t)
  BY <1>1, <1>4, <1>5, <1>6, <1>7 DEF IsList
<1> QED
  BY <1>8 DEF t, ny

-----------------------------------------------------------------------------
(* What is in a list *)

Listed(it, s) == [i \in DOMAIN s |-> it[s[i]]]

\* A sequence of nodes has a sequence of items.
LEMMA ListedType ==
  ASSUME NEW T, NEW it \in [Addresses -> T], NEW s \in Seq(Addresses)
  PROVE  /\ Listed(it, s) \in Seq(T)
         /\ Len(Listed(it, s)) = Len(s) /\ Len(s) \in Nat
         /\ \A i \in 1..Len(s) : Listed(it, s)[i] = it[s[i]] /\ s[i] \in Addresses
         /\ Listed(it, s) = <<>> <=> s = <<>>
<1>1. Len(s) \in Nat /\ DOMAIN s = 1..Len(s) /\ \A i \in 1..Len(s) : s[i] \in Addresses
  BY LenProperties
<1>2. Listed(it, s) \in [1..Len(s) -> T]
  BY <1>1 DEF Listed
<1>3. Listed(it, s) \in Seq(T) /\ Len(Listed(it, s)) = Len(s)
  BY <1>1, <1>2
<1>4. Listed(it, s) = <<>> <=> s = <<>>
  BY <1>1, <1>3, EmptySeq
<1> QED
  BY <1>1, <1>3, <1>4 DEF Listed

LEMMA ListedAppend ==
  ASSUME NEW T, NEW it \in [Addresses -> T], NEW s \in Seq(Addresses), NEW n \in Addresses
  PROVE  Listed(it, Append(s, n)) = Append(Listed(it, s), it[n])
<1> DEFINE t == Append(s, n)
           l == Listed(it, s)
<1>1. /\ t \in Seq(Addresses) /\ Len(s) \in Nat /\ Len(t) = Len(s) + 1
      /\ \A i \in 1..Len(s) : t[i] = s[i]
      /\ t[Len(s) + 1] = n
  BY Appended
<1>2. l \in Seq(T) /\ Len(l) = Len(s) /\ \A i \in 1..Len(s) : l[i] = it[s[i]]
  BY ListedType
<1>3. /\ Listed(it, t) \in Seq(T) /\ Len(Listed(it, t)) = Len(s) + 1
      /\ \A i \in 1..Len(t) : Listed(it, t)[i] = it[t[i]]
  BY <1>1, ListedType
<1>4. /\ Append(l, it[n]) \in Seq(T) /\ Len(Append(l, it[n])) = Len(s) + 1
      /\ \A i \in 1..Len(s) : Append(l, it[n])[i] = l[i]
      /\ Append(l, it[n])[Len(s) + 1] = it[n]
  <2>1. it[n] \in T
    OBVIOUS
  <2> HIDE DEF l
  <2> QED
    BY <1>2, <2>1, Appended
<1>5. \A i \in 1..(Len(s) + 1) : Listed(it, t)[i] = Append(l, it[n])[i]
  <2>1. \A i \in 1..(Len(s) + 1) : i \in 1..Len(s) \/ i = Len(s) + 1
    BY <1>1
  <2> HIDE DEF l, t
  <2> QED
    BY <1>1, <1>2, <1>3, <1>4, <2>1
<1> QED
  BY <1>3, <1>4, <1>5, SeqEqual

LEMMA ListedTail ==
  ASSUME NEW T, NEW it \in [Addresses -> T], NEW s \in Seq(Addresses), s # <<>>
  PROVE  Listed(it, Tail(s)) = Tail(Listed(it, s)) /\ Head(Listed(it, s)) = it[s[1]]
<1> DEFINE t == Tail(s)
           l == Listed(it, s)
<1>1. /\ t \in Seq(Addresses) /\ Len(s) \in Nat \ {0} /\ Len(t) = Len(s) - 1
      /\ \A i \in 1..(Len(s) - 1) : t[i] = s[i + 1]
  BY Tailed
<1>2. l \in Seq(T) /\ Len(l) = Len(s) /\ l # <<>> /\ \A i \in 1..Len(s) : l[i] = it[s[i]]
  BY ListedType
<1>3. /\ Listed(it, t) \in Seq(T) /\ Len(Listed(it, t)) = Len(s) - 1
      /\ \A i \in 1..(Len(s) - 1) : Listed(it, t)[i] = it[t[i]]
  <2> HIDE DEF t
  <2>1. t \in Seq(Addresses) /\ 1..(Len(s) - 1) = 1..Len(t) /\ Len(t) = Len(s) - 1
    BY <1>1
  <2>2. /\ Listed(it, t) \in Seq(T) /\ Len(Listed(it, t)) = Len(t)
        /\ \A i \in 1..Len(t) : Listed(it, t)[i] = it[t[i]]
    BY <2>1, ListedType
  <2> QED
    BY <2>1, <2>2
<1> HIDE DEF l
<1>4. /\ Tail(l) \in Seq(T) /\ Len(Tail(l)) = Len(s) - 1
      /\ \A i \in 1..(Len(s) - 1) : Tail(l)[i] = l[i + 1]
      /\ Head(l) = l[1]
  BY <1>2, Tailed
<1>5. \A i \in 1..(Len(s) - 1) : Listed(it, t)[i] = Tail(l)[i]
  <2>1. \A i \in 1..(Len(s) - 1) : i + 1 \in 1..Len(s)
    BY <1>1
  <2> HIDE DEF t
  <2> QED
    BY <1>1, <1>2, <1>3, <1>4, <2>1
<1>6. Listed(it, t) = Tail(l)
  BY <1>3, <1>4, <1>5, SeqEqual
<1>7. 1 \in 1..Len(s)
  BY <1>1
<1> QED
  BY <1>2, <1>4, <1>6, <1>7 DEF l

LEMMA ListedCut ==
  ASSUME NEW T, NEW it \in [Addresses -> T], NEW s \in Seq(Addresses), NEW c \in 1..Len(s)
  PROVE  Listed(it, Cut(s, c)) = Cut(Listed(it, s), c)
<1> DEFINE t == Cut(s, c)
           l == Listed(it, s)
<1>1. /\ t \in Seq(Addresses) /\ Len(s) \in Nat \ {0} /\ Len(t) = Len(s) - 1
      /\ \A i \in 1..(Len(s) - 1) : t[i] = IF i < c THEN s[i] ELSE s[i + 1]
  BY CutOut
<1>2. l \in Seq(T) /\ Len(l) = Len(s) /\ \A i \in 1..Len(s) : l[i] = it[s[i]]
  BY ListedType
<1>3. /\ Listed(it, t) \in Seq(T) /\ Len(Listed(it, t)) = Len(s) - 1
      /\ \A i \in 1..(Len(s) - 1) : Listed(it, t)[i] = it[t[i]]
  <2> HIDE DEF t
  <2>1. t \in Seq(Addresses) /\ 1..(Len(s) - 1) = 1..Len(t) /\ Len(t) = Len(s) - 1
    BY <1>1
  <2>2. /\ Listed(it, t) \in Seq(T) /\ Len(Listed(it, t)) = Len(t)
        /\ \A i \in 1..Len(t) : Listed(it, t)[i] = it[t[i]]
    BY <2>1, ListedType
  <2> QED
    BY <2>1, <2>2
<1> HIDE DEF l
<1>4. /\ Cut(l, c) \in Seq(T) /\ Len(Cut(l, c)) = Len(s) - 1
      /\ \A i \in 1..(Len(s) - 1) : Cut(l, c)[i] = IF i < c THEN l[i] ELSE l[i + 1]
  BY <1>2, CutOut
<1>5. ASSUME NEW i \in 1..(Len(s) - 1)
      PROVE  Listed(it, t)[i] = Cut(l, c)[i]
  <2> HIDE DEF t
  <2>1. i \in 1..Len(s) /\ i + 1 \in 1..Len(s)
    BY <1>1
  <2>2. Listed(it, t)[i] = it[t[i]] /\ l[i] = it[s[i]] /\ l[i + 1] = it[s[i + 1]]
    BY <1>2, <1>3, <2>1
  <2>3. CASE i < c
    BY <1>1, <1>4, <2>2, <2>3
  <2>4. CASE ~(i < c)
    BY <1>1, <1>4, <2>2, <2>4
  <2> QED
    BY <2>3, <2>4
<1> QED
  BY <1>3, <1>4, <1>5, SeqEqual DEF l

\* Items of other nodes make no difference.
LEMMA ListedElsewhere ==
  ASSUME NEW it, NEW jt, NEW s \in Seq(Addresses), \A n \in Nodes(s) : jt[n] = it[n]
  PROVE  Listed(jt, s) = Listed(it, s)
<1>1. DOMAIN s = 1..Len(s)
  BY LenProperties
<1> QED
  BY <1>1 DEF Listed, Nodes

\* The nodes of the sequences the calls make.
LEMMA NodesOf ==
  ASSUME NEW s \in Seq(Addresses)
  PROVE  /\ Nodes(<<>>) = {}
         /\ \A n \in Addresses : Nodes(<<n>>) = {n} /\ Nodes(Append(s, n)) = Nodes(s) \cup {n}
         /\ s # <<>> => /\ Nodes(Tail(s)) \subseteq Nodes(s)
                        /\ s[1] \in Nodes(s) /\ s[Len(s)] \in Nodes(s)
         /\ \A c \in 1..Len(s) : Nodes(Cut(s, c)) \subseteq Nodes(s)
         /\ Nodes(s) \subseteq Addresses
<1>0. Len(s) \in Nat /\ \A i \in 1..Len(s) : s[i] \in Addresses
  BY LenProperties
<1>1. Nodes(<<>>) = {} /\ \A n \in Addresses : Nodes(<<n>>) = {n}
  BY DEF Nodes
<1>2. ASSUME NEW n \in Addresses PROVE Nodes(Append(s, n)) = Nodes(s) \cup {n}
  <2> DEFINE t == Append(s, n)
  <2>1. /\ Len(t) = Len(s) + 1
        /\ \A i \in 1..Len(s) : t[i] = s[i]
        /\ t[Len(s) + 1] = n
    BY Appended
  <2> HIDE DEF t
  <2>2. ASSUME NEW i \in 1..Len(t) PROVE t[i] \in Nodes(s) \cup {n}
    <3>1. i \in 1..Len(s) \/ i = Len(s) + 1
      BY <1>0, <2>1
    <3> QED
      BY <2>1, <3>1 DEF Nodes
  <2>3. \A i \in 1..Len(s) : i \in 1..Len(t) /\ s[i] = t[i]
    BY <1>0, <2>1
  <2>4. Len(s) + 1 \in 1..Len(t)
    BY <1>0, <2>1
  <2>5. Nodes(t) = Nodes(s) \cup {n}
    BY <2>1, <2>2, <2>3, <2>4 DEF Nodes
  <2> QED
    BY <2>5 DEF t
<1>3. s # <<>> => /\ Nodes(Tail(s)) \subseteq Nodes(s)
                  /\ s[1] \in Nodes(s) /\ s[Len(s)] \in Nodes(s)
  <2> HAVE s # <<>>
  <2> DEFINE t == Tail(s)
  <2>1. Len(s) \in Nat \ {0} /\ Len(t) = Len(s) - 1 /\ \A i \in 1..(Len(s) - 1) : t[i] = s[i + 1]
    BY Tailed
  <2> HIDE DEF t
  <2>2. \A i \in 1..Len(t) : t[i] = s[i + 1] /\ i + 1 \in 1..Len(s)
    BY <2>1
  <2>3. 1 \in 1..Len(s) /\ Len(s) \in 1..Len(s)
    BY <2>1
  <2>4. Nodes(t) \subseteq Nodes(s)
    BY <2>2 DEF Nodes
  <2> QED
    BY <2>3, <2>4 DEF Nodes, t
<1>4. ASSUME NEW c \in 1..Len(s) PROVE Nodes(Cut(s, c)) \subseteq Nodes(s)
  <2> DEFINE t == Cut(s, c)
  <2>1. /\ Len(t) = Len(s) - 1
        /\ \A j \in 1..(Len(s) - 1) : t[j] = IF j < c THEN s[j] ELSE s[j + 1]
    BY CutOut
  <2> HIDE DEF t
  <2>2. \A j \in 1..Len(t) : /\ t[j] = IF j < c THEN s[j] ELSE s[j + 1]
                             /\ j \in 1..Len(s) /\ j + 1 \in 1..Len(s)
    BY <1>0, <2>1
  <2>3. Nodes(t) \subseteq Nodes(s)
    BY <2>2 DEF Nodes
  <2> QED
    BY <2>3 DEF t
<1>5. Nodes(s) \subseteq Addresses
  BY <1>0 DEF Nodes
<1> QED
  BY <1>1, <1>2, <1>3, <1>4, <1>5

\* Without its first node a list has neither the first node nor another last one.
LEMMA FirstIsApart ==
  ASSUME NEW h, NEW nx, NEW s, IsList(h, nx, s), s # <<>>
  PROVE  /\ h = s[1] /\ h \in Addresses /\ h \notin Nodes(Tail(s))
         /\ nx[h] = NIL <=> Tail(s) = <<>>
         /\ Tail(s) # <<>> => Tail(s)[Len(Tail(s))] = s[Len(s)] /\ s[Len(s)] # h
         /\ Tail(s) = <<>> <=> Len(s) = 1
<1> DEFINE t == Tail(s)
           k == Len(s)
<1>1. /\ t \in Seq(Addresses) /\ k \in Nat \ {0} /\ Len(t) = k - 1
      /\ \A i \in 1..(k - 1) : t[i] = s[i + 1]
  BY Tailed DEF IsList
<1>2. /\ \A i, j \in 1..k : s[i] = s[j] => i = j
      /\ \A i \in 1..k : s[i] \in Addresses
      /\ \A i \in 1..(k - 1) : s[i + 1] = nx[s[i]]
      /\ h = s[1] /\ nx[s[k]] = NIL
  BY <1>1, ElementOfSeq DEF IsList
<1>3. Len(t) = 0 <=> t = <<>>
  <2> HIDE DEF t
  <2> QED
    BY <1>1, EmptySeq
<1> HIDE DEF t, k
<1>4. h \notin Nodes(t)
  <2>1. ASSUME NEW i \in 1..Len(t), t[i] = h PROVE FALSE
    <3>1. i \in 1..(k - 1) /\ i + 1 \in 1..k /\ 1 \in 1..k /\ i + 1 # 1
      BY <1>1
    <3> QED
      BY <1>1, <1>2, <2>1, <3>1
  <2> QED
    BY <2>1 DEF Nodes
<1>5. t = <<>> <=> k = 1
  BY <1>1, <1>3
<1>6. nx[h] = NIL <=> t = <<>>
  <2>1. CASE k = 1
    BY <1>2, <1>5, <2>1
  <2>2. CASE k # 1
    <3>1. 1 \in 1..(k - 1) /\ 1 + 1 \in 1..k
      BY <1>1, <2>2
    <3>2. nx[h] \in Addresses
      BY <1>2, <3>1
    <3> QED
      BY <1>5, <2>2, <3>2, LinkedQueueAssumption
  <2> QED
    BY <2>1, <2>2
<1>7. t # <<>> => t[Len(t)] = s[k] /\ s[k] # h
  <2> HAVE t # <<>>
  <2>1. k - 1 \in 1..(k - 1) /\ (k - 1) + 1 = k /\ 1 \in 1..k /\ k \in 1..k /\ k # 1
    BY <1>1, <1>5
  <2> QED
    BY <1>1, <1>2, <2>1
<1>8. h \in Addresses
  BY <1>1, <1>2
<1> QED
  BY <1>2, <1>4, <1>5, <1>6, <1>7, <1>8 DEF t, k

-----------------------------------------------------------------------------
(* The inductive invariant *)

PCs == {"test", "sethead", "link", "settail", "increment",
        "isempty", "clearhead", "cleartail", "advance", "decrement", "free"}

Things == Items \cup {NONE}

\* Types; one call at a time.
Typed ==
  /\ head \in Pointers /\ tail \in Pointers /\ count \in Int
  /\ next \in [Addresses -> Pointers]
  /\ item \in [Addresses -> Things]
  /\ allocated \subseteq Addresses
  /\ calls \in Seq([pc : PCs, node : Pointers]) /\ Len(calls) <= 1
  /\ status \in {"live", "removed", "crashed"}
  /\ before \in [list : Seq(Things), attached : BOOLEAN, count : Int]

\* head starts a list of nodes that are allocated.
Linked == IsList(head, next, Chain) /\ Nodes(Chain) \subseteq allocated

\* tail is the last node of the list, or a node that searchQueue has unlinked.
Placed ==
  /\ tail # NIL => tail \in allocated
  /\ Chain # <<>> => tail # NIL
  /\ tail \in Nodes(Chain) => tail = Chain[Len(Chain)]

\* The call in progress.
Node == Top.node

Adding ==
  /\ before = Seen /\ Placed
  /\ Node \in allocated \ Nodes(Chain) /\ item[Node] \in Items /\ next[Node] = NIL
  /\ count < MaxCount

\* The new node is linked, if a walk from head can reach it.
Added ==
  /\ before.count = count /\ count < MaxCount
  /\ Chain # <<>> /\ Node \in allocated /\ item[Node] \in Items
  /\ IF before.list = <<>> \/ before.attached
     THEN Chain[Len(Chain)] = Node /\ Seen.list = Append(before.list, item[Node])
     ELSE Node \notin Nodes(Chain) /\ Seen.list = before.list

Removing == before = Seen /\ Placed /\ Node = head

Cleared ==
  /\ Chain = <<>> /\ Node \in allocated /\ item[Node] = Head(before.list)
  /\ before.count = count /\ count # 0 /\ Len(before.list) = 1

\* The first node is unlinked and not yet freed.
Taken ==
  /\ Placed /\ Node \in allocated \ Nodes(Chain) /\ tail # Node
  /\ item[Node] = Head(before.list)
  /\ before.count # 0 /\ before.list # <<>>
  /\ Seen.list = Tail(before.list)
  /\ Seen.attached = (before.attached \/ Len(before.list) = 1)

InCall ==
  /\ Top.pc \in {"test", "sethead", "link"} => Adding
  /\ Top.pc = "sethead" => head = NIL
  /\ Top.pc = "link" => head # NIL
  /\ Top.pc = "settail" => Added
  /\ Top.pc = "increment" => Added /\ tail = Node
  /\ Top.pc \in {"isempty", "clearhead", "advance"} => Removing
  /\ Top.pc \in {"clearhead", "advance"} => count # 0 /\ head # NIL
  /\ Top.pc = "clearhead" => next[head] = NIL
  /\ Top.pc = "advance" => next[head] # NIL
  /\ Top.pc = "cleartail" => Cleared
  /\ Top.pc = "decrement" => Taken /\ before.count = count
  /\ Top.pc = "free" => Taken /\ before.count = count + 1

Inv ==
  /\ Typed
  /\ Linked
  /\ status = "crashed" => calls # <<>>
  /\ status = "removed" => calls = <<>>
  /\ status = "live" /\ calls = <<>> => Placed
  /\ status = "live" /\ calls # <<>> => InCall

-----------------------------------------------------------------------------
(* Lemmas of the steps *)

\* What is seen of a list, in the next state.
LEMMA NextList ==
  ASSUME NEW s, IsList(head', next', s)
  PROVE  /\ Chain' = s
         /\ Seen' = [list |-> Listed(item', s), attached |-> s = <<>> \/ tail' = s[Len(s)],
                     count |-> count']
<1>1. Chain' = s
  BY WalkMeetsList DEF Chain
<1> QED
  BY <1>1 DEF Seen, SeenIn, Listed

LEMMA ThisList ==
  ASSUME Typed, Linked
  PROVE  /\ Chain \in Seq(Addresses) /\ IsList(head, next, Chain)
         /\ Seen = [list |-> Listed(item, Chain),
                    attached |-> Chain = <<>> \/ tail = Chain[Len(Chain)], count |-> count]
         /\ Seen \in [list : Seq(Things), attached : BOOLEAN, count : Int]
         /\ Len(Seen.list) = Len(Chain) /\ Len(Chain) \in Nat
         /\ Seen.list = <<>> <=> Chain = <<>>
         /\ Chain = <<>> <=> head = NIL
         /\ Chain # <<>> => head \in Nodes(Chain) /\ head = Chain[1] /\ head \in Addresses
         /\ Nodes(Chain) \subseteq allocated /\ Nodes(Chain) \subseteq Addresses
<1>1. Chain \in Seq(Addresses) /\ IsList(head, next, Chain) /\ Nodes(Chain) \subseteq allocated
  BY DEF Linked, IsList
<1>2. Seen = [list |-> Listed(item, Chain),
              attached |-> Chain = <<>> \/ tail = Chain[Len(Chain)], count |-> count]
  BY DEF Seen, SeenIn, Listed
<1>3. /\ Listed(item, Chain) \in Seq(Things) /\ Len(Listed(item, Chain)) = Len(Chain)
      /\ Len(Chain) \in Nat
      /\ Listed(item, Chain) = <<>> <=> Chain = <<>>
  BY <1>1, ListedType DEF Typed
<1>4. Nodes(Chain) \subseteq Addresses /\ (Chain # <<>> => Chain[1] \in Nodes(Chain))
  BY <1>1, NodesOf
<1>5. /\ Chain = <<>> => head = NIL
      /\ Chain # <<>> => head = Chain[1]
  BY <1>1 DEF IsList
<1>6. NIL \notin Addresses
  BY LinkedQueueAssumption
<1> QED
  BY <1>1, <1>2, <1>3, <1>4, <1>5, <1>6 DEF Typed

\* The stack of calls, when a call is not interrupted.
LEMMA CallBegins ==
  ASSUME MaxDepth = 1, Typed, NEW pc \in PCs, NEW n \in Pointers, Begin(pc, n)
  PROVE  /\ calls = <<>> /\ status = "live" /\ before' = Seen
         /\ calls' \in Seq([pc : PCs, node : Pointers]) /\ Len(calls') = 1 /\ calls' # <<>>
         /\ Top'.pc = pc /\ Top'.node = n
<1>1. calls = <<>> /\ Len(calls) = 0
  <2>1. Len(calls) \in Nat /\ Len(calls) < 1
    BY LenProperties DEF Begin, Depth, Typed
  <2> QED
    BY <2>1, EmptySeq DEF Typed
<1>2. calls' = <<[pc |-> pc, node |-> n]>>
  BY <1>1 DEF Begin
<1>3. Len(calls') = 1 /\ Top' = [pc |-> pc, node |-> n]
  BY <1>2 DEF Top, Depth
<1>4. calls' \in Seq([pc : PCs, node : Pointers])
  BY <1>2
<1> QED
  BY <1>1, <1>2, <1>3, <1>4 DEF Begin, Depth

LEMMA CallGoesOn ==
  ASSUME Typed, NEW now, At(now), NEW pc \in PCs, Goto(pc)
  PROVE  /\ calls # <<>> /\ status = "live" /\ Top.pc = now /\ Top.node \in Pointers
         /\ calls' \in Seq([pc : PCs, node : Pointers]) /\ Len(calls') = 1 /\ calls' # <<>>
         /\ Top'.pc = pc /\ Top'.node = Top.node
<1>1. Len(calls) = 1 /\ calls # <<>> /\ Depth = 1
  <2>0. calls \in Seq([pc : PCs, node : Pointers]) /\ Len(calls) > 0 /\ Len(calls) <= 1
    BY DEF At, Depth, Typed
  <2>1. Len(calls) \in Nat /\ Len(calls) > 0 /\ Len(calls) <= 1
    BY <2>0, LenProperties
  <2>2. Len(calls) = 1
    <3>1. PICK n \in Nat : n = Len(calls)
      BY <2>1
    <3> QED
      BY <2>1, <3>1
  <2>3. calls # <<>>
    BY <2>2, EmptySeq
  <2> QED
    BY <2>2, <2>3 DEF Depth
<1>2. calls[1] \in [pc : PCs, node : Pointers] /\ Top = calls[1]
  <2>1. calls \in Seq([pc : PCs, node : Pointers]) /\ 1 \in 1..Len(calls)
    BY <1>1 DEF Typed
  <2>2. calls[1] \in [pc : PCs, node : Pointers]
    BY <2>1, ElementOfSeq
  <2> QED
    BY <1>1, <2>2 DEF Top
<1>3. calls' = [calls EXCEPT ![1] = [calls[1] EXCEPT !.pc = pc]]
  BY <1>1 DEF Goto
<1>4. [calls[1] EXCEPT !.pc = pc] \in [pc : PCs, node : Pointers]
  BY <1>2
<1>5. /\ calls' \in Seq([pc : PCs, node : Pointers]) /\ Len(calls') = 1
      /\ calls'[1] = [calls[1] EXCEPT !.pc = pc]
  BY <1>1, <1>3, <1>4, ExceptSeq DEF Typed
<1>6. Top' = calls'[1] /\ calls' # <<>>
  <2>1. Depth' = 1 /\ calls' # <<>>
    BY <1>5, EmptySeq DEF Depth
  <2> QED
    BY <2>1 DEF Top
<1> QED
  BY <1>1, <1>2, <1>5, <1>6 DEF At

LEMMA CallReturns ==
  ASSUME Typed, NEW now, At(now), NEW r, Return(r)
  PROVE  /\ calls # <<>> /\ status = "live" /\ Top.pc = now /\ Top.node \in Pointers
         /\ calls' = <<>> /\ calls' \in Seq([pc : PCs, node : Pointers]) /\ Len(calls') = 0
<1>1. Len(calls) = 1 /\ calls # <<>> /\ Depth = 1
  <2>0. calls \in Seq([pc : PCs, node : Pointers]) /\ Len(calls) > 0 /\ Len(calls) <= 1
    BY DEF At, Depth, Typed
  <2>1. Len(calls) \in Nat /\ Len(calls) > 0 /\ Len(calls) <= 1
    BY <2>0, LenProperties
  <2>2. Len(calls) = 1
    <3>1. PICK n \in Nat : n = Len(calls)
      BY <2>1
    <3> QED
      BY <2>1, <3>1
  <2>3. calls # <<>>
    BY <2>2, EmptySeq
  <2> QED
    BY <2>2, <2>3 DEF Depth
<1>2. calls[1] \in [pc : PCs, node : Pointers] /\ Top = calls[1]
  <2>1. calls \in Seq([pc : PCs, node : Pointers]) /\ 1 \in 1..Len(calls)
    BY <1>1 DEF Typed
  <2>2. calls[1] \in [pc : PCs, node : Pointers]
    BY <2>1, ElementOfSeq
  <2> QED
    BY <1>1, <2>2 DEF Top
<1>3. calls' = SubSeq(calls, 1, 0)
  BY <1>1 DEF Return
<1>4. calls' = <<>>
  BY <1>3, SubSeqEmpty
<1> QED
  BY <1>1, <1>2, <1>4 DEF At

\* enqueue and dequeue of QueueOps, field by field.
LEMMA EnqueueOf ==
  ASSUME NEW l, NEW a \in BOOLEAN, NEW c, NEW x
  PROVE  Promised!enqueue([list |-> l, attached |-> a, count |-> c], x)
           = [list |-> IF l = <<>> \/ a THEN Append(l, x) ELSE l,
              attached |-> a \/ l = <<>>, count |-> c + 1]
<1> DEFINE q == [list |-> l, attached |-> a, count |-> c]
           to == IF l = <<>> \/ a THEN Append(l, x) ELSE l
           at == a \/ l = <<>>
<1>1. Promised!enqueue(q, x) = [q EXCEPT !.list = to, !.attached = at, !.count = c + 1]
  BY DEF Promised!enqueue
<1>2. at \in BOOLEAN
  OBVIOUS
<1> HIDE DEF to, at
<1>3. [q EXCEPT !.list = to, !.attached = at, !.count = c + 1]
        = [list |-> to, attached |-> at, count |-> c + 1]
  <2>1. [q EXCEPT !.list = to] = [list |-> to, attached |-> a, count |-> c]
    OBVIOUS
  <2>2. [[list |-> to, attached |-> a, count |-> c] EXCEPT !.attached = at]
          = [list |-> to, attached |-> at, count |-> c]
    BY <1>2
  <2>3. [[list |-> to, attached |-> at, count |-> c] EXCEPT !.count = c + 1]
          = [list |-> to, attached |-> at, count |-> c + 1]
    BY <1>2
  <2> QED
    BY <2>1, <2>2, <2>3
<1> QED
  BY <1>1, <1>3 DEF to, at

LEMMA DequeueOf ==
  ASSUME NEW l, NEW a \in BOOLEAN, NEW c
  PROVE  Promised!dequeue([list |-> l, attached |-> a, count |-> c])
           = IF c = 0 THEN [list |-> l, attached |-> a, count |-> c]
             ELSE [list |-> Tail(l), attached |-> a \/ Len(l) = 1, count |-> c - 1]
BY DEF Promised!dequeue, Promised!isEmpty

\* What the caller sees: the queue when it called, until the call returns.
Shown == IF calls = <<>> THEN Seen ELSE before

LEMMA InitInv == Init => Inv
<1> SUFFICES ASSUME Init PROVE Inv
  OBVIOUS
<1>1. IsList(head, next, <<>>)
  BY ListOfNone DEF Init
<1>2. Chain = <<>> /\ Linked
  <2>1. Chain = <<>>
    BY <1>1, WalkMeetsList DEF Chain
  <2> QED
    BY <1>1, <2>1 DEF Linked, Nodes
<1>3. Seen = [list |-> <<>>, attached |-> TRUE, count |-> 0]
  <2>1. Seen.list = <<>>
    BY <1>2 DEF Seen, SeenIn
  <2> QED
    BY <1>2, <2>1 DEF Seen, SeenIn, Init
<1>4. Typed
  BY <1>3 DEF Init, Typed, Pointers, Things
<1>5. Placed
  BY <1>2 DEF Init, Placed, Nodes
<1> QED
  BY <1>2, <1>4, <1>5 DEF Init, Inv

-----------------------------------------------------------------------------
(* The steps of enqueue *)

LEMMA CallEnqueueInv ==
  ASSUME MaxDepth = 1, Inv, NEW x \in Items, CallEnqueue(x)
  PROVE  Inv' /\ Shown' = Shown /\ UNCHANGED <<ret, status>>
<1>1. PICK n \in Addresses \ allocated :
         /\ allocated' = allocated \cup {n}
         /\ item' = [item EXCEPT ![n] = x]
         /\ next' = [next EXCEPT ![n] = NIL]
         /\ Begin("test", n)
  BY DEF CallEnqueue
<1>2. count < MaxCount /\ UNCHANGED <<queue, ret, status>> /\ n \in Pointers /\ "test" \in PCs
  BY DEF CallEnqueue, Pointers, PCs
<1>3. /\ calls = <<>> /\ status = "live" /\ before' = Seen
      /\ calls' \in Seq([pc : PCs, node : Pointers]) /\ Len(calls') = 1 /\ calls' # <<>>
      /\ Top'.pc = "test" /\ Top'.node = n
  BY <1>1, <1>2, CallBegins DEF Inv
<1>4. Typed /\ Linked /\ Placed
  BY <1>3 DEF Inv
<1>5. n \notin Nodes(Chain) /\ Nodes(Chain) \subseteq Addresses /\ Chain \in Seq(Addresses)
  BY <1>4, ThisList
<1>6. next \in [Addresses -> Pointers] /\ item \in [Addresses -> Things]
  BY <1>4 DEF Typed
<1>7. IsList(head', next', Chain)
  <2>1. \A m \in Nodes(Chain) : next'[m] = next[m]
    BY <1>1, <1>5, <1>6
  <2> QED
    BY <1>2, <1>4, <2>1, ListElsewhere DEF Linked, queue
<1>8. Chain' = Chain /\ Linked'
  <2>1. Chain' = Chain
    BY <1>7, NextList
  <2>2. Nodes(Chain) \subseteq allocated'
    BY <1>1, <1>4 DEF Linked
  <2> QED
    BY <1>7, <2>1, <2>2 DEF Linked
<1>9. Seen' = Seen
  <2>1. \A m \in Nodes(Chain) : item'[m] = item[m]
    BY <1>1, <1>5, <1>6
  <2>2. Listed(item', Chain) = Listed(item, Chain)
    BY <1>5, <2>1, ListedElsewhere
  <2> QED
    BY <1>2, <1>4, <1>7, <2>2, NextList, ThisList DEF queue
<1>10. Typed'
  <2>1. item' \in [Addresses -> Things] /\ next' \in [Addresses -> Pointers]
    BY <1>1, <1>6 DEF Things, Pointers
  <2>2. before' \in [list : Seq(Things), attached : BOOLEAN, count : Int]
    BY <1>3, <1>4, ThisList
  <2> QED
    BY <1>1, <1>2, <1>3, <1>4, <2>1, <2>2 DEF Typed, queue
<1>11. Placed'
  BY <1>1, <1>2, <1>4, <1>8 DEF Placed, queue
<1>12. Adding'
  <2>1. item'[n] = x /\ next'[n] = NIL
    BY <1>1, <1>6
  <2> QED
    BY <1>1, <1>2, <1>3, <1>5, <1>8, <1>9, <1>11, <2>1 DEF Adding, Node, queue
<1>13. InCall'
  BY <1>3, <1>12 DEF InCall
<1>14. Inv'
  BY <1>2, <1>3, <1>8, <1>10, <1>13 DEF Inv
<1> QED
  BY <1>2, <1>3, <1>9, <1>14 DEF Shown

LEMMA EnqueueTestInv ==
  ASSUME Inv, EnqueueTest
  PROVE  Inv' /\ Shown' = Shown /\ UNCHANGED <<ret, status>>
<1> DEFINE pc == IF head = NIL THEN "sethead" ELSE "link"
<1>1. /\ At("test") /\ Goto(pc) /\ UNCHANGED <<queue, heap, ret, status, before>>
      /\ pc \in PCs /\ Typed /\ Linked
  BY DEF EnqueueTest, PCs, Inv
<1>2. /\ calls # <<>> /\ status = "live" /\ Top.pc = "test"
      /\ calls' \in Seq([pc : PCs, node : Pointers]) /\ Len(calls') = 1 /\ calls' # <<>>
      /\ Top'.pc = pc /\ Top'.node = Top.node
  BY <1>1, CallGoesOn
<1>3. Adding
  BY <1>2 DEF Inv, InCall
<1>4. Chain' = Chain /\ Seen' = Seen
  BY <1>1 DEF queue, heap, Chain, Seen, SeenIn
<1>5. Typed' /\ Linked'
  BY <1>1, <1>2, <1>4 DEF Typed, Linked, queue, heap
<1>6. Adding'
  BY <1>1, <1>2, <1>3, <1>4 DEF Adding, Placed, Node, queue, heap
<1>7. InCall'
  BY <1>1, <1>2, <1>6 DEF InCall, queue
<1> QED
  BY <1>1, <1>2, <1>5, <1>7 DEF Inv, Shown

LEMMA EnqueueHeadInv ==
  ASSUME Inv, EnqueueHead
  PROVE  Inv' /\ Shown' = Shown /\ UNCHANGED <<ret, status>>
<1>1. /\ At("sethead") /\ Goto("settail") /\ head' = Top.node
      /\ UNCHANGED <<tail, count, heap, ret, status, before>>
      /\ "settail" \in PCs /\ Typed /\ Linked
  BY DEF EnqueueHead, PCs, Inv
<1>2. /\ calls # <<>> /\ status = "live" /\ Top.pc = "sethead"
      /\ calls' \in Seq([pc : PCs, node : Pointers]) /\ Len(calls') = 1 /\ calls' # <<>>
      /\ Top'.pc = "settail" /\ Top'.node = Top.node
  BY <1>1, CallGoesOn
<1>3. Adding /\ head = NIL
  BY <1>2 DEF Inv, InCall
<1>4. Chain = <<>> /\ Seen.list = <<>> /\ before = Seen /\ before.count = count /\ count < MaxCount
  BY <1>1, <1>3, ThisList DEF Adding
<1>5. /\ Node \in allocated /\ Node \in Addresses /\ item[Node] \in Items /\ next[Node] = NIL
      /\ Node' = Node /\ head' = Node
  BY <1>1, <1>2, <1>3 DEF Adding, Node, Typed
<1>6. IsList(head', next', <<Node>>)
  BY <1>1, <1>5, ListOfOne DEF heap
<1>7. Chain' = <<Node>> /\ Seen'.list = Listed(item, <<Node>>)
  BY <1>1, <1>6, NextList DEF heap
<1>8. Seen'.list = Append(before.list, item[Node])
  <2>1. Listed(item, <<Node>>) = <<item[Node]>>
    BY <1>5 DEF Listed
  <2>2. Append(<<>>, item[Node]) = <<item[Node]>>
    OBVIOUS
  <2> QED
    BY <1>4, <1>7, <2>1, <2>2
<1>9. Linked'
  BY <1>1, <1>5, <1>6, <1>7 DEF Linked, Nodes, heap
<1>10. Typed'
  BY <1>1, <1>2, <1>5 DEF Typed, heap, Pointers
<1>11. Added'
  BY <1>1, <1>4, <1>5, <1>7, <1>8 DEF Added, heap
<1>12. InCall'
  BY <1>2, <1>11 DEF InCall
<1> QED
  BY <1>1, <1>2, <1>9, <1>10, <1>12 DEF Inv, Shown

LEMMA EnqueueLinkInv ==
  ASSUME Inv, EnqueueLink
  PROVE  Inv' /\ Shown' = Shown /\ UNCHANGED <<ret, status>>
<1>1. /\ At("link") /\ Goto("settail") /\ tail # NIL
      /\ next' = [next EXCEPT ![tail] = Top.node]
      /\ UNCHANGED <<queue, item, allocated, ret, status, before>>
      /\ "settail" \in PCs /\ Typed /\ Linked
  BY DEF EnqueueLink, PCs, Inv
<1>2. /\ calls # <<>> /\ status = "live" /\ Top.pc = "link"
      /\ calls' \in Seq([pc : PCs, node : Pointers]) /\ Len(calls') = 1 /\ calls' # <<>>
      /\ Top'.pc = "settail" /\ Top'.node = Top.node
  BY <1>1, CallGoesOn
<1>3. Adding /\ head # NIL
  BY <1>2 DEF Inv, InCall
<1>4. /\ Chain # <<>> /\ Seen.list # <<>> /\ before = Seen /\ before.count = count
      /\ count < MaxCount
      /\ Seen.list = Listed(item, Chain)
      /\ Seen.attached = (tail = Chain[Len(Chain)])
      /\ Chain \in Seq(Addresses) /\ IsList(head, next, Chain)
      /\ Nodes(Chain) \subseteq allocated
  BY <1>1, <1>3, ThisList DEF Adding
<1>5. /\ Node \in allocated \ Nodes(Chain) /\ Node \in Addresses
      /\ item[Node] \in Items /\ next[Node] = NIL
      /\ Node' = Node
      /\ next \in [Addresses -> Pointers] /\ item \in [Addresses -> Things]
      /\ next' = [next EXCEPT ![tail] = Node]
  BY <1>1, <1>2, <1>3 DEF Adding, Node, Typed
<1>6. Typed'
  BY <1>1, <1>2, <1>5 DEF Typed, queue, Pointers
<1>7. CASE tail = Chain[Len(Chain)]
  <2>1. IsList(head, [next EXCEPT ![Chain[Len(Chain)]] = Node], Append(Chain, Node))
    BY <1>4, <1>5, ListAppend
  <2>2. IsList(head', next', Append(Chain, Node))
    BY <1>1, <1>5, <1>7, <2>1 DEF queue
  <2>3. Chain' = Append(Chain, Node) /\ Seen'.list = Listed(item, Append(Chain, Node))
    <3>1. item' = item
      BY <1>1
    <3>2. Chain' = Append(Chain, Node)
      BY <2>2, NextList
    <3>3. Seen'.list = Listed(item', Append(Chain, Node))
      BY <2>2, NextList
    <3> QED
      BY <3>1, <3>2, <3>3
  <2>4. Seen'.list = Append(before.list, item[Node])
    <3>1. Listed(item, Append(Chain, Node)) = Append(Listed(item, Chain), item[Node])
      BY <1>4, <1>5, ListedAppend
    <3> QED
      BY <1>4, <2>3, <3>1
  <2>5. Chain' # <<>> /\ Chain'[Len(Chain')] = Node
    BY <1>4, <1>5, <2>3, Appended
  <2>6. Linked'
    <3>1. Nodes(Append(Chain, Node)) = Nodes(Chain) \cup {Node}
      BY <1>4, <1>5, NodesOf
    <3> QED
      BY <1>1, <1>4, <1>5, <2>2, <2>3, <3>1 DEF Linked
  <2>7. Added'
    BY <1>1, <1>4, <1>5, <1>7, <2>4, <2>5 DEF Added, queue
  <2> QED
    BY <1>1, <1>2, <1>6, <2>6, <2>7 DEF Inv, InCall, Shown
<1>8. CASE tail # Chain[Len(Chain)]
  <2>1. tail \notin Nodes(Chain)
    BY <1>3, <1>8 DEF Adding, Placed
  <2>2. \A m \in Nodes(Chain) : next'[m] = next[m]
    <3>1. Nodes(Chain) \subseteq Addresses
      BY <1>4, NodesOf
    <3> QED
      BY <1>5, <2>1, <3>1
  <2>3. IsList(head', next', Chain)
    BY <1>1, <1>4, <2>2, ListElsewhere DEF queue
  <2>4. Chain' = Chain /\ Seen'.list = Listed(item, Chain)
    <3>1. item' = item
      BY <1>1
    <3>2. Chain' = Chain /\ Seen'.list = Listed(item', Chain)
      BY <2>3, NextList
    <3> QED
      BY <3>1, <3>2
  <2>5. Linked'
    BY <1>1, <1>4, <2>3, <2>4 DEF Linked
  <2>6. Added'
    BY <1>1, <1>4, <1>5, <1>8, <2>4 DEF Added, queue
  <2> QED
    BY <1>1, <1>2, <1>6, <2>5, <2>6 DEF Inv, InCall, Shown
<1> QED
  BY <1>7, <1>8

LEMMA EnqueueTailInv ==
  ASSUME Inv, EnqueueTail
  PROVE  Inv' /\ Shown' = Shown /\ UNCHANGED <<ret, status>>
<1>1. /\ At("settail") /\ Goto("increment") /\ tail' = Top.node
      /\ UNCHANGED <<head, count, heap, ret, status, before>>
      /\ "increment" \in PCs /\ Typed /\ Linked
  BY DEF EnqueueTail, PCs, Inv
<1>2. /\ calls # <<>> /\ status = "live" /\ Top.pc = "settail" /\ Top.node \in Pointers
      /\ calls' \in Seq([pc : PCs, node : Pointers]) /\ Len(calls') = 1 /\ calls' # <<>>
      /\ Top'.pc = "increment" /\ Top'.node = Top.node
  BY <1>1, CallGoesOn
<1>3. Added
  BY <1>2 DEF Inv, InCall
<1>4. Chain' = Chain /\ Seen'.list = Seen.list
  BY <1>1 DEF heap, Chain, Seen, SeenIn
<1>5. Typed' /\ Linked'
  BY <1>1, <1>2, <1>4 DEF Typed, Linked, heap
<1>6. Added' /\ tail' = Node'
  BY <1>1, <1>2, <1>3, <1>4 DEF Added, Node, heap
<1>7. InCall'
  BY <1>2, <1>6 DEF InCall
<1> QED
  BY <1>1, <1>2, <1>5, <1>7 DEF Inv, Shown

\* enqueue takes effect when it returns.
LEMMA EnqueueCountInv ==
  ASSUME Inv, EnqueueCount
  PROVE  /\ Inv' /\ status = "live" /\ UNCHANGED status /\ ret' = NONE
         /\ item[Node] \in Items /\ Shown.count < MaxCount
         /\ Shown' = Promised!enqueue(Shown, item[Node])
<1>1. /\ At("increment") /\ Return(NONE) /\ count' = count + 1
      /\ UNCHANGED <<head, tail, heap, status, before>> /\ ret' = NONE
      /\ Typed /\ Linked
  BY DEF EnqueueCount, Return, Inv
<1>2. /\ calls # <<>> /\ status = "live" /\ Top.pc = "increment"
      /\ calls' = <<>> /\ calls' \in Seq([pc : PCs, node : Pointers]) /\ Len(calls') = 0
  BY <1>1, CallReturns
<1>3. Added /\ tail = Node
  BY <1>2 DEF Inv, InCall
<1>4. Chain' = Chain /\ Seen'.list = Seen.list
  BY <1>1 DEF heap, Chain, Seen, SeenIn
<1>5. Typed' /\ Linked'
  BY <1>1, <1>2, <1>4 DEF Typed, Linked, heap
<1>6. tail \in allocated /\ tail # NIL /\ (tail \in Nodes(Chain) => tail = Chain[Len(Chain)])
  <2>1. Node \in Addresses
    BY <1>1, <1>3 DEF Added, Typed
  <2> QED
    BY <1>3, <2>1, LinkedQueueAssumption DEF Added
<1>7. Placed'
  BY <1>1, <1>4, <1>6 DEF Placed, heap
<1>8. Inv'
  BY <1>1, <1>2, <1>5, <1>7 DEF Inv
<1>9. Seen'.attached = (before.list = <<>> \/ before.attached)
  <2>1. Seen'.attached = (tail = Chain[Len(Chain)])
    BY <1>1, <1>3, <1>4 DEF Seen, SeenIn, Added, heap
  <2>2. Chain \in Seq(Addresses) /\ Chain[Len(Chain)] \in Nodes(Chain)
    BY <1>1, <1>3, ThisList, NodesOf DEF Added
  <2>3. before.attached \in BOOLEAN
    BY <1>1 DEF Typed
  <2> QED
    BY <1>3, <2>1, <2>2, <2>3 DEF Added
<1>10. Seen' = [list |-> Seen'.list, attached |-> Seen'.attached, count |-> count + 1]
  BY <1>1 DEF Seen, SeenIn
<1>11. Shown' = Promised!enqueue(before, item[Node])
  <2>1. before = [list |-> before.list, attached |-> before.attached, count |-> before.count]
    BY <1>1 DEF Typed
  <2>2. Promised!enqueue(before, item[Node])
          = [list |-> IF before.list = <<>> \/ before.attached
                      THEN Append(before.list, item[Node]) ELSE before.list,
             attached |-> before.attached \/ before.list = <<>>,
             count |-> before.count + 1]
    <3>1. before.attached \in BOOLEAN
      BY <1>1 DEF Typed
    <3> QED
      BY <2>1, <3>1, EnqueueOf
  <2>3. Seen'.list = IF before.list = <<>> \/ before.attached
                     THEN Append(before.list, item[Node]) ELSE before.list
    BY <1>3, <1>4 DEF Added
  <2>4. before.count = count
    BY <1>3 DEF Added
  <2> QED
    BY <1>2, <1>9, <1>10, <2>2, <2>3, <2>4 DEF Shown
<1> QED
  BY <1>1, <1>2, <1>3, <1>8, <1>11 DEF Shown, Added

-----------------------------------------------------------------------------
(* The steps of dequeue *)

LEMMA CallDequeueInv ==
  ASSUME MaxDepth = 1, Inv, CallDequeue
  PROVE  Inv' /\ Shown' = Shown /\ UNCHANGED <<ret, status>>
<1>1. /\ Begin("isempty", head) /\ UNCHANGED <<queue, heap, ret, status>>
      /\ head \in Pointers /\ "isempty" \in PCs
  BY DEF CallDequeue, PCs, Inv, Typed
<1>2. /\ calls = <<>> /\ status = "live" /\ before' = Seen
      /\ calls' \in Seq([pc : PCs, node : Pointers]) /\ Len(calls') = 1 /\ calls' # <<>>
      /\ Top'.pc = "isempty" /\ Top'.node = head
  BY <1>1, CallBegins DEF Inv
<1>3. Typed /\ Linked /\ Placed
  BY <1>2 DEF Inv
<1>4. Chain' = Chain /\ Seen' = Seen
  BY <1>1 DEF queue, heap, Chain, Seen, SeenIn
<1>5. Typed'
  <2>1. before' \in [list : Seq(Things), attached : BOOLEAN, count : Int]
    BY <1>2, <1>3, ThisList
  <2> QED
    BY <1>1, <1>2, <1>3, <2>1 DEF Typed, queue, heap
<1>6. Linked' /\ Placed'
  BY <1>1, <1>3, <1>4 DEF Linked, Placed, queue, heap
<1>7. Removing'
  BY <1>1, <1>2, <1>4, <1>6 DEF Removing, Node, queue
<1> QED
  BY <1>1, <1>2, <1>4, <1>5, <1>6, <1>7 DEF Inv, InCall, Shown

\* isEmpty goes by count alone.
LEMMA DequeueEmptyInv ==
  ASSUME Inv, DequeueEmpty
  PROVE  /\ Inv' /\ status = "live" /\ UNCHANGED status
         /\ ~Promised!DequeueFaults(Shown) /\ ret' = Promised!Dequeued(Shown)
         /\ Shown' = Promised!dequeue(Shown)
<1>1. /\ At("isempty") /\ count = 0 /\ Return(NONE)
      /\ UNCHANGED <<queue, heap, status, before>> /\ ret' = NONE
      /\ Typed /\ Linked
  BY DEF DequeueEmpty, Return, Inv
<1>2. /\ calls # <<>> /\ status = "live" /\ Top.pc = "isempty"
      /\ calls' = <<>> /\ calls' \in Seq([pc : PCs, node : Pointers]) /\ Len(calls') = 0
  BY <1>1, CallReturns
<1>3. before = Seen /\ Placed
  BY <1>2 DEF Inv, InCall, Removing
<1>4. Chain' = Chain /\ Seen' = Seen
  BY <1>1 DEF queue, heap, Chain, Seen, SeenIn
<1>5. Typed' /\ Linked' /\ Placed'
  BY <1>1, <1>2, <1>3, <1>4 DEF Typed, Linked, Placed, queue, heap
<1>6. Inv'
  BY <1>1, <1>2, <1>5 DEF Inv
<1>7. before.count = 0
  BY <1>1, <1>3, ThisList
<1> QED
  BY <1>1, <1>2, <1>3, <1>4, <1>6, <1>7
  DEF Shown, Promised!DequeueFaults, Promised!Dequeued, Promised!dequeue, Promised!isEmpty

LEMMA DequeueTestInv ==
  ASSUME Inv, DequeueTest
  PROVE  Inv' /\ Shown' = Shown /\ UNCHANGED <<ret, status>>
<1> DEFINE pc == IF next[head] = NIL THEN "clearhead" ELSE "advance"
<1>1. /\ At("isempty") /\ Goto(pc) /\ count # 0 /\ head # NIL
      /\ UNCHANGED <<queue, heap, ret, status, before>>
      /\ pc \in PCs /\ Typed /\ Linked
  BY DEF DequeueTest, PCs, Inv
<1>2. /\ calls # <<>> /\ status = "live" /\ Top.pc = "isempty"
      /\ calls' \in Seq([pc : PCs, node : Pointers]) /\ Len(calls') = 1 /\ calls' # <<>>
      /\ Top'.pc = pc /\ Top'.node = Top.node
  BY <1>1, CallGoesOn
<1>3. Removing
  BY <1>2 DEF Inv, InCall
<1>4. Chain' = Chain /\ Seen' = Seen
  BY <1>1 DEF queue, heap, Chain, Seen, SeenIn
<1>5. Typed' /\ Linked'
  BY <1>1, <1>2, <1>4 DEF Typed, Linked, queue, heap
<1>6. Removing'
  BY <1>1, <1>2, <1>3, <1>4 DEF Removing, Placed, Node, queue, heap
<1>7. InCall'
  BY <1>1, <1>2, <1>6 DEF InCall, queue, heap
<1> QED
  BY <1>1, <1>2, <1>5, <1>7 DEF Inv, Shown

LEMMA DequeueClearHeadInv ==
  ASSUME Inv, DequeueClearHead
  PROVE  Inv' /\ Shown' = Shown /\ UNCHANGED <<ret, status>>
<1>1. /\ At("clearhead") /\ Goto("cleartail") /\ head' = NIL
      /\ UNCHANGED <<tail, count, heap, ret, status, before>>
      /\ "cleartail" \in PCs /\ Typed /\ Linked
  BY DEF DequeueClearHead, PCs, Inv
<1>2. /\ calls # <<>> /\ status = "live" /\ Top.pc = "clearhead"
      /\ calls' \in Seq([pc : PCs, node : Pointers]) /\ Len(calls') = 1 /\ calls' # <<>>
      /\ Top'.pc = "cleartail" /\ Top'.node = Top.node
  BY <1>1, CallGoesOn
<1>3. Removing /\ count # 0 /\ head # NIL /\ next[head] = NIL
  BY <1>2 DEF Inv, InCall
<1>4. /\ Chain # <<>> /\ before = Seen /\ Node = head /\ Node' = Node
      /\ Chain \in Seq(Addresses) /\ IsList(head, next, Chain)
      /\ Seen.list = Listed(item, Chain) /\ Len(Seen.list) = Len(Chain) /\ Seen.count = count
      /\ head \in allocated /\ head = Chain[1] /\ item \in [Addresses -> Things]
  BY <1>1, <1>2, <1>3, ThisList DEF Removing, Node, Typed
<1>5. Len(Chain) = 1
  BY <1>3, <1>4, FirstIsApart
<1>6. Head(Seen.list) = item[head]
  BY <1>4, ListedTail
<1>7. IsList(head', next', <<>>)
  BY <1>1, ListOfNone
<1>8. Chain' = <<>>
  BY <1>7, NextList
<1>9. Linked'
  BY <1>7, <1>8 DEF Linked, Nodes
<1>10. Typed'
  BY <1>1, <1>2 DEF Typed, heap, Pointers
<1>11. Cleared'
  BY <1>1, <1>3, <1>4, <1>5, <1>6, <1>8 DEF Cleared, heap
<1> QED
  BY <1>1, <1>2, <1>9, <1>10, <1>11 DEF Inv, InCall, Shown

LEMMA DequeueClearTailInv ==
  ASSUME Inv, DequeueClearTail
  PROVE  Inv' /\ Shown' = Shown /\ UNCHANGED <<ret, status>>
<1>1. /\ At("cleartail") /\ Goto("decrement") /\ tail' = NIL
      /\ UNCHANGED <<head, count, heap, ret, status, before>>
      /\ "decrement" \in PCs /\ Typed /\ Linked
  BY DEF DequeueClearTail, PCs, Inv
<1>2. /\ calls # <<>> /\ status = "live" /\ Top.pc = "cleartail"
      /\ calls' \in Seq([pc : PCs, node : Pointers]) /\ Len(calls') = 1 /\ calls' # <<>>
      /\ Top'.pc = "decrement" /\ Top'.node = Top.node
  BY <1>1, CallGoesOn
<1>3. Cleared
  BY <1>2 DEF Inv, InCall
<1>4. Chain' = Chain /\ Chain' = <<>> /\ Node' = Node
  BY <1>1, <1>2, <1>3 DEF Chain, Cleared, heap, Node
<1>5. Seen'.list = <<>> /\ Seen'.attached = TRUE
  <2>1. Seen'.attached = (Chain' = <<>> \/ tail' = Chain'[Len(Chain')])
    BY DEF Seen, SeenIn
  <2>2. Seen'.list = [i \in DOMAIN Chain' |-> item'[Chain'[i]]]
    BY DEF Seen, SeenIn
  <2>3. DOMAIN Chain' = {}
    BY <1>4
  <2>4. [i \in {} |-> item'[Chain'[i]]] = <<>>
    OBVIOUS
  <2> QED
    BY <1>4, <2>1, <2>2, <2>3, <2>4
<1>6. Tail(before.list) = <<>> /\ before.list # <<>>
  <2>1. before.list \in Seq(Things) /\ Len(before.list) = 1
    BY <1>1, <1>3 DEF Typed, Cleared
  <2>2. before.list # <<>>
    <3> SUFFICES ASSUME before.list = <<>> PROVE FALSE
      OBVIOUS
    <3>1. Len(before.list) = 0
      BY EmptySeq
    <3>2. PICK n \in Nat : n = Len(before.list)
      BY <3>1
    <3> QED
      BY <2>1, <3>1, <3>2
  <2>3. Tail(before.list) \in Seq(Things) /\ Len(Tail(before.list)) = 0
    BY <2>1, <2>2, Tailed
  <2> QED
    BY <2>2, <2>3, EmptySeq
<1>7. Typed' /\ Linked'
  BY <1>1, <1>2, <1>4 DEF Typed, Linked, heap, Pointers
<1>8. Nodes(<<>>) = {}
  BY DEF Nodes
<1>9. Placed'
  BY <1>1, <1>4, <1>8 DEF Placed
<1>10. Node \in allocated /\ Node # NIL
  BY <1>1, <1>3, LinkedQueueAssumption DEF Cleared, Typed
<1>11. Taken'
  BY <1>1, <1>3, <1>4, <1>5, <1>6, <1>8, <1>9, <1>10 DEF Taken, Cleared, heap
<1>12. before'.count = count'
  BY <1>1, <1>3 DEF Cleared
<1> QED
  BY <1>1, <1>2, <1>7, <1>11, <1>12 DEF Inv, InCall, Shown

LEMMA DequeueAdvanceInv ==
  ASSUME Inv, DequeueAdvance
  PROVE  Inv' /\ Shown' = Shown /\ UNCHANGED <<ret, status>>
<1>1. /\ At("advance") /\ Goto("decrement") /\ head' = next[head]
      /\ UNCHANGED <<tail, count, heap, ret, status, before>>
      /\ "decrement" \in PCs /\ Typed /\ Linked
  BY DEF DequeueAdvance, PCs, Inv
<1>2. /\ calls # <<>> /\ status = "live" /\ Top.pc = "advance"
      /\ calls' \in Seq([pc : PCs, node : Pointers]) /\ Len(calls') = 1 /\ calls' # <<>>
      /\ Top'.pc = "decrement" /\ Top'.node = Top.node
  BY <1>1, CallGoesOn
<1>3. Removing /\ Placed /\ count # 0 /\ head # NIL /\ next[head] # NIL
  BY <1>2 DEF Inv, InCall, Removing
<1>4. /\ Chain # <<>> /\ before = Seen /\ Node = head /\ Node' = Node
      /\ Chain \in Seq(Addresses) /\ IsList(head, next, Chain)
      /\ Seen = [list |-> Listed(item, Chain), attached |-> tail = Chain[Len(Chain)],
                 count |-> count]
      /\ Len(Seen.list) = Len(Chain) /\ Seen.list # <<>>
      /\ head \in Nodes(Chain) /\ head = Chain[1] /\ item \in [Addresses -> Things]
      /\ Nodes(Chain) \subseteq allocated /\ head \in Addresses
      /\ next \in [Addresses -> Pointers]
  BY <1>1, <1>2, <1>3, ThisList DEF Removing, Node, Typed
<1> DEFINE t == Tail(Chain)
<1>5. /\ head \notin Nodes(t) /\ t # <<>> /\ Len(Chain) # 1
      /\ t[Len(t)] = Chain[Len(Chain)] /\ Chain[Len(Chain)] # head
  <2>1. /\ head \notin Nodes(t)
        /\ next[head] = NIL <=> t = <<>>
        /\ t # <<>> => t[Len(t)] = Chain[Len(Chain)] /\ Chain[Len(Chain)] # head
        /\ t = <<>> <=> Len(Chain) = 1
    <3>1. IsList(head, next, Chain) /\ Chain # <<>>
      BY <1>4
    <3>2. /\ head \notin Nodes(Tail(Chain))
          /\ next[head] = NIL <=> Tail(Chain) = <<>>
          /\ Tail(Chain) # <<>> => /\ Tail(Chain)[Len(Tail(Chain))] = Chain[Len(Chain)]
                                   /\ Chain[Len(Chain)] # head
          /\ Tail(Chain) = <<>> <=> Len(Chain) = 1
      BY ONLY <3>1, FirstIsApart
    <3> QED
      BY <3>2
  <2> HIDE DEF t
  <2> QED
    BY <1>3, <2>1
<1>6. IsList(head', next', t)
  BY <1>1, <1>4, ListTail DEF heap
<1>7. Nodes(t) \subseteq Nodes(Chain)
  BY <1>4, NodesOf
<1> HIDE DEF t
<1>8. Chain' = t /\ Seen'.list = Listed(item, t) /\ Seen'.attached = (tail = t[Len(t)])
  <2>1. item' = item /\ tail' = tail
    BY <1>1 DEF heap
  <2>2. Chain' = t
    BY <1>6, NextList
  <2>3. Seen'.list = Listed(item', t) /\ Seen'.attached = (t = <<>> \/ tail' = t[Len(t)])
    BY <1>6, NextList
  <2> QED
    BY <1>5, <2>1, <2>2, <2>3
<1>9. Seen'.list = Tail(before.list) /\ Head(before.list) = item[head]
  BY <1>4, <1>8, ListedTail DEF t
<1>10. Seen'.attached = (before.attached \/ Len(before.list) = 1)
  BY <1>4, <1>5, <1>8
<1>11. Linked'
  BY <1>1, <1>4, <1>6, <1>7, <1>8 DEF Linked, heap
<1>12. Typed'
  BY <1>1, <1>2, <1>4 DEF Typed, heap
<1>13. Placed'
  BY <1>1, <1>3, <1>4, <1>5, <1>7, <1>8 DEF Placed, heap
<1>14. tail # head
  BY <1>3, <1>4, <1>5 DEF Placed
<1>15. Taken'
  BY <1>1, <1>3, <1>4, <1>5, <1>8, <1>9, <1>10, <1>13, <1>14 DEF Taken, heap
<1>16. before'.count = count'
  BY <1>1, <1>4
<1> QED
  BY <1>1, <1>2, <1>11, <1>12, <1>15, <1>16 DEF Inv, InCall, Shown

LEMMA DequeueCountInv ==
  ASSUME Inv, DequeueCount
  PROVE  Inv' /\ Shown' = Shown /\ UNCHANGED <<ret, status>>
<1>1. /\ At("decrement") /\ Goto("free") /\ count' = count - 1
      /\ UNCHANGED <<head, tail, heap, ret, status, before>>
      /\ "free" \in PCs /\ Typed /\ Linked
  BY DEF DequeueCount, PCs, Inv
<1>2. /\ calls # <<>> /\ status = "live" /\ Top.pc = "decrement"
      /\ calls' \in Seq([pc : PCs, node : Pointers]) /\ Len(calls') = 1 /\ calls' # <<>>
      /\ Top'.pc = "free" /\ Top'.node = Top.node
  BY <1>1, CallGoesOn
<1>3. Taken /\ before.count = count
  BY <1>2 DEF Inv, InCall
<1>4. Chain' = Chain /\ Seen'.list = Seen.list /\ Seen'.attached = Seen.attached
  BY <1>1 DEF heap, Chain, Seen, SeenIn
<1>5. Typed' /\ Linked'
  BY <1>1, <1>2, <1>4 DEF Typed, Linked, heap
<1>6. Taken'
  BY <1>1, <1>2, <1>3, <1>4 DEF Taken, Placed, Node, heap
<1>7. before'.count = count' + 1
  BY <1>1, <1>3 DEF Typed
<1> QED
  BY <1>1, <1>2, <1>5, <1>6, <1>7 DEF Inv, InCall, Shown

\* dequeue takes effect when it returns.
LEMMA DequeueFreeInv ==
  ASSUME Inv, DequeueFree
  PROVE  /\ Inv' /\ status = "live" /\ UNCHANGED status
         /\ ~Promised!DequeueFaults(Shown) /\ ret' = Promised!Dequeued(Shown)
         /\ Shown' = Promised!dequeue(Shown)
<1>1. /\ At("free") /\ Return(item[Top.node]) /\ allocated' = allocated \ {Node}
      /\ UNCHANGED <<queue, next, item, status, before>> /\ ret' = item[Node]
      /\ Typed /\ Linked
  BY DEF DequeueFree, Return, Inv, Node
<1>2. /\ calls # <<>> /\ status = "live" /\ Top.pc = "free"
      /\ calls' = <<>> /\ calls' \in Seq([pc : PCs, node : Pointers]) /\ Len(calls') = 0
  BY <1>1, CallReturns
<1>3. Taken /\ before.count = count + 1
  BY <1>2 DEF Inv, InCall
<1>4. Chain' = Chain /\ Seen' = Seen
  BY <1>1 DEF queue, Chain, Seen, SeenIn
<1>5. Typed' /\ Linked' /\ Placed'
  BY <1>1, <1>2, <1>3, <1>4 DEF Typed, Linked, Placed, Taken, queue
<1>6. Inv'
  BY <1>1, <1>2, <1>5 DEF Inv
<1>7. /\ before = [list |-> before.list, attached |-> before.attached, count |-> before.count]
      /\ before.attached \in BOOLEAN /\ before.count # 0 /\ before.count \in Int
      /\ count = before.count - 1
  BY <1>1, <1>3 DEF Typed, Taken
<1>8. Promised!dequeue(before)
        = [list |-> Tail(before.list), attached |-> before.attached \/ Len(before.list) = 1,
           count |-> before.count - 1]
  BY <1>7, DequeueOf
<1>9. Seen = [list |-> Tail(before.list), attached |-> before.attached \/ Len(before.list) = 1,
              count |-> before.count - 1]
  <2>1. Seen = [list |-> Seen.list, attached |-> Seen.attached, count |-> count]
    BY DEF Seen, SeenIn
  <2> QED
    BY <1>3, <1>7, <2>1 DEF Taken
<1>10. Shown' = Promised!dequeue(before)
  BY <1>2, <1>4, <1>8, <1>9 DEF Shown
<1>11. ret' = Head(before.list) /\ before.list # <<>>
  BY <1>1, <1>3 DEF Taken
<1> QED
  BY <1>1, <1>2, <1>6, <1>7, <1>10, <1>11
  DEF Shown, Promised!DequeueFaults, Promised!Dequeued, Promised!isEmpty

-----------------------------------------------------------------------------
(* searchQueue *)

LEMMA Least ==
  ASSUME NEW S, S \subseteq Nat, S # {}
  PROVE  \E i \in S : \A j \in S : i <= j
<1>1. IsWellFoundedOn({ss \in Nat \X Nat : ss[1] < ss[2]}, Nat)
  BY NatLessThanWellFounded DEF OpToRel
<1>2. PICK i \in S : \A j \in S : ~(<<j, i>> \in {ss \in Nat \X Nat : ss[1] < ss[2]})
  BY <1>1, WFMin
<1>3. ASSUME NEW j \in S PROVE i <= j
  <2>1. i \in Nat /\ j \in Nat
    OBVIOUS
  <2>2. j < i => <<j, i>> \in {ss \in Nat \X Nat : ss[1] < ss[2]}
    BY <2>1
  <2> QED
    BY <1>2, <2>1, <2>2
<1> QED
  BY <1>3

\* The nodes with item x, and the first of them.
Found(x) == {i \in 1..Len(Chain) : item[Chain[i]] = x}

LEMMA Matches ==
  ASSUME Typed, Linked, NEW x
  PROVE  /\ DOMAIN Chain = 1..Len(Chain) /\ Len(Chain) \in Nat
         /\ \A i \in 1..Len(Chain) : MatchAt(i, x) <=> i \in Found(x) /\ \A j \in Found(x) : i <= j
         /\ Found(x) # {} <=> \E i \in 1..Len(Chain) : MatchAt(i, x)
<1>1. DOMAIN Chain = 1..Len(Chain) /\ Len(Chain) \in Nat
  BY ThisList, LenProperties
<1>2. ASSUME NEW i \in 1..Len(Chain)
      PROVE  MatchAt(i, x) <=> i \in Found(x) /\ \A j \in Found(x) : i <= j
  <2>1. \A j \in 1..(i - 1) : j \in 1..Len(Chain) /\ ~(i <= j)
    BY <1>1
  <2>2. \A j \in 1..Len(Chain) : i <= j \/ j \in 1..(i - 1)
    BY <1>1
  <2> QED
    BY <2>1, <2>2 DEF MatchAt, Found
<1>3. Found(x) # {} => \E i \in Found(x) : \A j \in Found(x) : i <= j
  <2>1. Found(x) \subseteq Nat
    BY <1>1 DEF Found
  <2> QED
    BY <2>1, Least
<1>4. Found(x) \subseteq 1..Len(Chain)
  BY DEF Found
<1> QED
  BY <1>1, <1>2, <1>3, <1>4

\* Both sides look for the same node.
LEMMA SamePosition ==
  ASSUME Typed, Linked, NEW x
  PROVE  /\ ~(\E i \in DOMAIN Chain : MatchAt(i, x)) => Promised!PositionOf(Seen, {x}) = 0
         /\ (\E i \in DOMAIN Chain : MatchAt(i, x))
              => /\ Promised!PositionOf(Seen, {x}) \in 1..Len(Chain)
                 /\ (CHOOSE j \in DOMAIN Chain : MatchAt(j, x)) = Promised!PositionOf(Seen, {x})
<1>1. /\ DOMAIN Chain = 1..Len(Chain) /\ Len(Chain) \in Nat
      /\ \A i \in 1..Len(Chain) : MatchAt(i, x) <=> i \in Found(x) /\ \A j \in Found(x) : i <= j
      /\ Found(x) # {} <=> \E i \in 1..Len(Chain) : MatchAt(i, x)
  BY Matches
<1>2. {i \in DOMAIN Seen.list : Seen.list[i] \in {x}} = Found(x)
  <2>1. Seen.list = [i \in DOMAIN Chain |-> item[Chain[i]]]
    BY DEF Seen, SeenIn
  <2>2. DOMAIN Seen.list = 1..Len(Chain) /\ \A i \in 1..Len(Chain) : Seen.list[i] = item[Chain[i]]
    BY <1>1, <2>1
  <2> QED
    BY <2>2 DEF Found
<1>3. Promised!PositionOf(Seen, {x})
        = IF Found(x) = {} THEN 0
          ELSE CHOOSE i \in Found(x) : \A j \in Found(x) : i <= j
  <2> DEFINE F == {i \in DOMAIN Seen.list : Seen.list[i] \in {x}}
  <2>1. Promised!PositionOf(Seen, {x})
          = IF F = {} THEN 0 ELSE CHOOSE i \in F : \A j \in F : i <= j
    BY Zenon DEF Promised!PositionOf
  <2>2. F = Found(x)
    BY <1>2
  <2> HIDE DEF F
  <2> QED
    BY ONLY <2>1, <2>2
<1>4. CASE Found(x) = {}
  BY <1>1, <1>3, <1>4
<1>5. CASE Found(x) # {}
  <2> DEFINE p == CHOOSE i \in Found(x) : \A j \in Found(x) : i <= j
             r == CHOOSE j \in DOMAIN Chain : MatchAt(j, x)
  <2>1. Found(x) \subseteq 1..Len(Chain)
    BY DEF Found
  <2>2. \E i \in 1..Len(Chain) : MatchAt(i, x)
    BY <1>1, <1>5
  <2>3. r \in 1..Len(Chain) /\ MatchAt(r, x)
    BY <1>1, <2>2
  <2>4. \E i \in Found(x) : \A j \in Found(x) : i <= j
    BY <1>1, <2>2
  <2>5. p \in Found(x) /\ \A j \in Found(x) : p <= j
    BY <2>4
  <2>6. Promised!PositionOf(Seen, {x}) = p
    BY <1>3, <1>5
  <2> HIDE DEF p, r
  <2>7. r \in Found(x) /\ \A j \in Found(x) : r <= j
    BY <1>1, <2>3
  <2>8. p = r
    <3>1. p \in Nat /\ r \in Nat /\ p <= r /\ r <= p
      BY <1>1, <2>1, <2>5, <2>7
    <3> QED
      BY <3>1
  <2> QED
    BY <1>1, <2>2, <2>3, <2>6, <2>8 DEF r
<1> QED
  BY <1>4, <1>5

\* The last node of a list from which one that is not the first is cut out.
LEMMA CutEnds ==
  ASSUME NEW h, NEW nx, NEW s, IsList(h, nx, s), NEW c \in 2..Len(s)
  PROVE  /\ Cut(s, c) # <<>> /\ s # <<>> /\ s[c - 1] \in Nodes(s) /\ s[c - 1] # s[c]
         /\ s[c] \notin Nodes(Cut(s, c))
         /\ c # Len(s) => Cut(s, c)[Len(Cut(s, c))] = s[Len(s)]
         /\ c = Len(s) => Cut(s, c)[Len(Cut(s, c))] = s[c - 1]
<1> DEFINE t == Cut(s, c)
           k == Len(s)
<1>0. k \in Nat /\ c \in 1..k /\ c \in 2..k /\ s \in Seq(Addresses)
  BY ListLength DEF IsList
<1>1. /\ t \in Seq(Addresses) /\ k \in Nat \ {0} /\ Len(t) = k - 1
      /\ \A j \in 1..(k - 1) : t[j] = IF j < c THEN s[j] ELSE s[j + 1]
  BY <1>0, CutOut
<1>2. \A i, j \in 1..k : s[i] = s[j] => i = j
  BY DEF IsList
<1> HIDE DEF t, k
<1>3. t # <<>>
  <2>1. Len(t) # 0
    BY <1>0, <1>1
  <2> QED
    BY <2>1, EmptySeq
<1>4. c - 1 \in 1..k /\ c - 1 # c
  BY <1>0
<1>5. ASSUME NEW j \in 1..Len(t), t[j] = s[c] PROVE FALSE
  <2>1. j \in 1..(k - 1) /\ j \in 1..k /\ j + 1 \in 1..k
    BY <1>0, <1>1
  <2>2. CASE j < c
    BY <1>0, <1>1, <1>2, <1>5, <2>1, <2>2
  <2>3. CASE ~(j < c)
    <3>1. t[j] = s[j + 1] /\ j + 1 # c
      BY <1>0, <1>1, <2>1, <2>3
    <3> QED
      BY <1>0, <1>2, <1>5, <2>1, <3>1
  <2> QED
    BY <2>2, <2>3
<1>6. c # k => t[Len(t)] = s[k]
  <2> HAVE c # k
  <2>1. k - 1 \in 1..(k - 1) /\ ~(k - 1 < c) /\ (k - 1) + 1 = k
    BY <1>0, <1>1
  <2> QED
    BY <1>1, <2>1
<1>7. c = k => t[Len(t)] = s[c - 1]
  <2> HAVE c = k
  <2>1. k - 1 \in 1..(k - 1) /\ k - 1 < c /\ c - 1 = k - 1
    BY <1>0, <1>1
  <2> QED
    BY <1>1, <2>1
<1>8. s # <<>>
  BY <1>0, <1>1, EmptySeq DEF k
<1>9. s[c - 1] # s[c]
  BY <1>0, <1>2, <1>4
<1>10. s[c - 1] \in Nodes(s) /\ s[c] \notin Nodes(t)
  BY <1>4, <1>5 DEF Nodes, k
<1> QED
  BY <1>3, <1>6, <1>7, <1>8, <1>9, <1>10 DEF t, k

\* searchQueue unlinks the node that PositionOf finds.
LEMMA SearchInv ==
  ASSUME MaxDepth = 1, Inv, NEW x \in Items, Search(x)
  PROVE  /\ Inv' /\ WithSearch /\ status = "live" /\ UNCHANGED status /\ ret' = NONE
         /\ Shown' = Promised!searchQueue(Shown, {x})
<1>1. /\ WithSearch /\ status = "live" /\ Depth = 0 /\ ret' = NONE
      /\ IF \E i \in DOMAIN Chain : MatchAt(i, x)
         THEN LET i == CHOOSE j \in DOMAIN Chain : MatchAt(j, x)
              IN  /\ next' = [next EXCEPT ![Predecessor(i)] = next[Chain[i]]]
                  /\ count' = count - 1
         ELSE UNCHANGED <<next, count>>
      /\ UNCHANGED <<head, tail, item, allocated, calls, status, before>>
      /\ Typed /\ Linked
  BY DEF Search, Inv
<1>2. calls = <<>> /\ calls' = <<>>
  BY <1>1, EmptySeq DEF Depth, Typed
<1>3. Placed
  BY <1>1, <1>2 DEF Inv
<1>4. /\ Chain \in Seq(Addresses) /\ IsList(head, next, Chain)
      /\ Seen = [list |-> Listed(item, Chain),
                 attached |-> Chain = <<>> \/ tail = Chain[Len(Chain)], count |-> count]
      /\ Nodes(Chain) \subseteq allocated
      /\ Len(Seen.list) = Len(Chain) /\ Len(Chain) \in Nat
      /\ next \in [Addresses -> Pointers] /\ item \in [Addresses -> Things] /\ count \in Int
  BY <1>1, ThisList DEF Typed
<1> DEFINE p == Promised!PositionOf(Seen, {x})
<1>5. CASE ~(\E i \in DOMAIN Chain : MatchAt(i, x))
  <2>1. p = 0
    BY <1>1, <1>5, SamePosition
  <2>2. UNCHANGED <<next, count>>
    BY <1>1, <1>5
  <2>3. Chain' = Chain /\ Seen' = Seen
    BY <1>1, <2>2 DEF Chain, Seen, SeenIn
  <2>4. Typed' /\ Linked' /\ Placed'
    BY <1>1, <1>3, <2>2, <2>3 DEF Typed, Linked, Placed
  <2>5. Inv'
    BY <1>1, <1>2, <2>4 DEF Inv
  <2>6. Promised!searchQueue(Seen, {x}) = Seen
    BY <2>1 DEF Promised!searchQueue
  <2> QED
    BY <1>1, <1>2, <2>3, <2>5, <2>6 DEF Shown
<1>6. CASE \E i \in DOMAIN Chain : MatchAt(i, x)
  <2>1. p \in 1..Len(Chain) /\ (CHOOSE j \in DOMAIN Chain : MatchAt(j, x)) = p
    BY <1>1, <1>6, SamePosition
  <2>2. /\ next' = [next EXCEPT ![Predecessor(p)] = next[Chain[p]]]
        /\ count' = count - 1
    BY <1>1, <1>6, <2>1
  <2>3. Promised!searchQueue(Seen, {x}) = Promised!Unlinked(Seen, p)
    BY <1>4, <2>1 DEF Promised!searchQueue
  <2> HIDE DEF p
  <2>4. Promised!Unlinked(Seen, p)
          = [list |-> IF p = 1 THEN Seen.list ELSE Cut(Seen.list, p),
             attached |-> Seen.attached /\ (p = 1 \/ p < Len(Chain)),
             count |-> count - 1]
    BY <1>4 DEF Promised!Unlinked, Promised!Without, Cut
  <2>5. CASE p = 1
    <3>1. next' = next
      <4>1. Chain[1] \in Addresses
        BY <1>4, <2>1, <2>5, ElementOfSeq
      <4>2. Predecessor(p) = Chain[1] /\ Chain[p] = Chain[1]
        BY <2>5 DEF Predecessor
      <4>3. [next EXCEPT ![Chain[1]] = next[Chain[1]]] = next
        BY <1>4, <4>1
      <4> QED
        BY <2>2, <4>2, <4>3
    <3>2. Chain' = Chain /\ Seen'.list = Seen.list /\ Seen'.attached = Seen.attached
      BY <1>1, <3>1 DEF Chain, Seen, SeenIn
    <3>3. Typed' /\ Linked' /\ Placed'
      <4>1. count' \in Int
        BY <1>4, <2>2
      <4>2. Typed'
        BY <1>1, <3>1, <4>1 DEF Typed
      <4>3. Linked'
        BY <1>1, <3>1, <3>2 DEF Linked
      <4>4. Placed'
        BY <1>1, <1>3, <3>2 DEF Placed
      <4> QED
        BY <4>2, <4>3, <4>4
    <3>4. Inv'
      BY <1>1, <1>2, <3>3 DEF Inv
    <3>5. Seen' = [list |-> Seen.list, attached |-> Seen.attached, count |-> count - 1]
      <4>1. Seen' = [list |-> Seen'.list, attached |-> Seen'.attached, count |-> count']
        BY DEF Seen, SeenIn
      <4> QED
        BY <2>2, <3>2, <4>1
    <3>6. Seen.attached = (Seen.attached /\ (p = 1 \/ p < Len(Chain)))
      BY <1>4, <2>5
    <3>7. Seen' = Promised!searchQueue(Seen, {x})
      BY <2>3, <2>4, <2>5, <3>5, <3>6
    <3> QED
      BY <1>1, <1>2, <3>4, <3>7 DEF Shown
  <2>6. CASE p # 1
    <3> DEFINE t == Cut(Chain, p)
    <3>0. p \in 2..Len(Chain)
      BY <1>4, <2>1, <2>6
    <3>1. IsList(head', next', t)
      <4>1. IsList(head, [next EXCEPT ![Chain[p - 1]] = next[Chain[p]]], t)
        BY <1>4, <3>0, ListCut
      <4> QED
        BY <1>1, <2>2, <2>6, <4>1 DEF Predecessor
    <3>2. /\ t # <<>> /\ Chain # <<>> /\ Chain[p - 1] \in Nodes(Chain) /\ Chain[p - 1] # Chain[p]
          /\ Chain[p] \notin Nodes(t)
          /\ p # Len(Chain) => t[Len(t)] = Chain[Len(Chain)]
          /\ p = Len(Chain) => t[Len(t)] = Chain[p - 1]
      BY <1>4, <3>0, CutEnds
    <3>3. Nodes(t) \subseteq Nodes(Chain)
      BY <1>4, <2>1, NodesOf
    <3>4. Listed(item, t) = Cut(Seen.list, p)
      BY <1>4, <2>1, ListedCut
    <3> HIDE DEF t
    <3>5. Chain' = t /\ Seen' = [list |-> Cut(Seen.list, p), attached |-> tail = t[Len(t)],
                                 count |-> count - 1]
      <4>1. item' = item /\ tail' = tail
        BY <1>1
      <4>2. Chain' = t
        BY <3>1, NextList
      <4>3. Seen' = [list |-> Listed(item', t), attached |-> t = <<>> \/ tail' = t[Len(t)],
                     count |-> count']
        BY <3>1, NextList
      <4> QED
        BY <2>2, <3>2, <3>4, <4>1, <4>2, <4>3
    <3>6. (tail = t[Len(t)]) = (Seen.attached /\ p < Len(Chain))
      <4>1. Seen.attached = (tail = Chain[Len(Chain)])
        BY <1>4, <3>2
      <4>2. CASE p = Len(Chain)
        <5>1. tail # Chain[p - 1]
          BY <1>3, <3>2, <4>2 DEF Placed
        <5> QED
          BY <1>4, <3>2, <4>2, <5>1
      <4>3. CASE p # Len(Chain)
        <5>1. p < Len(Chain)
          BY <1>4, <3>0, <4>3
        <5> QED
          BY <3>2, <4>1, <4>3, <5>1
      <4> QED
        BY <4>2, <4>3
    <3>7. Linked'
      BY <1>1, <1>4, <3>1, <3>3, <3>5 DEF Linked
    <3>8. Placed'
      <4>1. tail \in Nodes(t) => tail = t[Len(t)]
        <5> HAVE tail \in Nodes(t)
        <5>1. tail = Chain[Len(Chain)]
          BY <1>3, <3>3 DEF Placed
        <5> QED
          BY <3>2, <5>1
      <4> QED
        BY <1>1, <1>3, <3>2, <3>5, <4>1 DEF Placed
    <3>9. Typed'
      <4>1. Chain[p] \in Addresses
        BY <1>4, <2>1, ElementOfSeq
      <4>2. next' \in [Addresses -> Pointers]
        BY <1>4, <2>2, <4>1
      <4> QED
        BY <1>1, <1>4, <2>2, <4>2 DEF Typed
    <3>10. Inv'
      BY <1>1, <1>2, <3>7, <3>8, <3>9 DEF Inv
    <3>11. Seen' = Promised!searchQueue(Seen, {x})
      <4>1. (Seen.attached /\ p < Len(Chain)) = (Seen.attached /\ (p = 1 \/ p < Len(Chain)))
        BY <2>6
      <4>2. Promised!Unlinked(Seen, p)
              = [list |-> Cut(Seen.list, p), attached |-> Seen.attached /\ p < Len(Chain),
                 count |-> count - 1]
        BY <2>4, <2>6, <4>1
      <4> QED
        BY <2>3, <3>5, <3>6, <4>2
    <3> QED
      BY <1>1, <1>2, <3>10, <3>11 DEF Shown
  <2> QED
    BY <2>5, <2>6
<1> QED
  BY <1>5, <1>6

-----------------------------------------------------------------------------
(* removeQueue and the faults *)

LEMMA RemoveInv ==
  ASSUME Inv, Remove
  PROVE  /\ Inv' /\ status = "live" /\ status' = "removed" /\ ret' = NONE
         /\ Shown' = Promised!createQueue
<1>1. /\ status = "live" /\ Depth = 0 /\ head' = NIL /\ count' = 0 /\ ret' = NONE
      /\ status' = "removed" /\ allocated' \subseteq allocated
      /\ UNCHANGED <<tail, next, item, calls, before>>
      /\ Typed /\ Linked
  BY DEF Remove, Inv
<1>2. calls = <<>> /\ calls' = <<>>
  BY <1>1, EmptySeq DEF Depth, Typed
<1>3. IsList(head', next', <<>>)
  BY <1>1, ListOfNone
<1>4. Chain' = <<>>
  BY <1>3, NextList
<1>5. Linked'
  BY <1>3, <1>4 DEF Linked, Nodes
<1>6. Typed'
  BY <1>1 DEF Typed, Pointers
<1>7. Seen' = [list |-> <<>>, attached |-> TRUE, count |-> 0]
  <2>1. Seen' = [list |-> [i \in DOMAIN Chain' |-> item'[Chain'[i]]],
                 attached |-> Chain' = <<>> \/ tail' = Chain'[Len(Chain')], count |-> count']
    BY DEF Seen, SeenIn
  <2>2. DOMAIN Chain' = {}
    BY <1>4
  <2>3. [i \in {} |-> item'[Chain'[i]]] = <<>>
    OBVIOUS
  <2>4. (Chain' = <<>> \/ tail' = Chain'[Len(Chain')]) = TRUE
    BY <1>4
  <2> QED
    BY <1>1, <2>1, <2>2, <2>3, <2>4
<1> QED
  BY <1>1, <1>2, <1>5, <1>6, <1>7 DEF Inv, Shown, Promised!createQueue

\* The only null pointer a call follows is head, in a dequeue that count has sent there.
LEMMA FaultInv ==
  ASSUME Inv, Fault
  PROVE  /\ Inv' /\ status = "live" /\ status' = "crashed"
         /\ Promised!DequeueFaults(Shown) /\ Shown' = Shown /\ UNCHANGED ret
<1>1. /\ status' = "crashed" /\ UNCHANGED <<queue, heap, calls, ret, before>>
      /\ Typed /\ Linked
  BY DEF Fault, Crash, Inv
<1>2. status = "live" /\ calls # <<>> /\ InCall
  <2>1. status = "live" /\ Depth > 0
    BY DEF Fault, At
  <2>2. calls # <<>>
    BY <2>1, EmptySeq DEF Depth
  <2> QED
    BY <2>1, <2>2 DEF Inv
<1>3. At("isempty") /\ count # 0 /\ head = NIL
  <2>1. ~(At("link") /\ tail = NIL)
    <3> SUFFICES ASSUME Top.pc = "link", tail = NIL PROVE FALSE
      BY DEF At
    <3>1. Adding /\ head # NIL
      BY <1>2 DEF InCall
    <3>2. Chain # <<>>
      BY <1>1, <3>1, ThisList
    <3> QED
      BY <3>1, <3>2 DEF Adding, Placed
  <2>2. ~(At("advance") /\ head = NIL)
    BY <1>2 DEF At, InCall
  <2>3. ~(At("free") /\ Top.node \notin allocated)
    BY <1>2 DEF At, InCall, Taken, Node
  <2> QED
    BY <2>1, <2>2, <2>3 DEF Fault
<1>4. before = Seen /\ Seen.list = <<>> /\ Seen.count # 0
  <2>1. before = Seen
    BY <1>2, <1>3 DEF At, InCall, Removing
  <2> QED
    BY <1>1, <1>3, <2>1, ThisList
<1>5. Chain' = Chain
  BY <1>1 DEF queue, heap, Chain
<1>6. Typed' /\ Linked'
  BY <1>1, <1>5 DEF Typed, Linked, queue, heap
<1> QED
  BY <1>1, <1>2, <1>4, <1>6 DEF Inv, Shown, Promised!DequeueFaults, Promised!isEmpty

-----------------------------------------------------------------------------
(* The theorems *)

\* Every step keeps the invariant and is a step of TornQueue, or none.
LEMMA StepImplements ==
  ASSUME MaxDepth = 1, Inv, [Next]_vars
  PROVE  Inv' /\ [Promised!Next]_(Promised!vars)
<1>1. ASSUME Inv', Shown' = Shown, UNCHANGED <<ret, status>>
      PROVE  Inv' /\ UNCHANGED Promised!vars
  BY <1>1 DEF Shown, Promised!vars
<1>2. ASSUME NEW x \in Items, CallEnqueue(x)
      PROVE  Inv' /\ UNCHANGED Promised!vars
  BY <1>1, <1>2, CallEnqueueInv
<1>3. ASSUME NEW x \in Items, Search(x)
      PROVE  Inv' /\ Promised!Next
  <2>1. Inv' /\ Promised!Search(x)
    BY <1>3, SearchInv DEF Promised!Search, Shown
  <2> QED
    BY <2>1 DEF Promised!Next
<1>4. CASE EnqueueTest
  BY <1>1, <1>4, EnqueueTestInv
<1>5. CASE EnqueueHead
  BY <1>1, <1>5, EnqueueHeadInv
<1>6. CASE EnqueueLink
  BY <1>1, <1>6, EnqueueLinkInv
<1>7. CASE EnqueueTail
  BY <1>1, <1>7, EnqueueTailInv
<1>8. CASE EnqueueCount
  <2>1. Inv' /\ item[Node] \in Items /\ Promised!Enqueue(item[Node])
    BY <1>8, EnqueueCountInv DEF Promised!Enqueue, Shown
  <2> QED
    BY <2>1 DEF Promised!Next
<1>9. CASE CallDequeue
  BY <1>1, <1>9, CallDequeueInv
<1>10. CASE DequeueEmpty
  <2>1. Inv' /\ Promised!Dequeue
    BY <1>10, DequeueEmptyInv DEF Promised!Dequeue, Shown
  <2> QED
    BY <2>1 DEF Promised!Next
<1>11. CASE DequeueTest
  BY <1>1, <1>11, DequeueTestInv
<1>12. CASE DequeueClearHead
  BY <1>1, <1>12, DequeueClearHeadInv
<1>13. CASE DequeueClearTail
  BY <1>1, <1>13, DequeueClearTailInv
<1>14. CASE DequeueAdvance
  BY <1>1, <1>14, DequeueAdvanceInv
<1>15. CASE DequeueCount
  BY <1>1, <1>15, DequeueCountInv
<1>16. CASE DequeueFree
  <2>1. Inv' /\ Promised!Dequeue
    BY <1>16, DequeueFreeInv DEF Promised!Dequeue, Shown
  <2> QED
    BY <2>1 DEF Promised!Next
<1>17. CASE Fault
  <2>1. Inv' /\ Promised!DequeueCrash
    BY <1>17, FaultInv DEF Promised!DequeueCrash, Shown
  <2> QED
    BY <2>1 DEF Promised!Next
<1>18. CASE Remove
  <2>1. Inv' /\ Promised!Remove
    BY <1>18, RemoveInv DEF Promised!Remove, Shown
  <2> QED
    BY <2>1 DEF Promised!Next
<1>19. CASE UNCHANGED vars
  <2>1. /\ UNCHANGED <<head, tail, count, next, item, allocated, calls, ret, status, before>>
    BY <1>19 DEF vars, queue, heap
  <2>2. Chain' = Chain /\ Seen' = Seen
    BY <2>1 DEF Chain, Seen, SeenIn
  <2>3. Shown' = Shown
    BY <2>1, <2>2 DEF Shown
  <2>4. Typed' /\ Linked' /\ (Placed => Placed')
    BY <2>1, <2>2 DEF Inv, Typed, Linked, Placed
  <2>5. InCall => InCall'
    <3>1. Node' = Node /\ Top' = Top
      BY <2>1 DEF Node, Top, Depth
    <3>2. /\ (Adding => Adding') /\ (Added => Added') /\ (Removing => Removing')
          /\ (Cleared => Cleared') /\ (Taken => Taken')
      BY <2>1, <2>2, <2>4, <3>1 DEF Adding, Added, Removing, Cleared, Taken
    <3> QED
      BY <2>1, <3>1, <3>2 DEF InCall
  <2>6. Inv'
    BY <2>1, <2>4, <2>5 DEF Inv
  <2> QED
    BY <1>1, <2>1, <2>3, <2>6
<1> QED
  BY <1>2, <1>3, <1>4, <1>5, <1>6, <1>7, <1>8, <1>9, <1>10, <1>11, <1>12, <1>13, <1>14,
     <1>15, <1>16, <1>17, <1>18, <1>19 DEF Next

LEMMA InitImplements == Init => Promised!Init
<1> SUFFICES ASSUME Init PROVE Promised!Init
  OBVIOUS
<1>1. Chain = <<>>
  BY ListOfNone, WalkMeetsList DEF Init, Chain
<1>2. Seen = [list |-> <<>>, attached |-> TRUE, count |-> 0]
  <2>1. Seen.list = <<>>
    BY <1>1 DEF Seen, SeenIn
  <2> QED
    BY <1>1, <2>1 DEF Seen, SeenIn, Init
<1> QED
  BY <1>2 DEF Init, Promised!Init, Promised!createQueue

LEMMA InvHolds ==
  ASSUME MaxDepth = 1
  PROVE  Spec => []Inv
<1>1. Inv /\ [Next]_vars => Inv'
  BY StepImplements
<1> QED
  BY <1>1, InitInv, PTL DEF Spec

\* The pointers of queue.c are the queue the callers rely on, searchQueue included: what
\* enqueue, dequeue, searchQueue and removeQueue do to head, tail, count and the nodes,
\* statement by statement, is what TornQueue says, for any number of nodes and items,
\* as long as a call is not interrupted by another one (queue.c).
THEOREM QueueImplemented ==
  ASSUME MaxDepth = 1
  PROVE  Spec => ImplementsTornQueue
<1>1. Inv /\ [Next]_vars => [Promised!Next]_(Promised!vars)
  BY StepImplements
<1> QED
  BY <1>1, InitImplements, InvHolds, PTL DEF Spec, ImplementsTornQueue, Promised!Spec

\* Between calls no node of the list has been freed and none is in it twice, however
\* searchQueue has cut the list (queue.c).
THEOREM QueueNotFreed ==
  ASSUME MaxDepth = 1
  PROVE  Spec => []NothingFreedInList
<1>1. Inv => NothingFreedInList
  <2> SUFFICES ASSUME Inv PROVE NothingFreedInList
    OBVIOUS
  <2>1. Chain \in Seq(Addresses) /\ IsList(head, next, Chain) /\ Nodes(Chain) \subseteq allocated
    BY ThisList DEF Inv
  <2>2. DOMAIN Chain = 1..Len(Chain)
    BY <2>1, LenProperties
  <2>3. \A i, j \in DOMAIN Chain : Chain[i] \in allocated /\ (i # j => Chain[i] # Chain[j])
    BY <2>1, <2>2 DEF IsList, Nodes
  <2> QED
    BY <2>3 DEF NothingFreedInList
<1> QED
  BY <1>1, InvHolds, PTL

-----------------------------------------------------------------------------
(* Without searchQueue *)

\* TornQueue's own theorem, of the queue that the pointers make.
Torn == INSTANCE TornQueueProofs WITH q <- Shown

LEMMA SameQueue ==
  /\ Promised!Init <=> Torn!Init
  /\ [Promised!Next]_(Promised!vars) <=> [Torn!Next]_(Torn!vars)
  /\ Promised!Sound <=> Torn!Sound
<1>1. Promised!vars = Torn!vars /\ (UNCHANGED Promised!vars <=> UNCHANGED Torn!vars)
  BY DEF Promised!vars, Torn!vars, Shown
<1>2. Promised!Next <=> Torn!Next
  <2>1. ASSUME NEW x PROVE Promised!Enqueue(x) <=> Torn!Enqueue(x)
    BY DEF Promised!Enqueue, Torn!Enqueue, Promised!enqueue, Torn!enqueue, Shown
  <2>2. ASSUME NEW x PROVE Promised!Search(x) <=> Torn!Search(x)
    BY DEF Promised!Search, Torn!Search, Promised!searchQueue, Torn!searchQueue,
           Promised!Unlinked, Torn!Unlinked, Promised!Without, Torn!Without,
           Promised!PositionOf, Torn!PositionOf, Shown
  <2>3. Promised!Dequeue <=> Torn!Dequeue
    BY DEF Promised!Dequeue, Torn!Dequeue, Promised!dequeue, Torn!dequeue,
           Promised!Dequeued, Torn!Dequeued, Promised!DequeueFaults, Torn!DequeueFaults,
           Promised!isEmpty, Torn!isEmpty, Shown
  <2>4. Promised!DequeueCrash <=> Torn!DequeueCrash
    BY DEF Promised!DequeueCrash, Torn!DequeueCrash, Promised!DequeueFaults,
           Torn!DequeueFaults, Promised!isEmpty, Torn!isEmpty, Shown
  <2>5. Promised!Remove <=> Torn!Remove
    BY DEF Promised!Remove, Torn!Remove, Promised!createQueue, Torn!createQueue, Shown
  <2> QED
    BY <2>1, <2>2, <2>3, <2>4, <2>5 DEF Promised!Next, Torn!Next
<1>3. Promised!Init <=> Torn!Init
  BY DEF Promised!Init, Torn!Init, Promised!createQueue, Torn!createQueue, Shown
<1>4. Promised!Sound <=> Torn!Sound
  BY DEF Promised!Sound, Torn!Sound, Shown
<1> QED
  BY <1>1, <1>2, <1>3, <1>4

SoundInv == Inv /\ Promised!Sound

LEMMA SoundInvHolds ==
  ASSUME MaxDepth = 1, WithSearch = FALSE
  PROVE  Spec => []SoundInv
<1>1. Init => SoundInv
  <2>1. Init => Torn!Init
    BY InitImplements, SameQueue
  <2>2. Torn!Init => Torn!Sound
    BY Torn!InitSound
  <2> QED
    BY <2>1, <2>2, InitInv, SameQueue DEF SoundInv
<1>2. SoundInv /\ [Next]_vars => SoundInv'
  <2> SUFFICES ASSUME SoundInv, [Next]_vars PROVE SoundInv'
    OBVIOUS
  <2>1. Inv' /\ [Torn!Next]_(Torn!vars) /\ Torn!Sound
    BY StepImplements, SameQueue DEF SoundInv
  <2>2. Torn!Sound'
    BY <2>1, Torn!StepSound
  <2>3. Promised!Sound'
    BY <2>2 DEF Promised!Sound, Torn!Sound, Shown
  <2> QED
    BY <2>1, <2>3 DEF SoundInv
<1> QED
  BY <1>1, <1>2, PTL DEF Spec

\* The counter of the ready and of the wait queue, which isEmpty goes by, is the number
\* of nodes a walk from head meets (queue.h: "Count variable stores the length (or size)
\* of the queue.").
THEOREM PcbsCounted ==
  ASSUME MaxDepth = 1, WithSearch = FALSE
  PROVE  Spec => []CountIsLength
<1>1. SoundInv => CountIsLength
  <2> SUFFICES ASSUME SoundInv, Idle PROVE count = Len(Chain)
    BY DEF CountIsLength
  <2>1. Shown = Seen /\ Shown.count = Len(Shown.list)
    BY DEF SoundInv, Promised!Sound, Shown, Idle
  <2>2. Len(Seen.list) = Len(Chain) /\ Seen.count = count
    BY ThisList DEF SoundInv, Inv
  <2> QED
    BY <2>1, <2>2
<1> QED
  BY <1>1, SoundInvHolds, PTL

\* Every node that is allocated is in the list or is the one that the call in progress
\* is putting there, or has just taken out.
Held == IF calls = <<>> \/ Top.pc \in {"isempty", "clearhead", "advance"} THEN {} ELSE {Node}

Kept == status # "crashed" => allocated = Nodes(Chain) \cup Held

\* The list is the first node and the rest.
LEMMA FirstAndRest ==
  ASSUME NEW s \in Seq(Addresses), s # <<>>
  PROVE  Nodes(s) = {s[1]} \cup Nodes(Tail(s))
<1> DEFINE t == Tail(s)
<1>1. Len(s) \in Nat \ {0} /\ Len(t) = Len(s) - 1 /\ \A i \in 1..(Len(s) - 1) : t[i] = s[i + 1]
  BY Tailed
<1> HIDE DEF t
<1>2. \A i \in 1..Len(t) : t[i] = s[i + 1] /\ i + 1 \in 1..Len(s)
  BY <1>1
<1>3. ASSUME NEW i \in 1..Len(s) PROVE s[i] = s[1] \/ s[i] \in Nodes(t)
  <2>1. i = 1 \/ (i - 1 \in 1..Len(t) /\ (i - 1) + 1 = i)
    BY <1>1
  <2> QED
    BY <1>2, <2>1 DEF Nodes
<1>4. 1 \in 1..Len(s)
  BY <1>1
<1>5. Nodes(s) = {s[1]} \cup Nodes(t)
  <2>1. Nodes(s) \subseteq {s[1]} \cup Nodes(t)
    BY <1>3 DEF Nodes
  <2>2. Nodes(t) \subseteq Nodes(s)
    BY <1>2 DEF Nodes
  <2>3. s[1] \in Nodes(s)
    BY <1>4 DEF Nodes
  <2> QED
    BY <2>1, <2>2, <2>3
<1> QED
  BY <1>5 DEF t

LEMMA KeptStep ==
  ASSUME MaxDepth = 1, WithSearch = FALSE, SoundInv, Kept, [Next]_vars
  PROVE  Kept'
<1>1. Inv /\ Inv' /\ Typed /\ Linked /\ status # "crashed" /\ allocated = Nodes(Chain) \cup Held
  BY StepImplements DEF SoundInv, Inv, Promised!Sound, Kept
<1>2. ASSUME head' = head, next' = next PROVE Chain' = Chain
  BY <1>2 DEF Chain
<1>3. /\ Chain \in Seq(Addresses) /\ IsList(head, next, Chain)
      /\ Chain = <<>> <=> head = NIL
      /\ Chain # <<>> => head = Chain[1] /\ head \in Addresses
      /\ Nodes(<<>>) = {}
      /\ next \in [Addresses -> Pointers]
  BY <1>1, ThisList, NodesOf DEF Typed
<1>4. ASSUME NEW x \in Items, CallEnqueue(x) PROVE Kept'
  <2>1. PICK n \in Addresses \ allocated :
           /\ allocated' = allocated \cup {n}
           /\ next' = [next EXCEPT ![n] = NIL]
           /\ Begin("test", n)
    BY <1>4 DEF CallEnqueue
  <2>2. calls = <<>> /\ calls' # <<>> /\ Top'.pc = "test" /\ Top'.node = n
    <3>1. "test" \in PCs /\ n \in Pointers
      BY DEF PCs, Pointers
    <3> QED
      BY <1>1, <2>1, <3>1, CallBegins
  <2>3. Chain' = Chain
    <3>1. \A m \in Nodes(Chain) : next'[m] = next[m]
      BY <1>1, <1>3, <2>1, NodesOf
    <3>2. IsList(head', next', Chain)
      BY <1>3, <1>4, <3>1, ListElsewhere DEF CallEnqueue, queue
    <3> QED
      BY <3>2, NextList
  <2> QED
    BY <1>1, <2>1, <2>2, <2>3 DEF Kept, Held, Node
<1>5. ASSUME NEW x \in Items, Search(x) PROVE Kept'
  BY <1>5 DEF Search
<1>6. ASSUME NEW now, NEW pc \in PCs, At(now), Goto(pc)
      PROVE  /\ calls # <<>> /\ calls' # <<>> /\ status = "live" /\ Node' = Node
             /\ Top.pc = now /\ Top'.pc = pc /\ InCall
  BY <1>1, <1>6, CallGoesOn DEF Node, Inv
<1>7. CASE EnqueueTest
  <2>1. PICK pc \in {"sethead", "link"} :
           At("test") /\ Goto(pc) /\ UNCHANGED <<queue, heap, status>>
    BY <1>7 DEF EnqueueTest
  <2>2. pc \in PCs
    BY DEF PCs
  <2> QED
    BY <1>1, <1>2, <1>6, <2>1, <2>2 DEF Kept, Held, queue, heap
<1>8. CASE EnqueueHead
  <2>1. /\ At("sethead") /\ Goto("settail") /\ head' = Node /\ UNCHANGED <<heap, status>>
        /\ "settail" \in PCs
    BY <1>8 DEF EnqueueHead, Node, PCs
  <2>2. /\ calls # <<>> /\ calls' # <<>> /\ Node' = Node
        /\ Top.pc = "sethead" /\ Top'.pc = "settail"
        /\ Adding /\ head = NIL
    BY <1>6, <2>1 DEF InCall
  <2>3. Node \in Addresses /\ next[Node] = NIL
    BY <1>1, <2>2 DEF Adding, Typed
  <2>4. Chain' = <<Node>> /\ Nodes(<<Node>>) = {Node}
    BY <1>3, <2>1, <2>3, ListOfOne, NextList, NodesOf DEF heap
  <2>5. allocated = {Node}
    BY <1>1, <1>3, <2>2 DEF Held
  <2> QED
    BY <2>1, <2>2, <2>4, <2>5 DEF Kept, Held, heap
<1>9. CASE EnqueueLink
  <2>1. /\ At("link") /\ Goto("settail") /\ next' = [next EXCEPT ![tail] = Node]
        /\ UNCHANGED <<queue, allocated, status>> /\ "settail" \in PCs
    BY <1>9 DEF EnqueueLink, Node, PCs
  <2>2. /\ calls # <<>> /\ calls' # <<>> /\ Node' = Node
        /\ Top.pc = "link" /\ Top'.pc = "settail"
        /\ Adding /\ head # NIL
    BY <1>6, <2>1 DEF InCall
  <2>3. Node \in Addresses \ Nodes(Chain) /\ next[Node] = NIL
    BY <1>1, <2>2 DEF Adding, Typed
  <2>4. tail = Chain[Len(Chain)]
    <3>1. before.attached /\ before = Seen
      BY <2>2 DEF SoundInv, Promised!Sound, Adding
    <3>2. Seen.attached = (Chain = <<>> \/ tail = Chain[Len(Chain)])
      BY DEF Seen, SeenIn
    <3> QED
      BY <1>3, <2>2, <3>1, <3>2
  <2>5. Chain' = Append(Chain, Node) /\ Nodes(Append(Chain, Node)) = Nodes(Chain) \cup {Node}
    <3>1. IsList(head, [next EXCEPT ![Chain[Len(Chain)]] = Node], Append(Chain, Node))
      BY <1>3, <2>2, <2>3, ListAppend
    <3>2. IsList(head', next', Append(Chain, Node))
      BY <2>1, <2>4, <3>1 DEF queue
    <3> QED
      BY <1>3, <2>3, <3>2, NextList, NodesOf
  <2> QED
    BY <1>1, <2>1, <2>2, <2>5 DEF Kept, Held
<1>10. CASE EnqueueTail
  <2>1. /\ At("settail") /\ Goto("increment") /\ UNCHANGED <<head, heap, status>>
        /\ "increment" \in PCs
    BY <1>10 DEF EnqueueTail, PCs
  <2> QED
    BY <1>1, <1>2, <1>6, <2>1 DEF Kept, Held, heap
<1>11. CASE EnqueueCount
  <2>1. At("increment") /\ Return(NONE) /\ UNCHANGED <<head, heap, status>>
    BY <1>11 DEF EnqueueCount, Return
  <2>2. calls # <<>> /\ calls' = <<>> /\ Top.pc = "increment" /\ status = "live"
    BY <1>1, <2>1, CallReturns
  <2>3. Added
    BY <1>1, <2>2 DEF Inv, InCall
  <2>4. Node \in Nodes(Chain)
    <3>1. before.attached
      BY <2>2 DEF SoundInv, Promised!Sound, Shown
    <3> QED
      BY <1>3, <2>3, <3>1, NodesOf DEF Added
  <2> QED
    BY <1>1, <1>2, <2>1, <2>2, <2>4 DEF Kept, Held, heap
<1>12. CASE CallDequeue
  <2>1. /\ Begin("isempty", head) /\ UNCHANGED <<queue, heap, status>>
        /\ "isempty" \in PCs /\ head \in Pointers
    BY <1>1, <1>12 DEF CallDequeue, PCs, Typed
  <2>2. calls = <<>> /\ calls' # <<>> /\ Top'.pc = "isempty"
    BY <1>1, <2>1, CallBegins
  <2> QED
    BY <1>1, <1>2, <2>1, <2>2 DEF Kept, Held, queue, heap
<1>13. CASE DequeueEmpty
  <2>1. At("isempty") /\ Return(NONE) /\ UNCHANGED <<queue, heap, status>>
    BY <1>13 DEF DequeueEmpty, Return
  <2>2. calls # <<>> /\ calls' = <<>> /\ Top.pc = "isempty"
    BY <1>1, <2>1, CallReturns
  <2> QED
    BY <1>1, <1>2, <2>1, <2>2 DEF Kept, Held, queue, heap
<1>14. CASE DequeueTest
  <2>1. PICK pc \in {"clearhead", "advance"} :
           At("isempty") /\ Goto(pc) /\ UNCHANGED <<queue, heap, status>>
    BY <1>14 DEF DequeueTest
  <2>2. pc \in PCs
    BY DEF PCs
  <2> QED
    BY <1>1, <1>2, <1>6, <2>1, <2>2 DEF Kept, Held, queue, heap
<1>15. CASE DequeueClearHead
  <2>1. /\ At("clearhead") /\ Goto("cleartail") /\ head' = NIL /\ UNCHANGED <<heap, status>>
        /\ "cleartail" \in PCs
    BY <1>15 DEF DequeueClearHead, PCs
  <2>2. /\ calls # <<>> /\ calls' # <<>> /\ Node' = Node
        /\ Top.pc = "clearhead" /\ Top'.pc = "cleartail"
        /\ Node = head /\ head # NIL /\ next[head] = NIL
    BY <1>6, <2>1 DEF InCall, Removing
  <2>3. Chain' = <<>>
    BY <2>1, ListOfNone, NextList
  <2>4. Nodes(Chain) = {head}
    <3>1. Chain # <<>> /\ head = Chain[1] /\ Tail(Chain) = <<>>
      BY <1>3, <2>2, FirstIsApart
    <3> QED
      BY <1>3, <3>1, FirstAndRest
  <2> QED
    BY <1>1, <1>3, <2>1, <2>2, <2>3, <2>4 DEF Kept, Held, heap
<1>16. CASE DequeueClearTail
  <2>1. /\ At("cleartail") /\ Goto("decrement") /\ UNCHANGED <<head, heap, status>>
        /\ "decrement" \in PCs
    BY <1>16 DEF DequeueClearTail, PCs
  <2> QED
    BY <1>1, <1>2, <1>6, <2>1 DEF Kept, Held, heap
<1>17. CASE DequeueAdvance
  <2>1. /\ At("advance") /\ Goto("decrement") /\ head' = next[head] /\ UNCHANGED <<heap, status>>
        /\ "decrement" \in PCs
    BY <1>17 DEF DequeueAdvance, PCs
  <2>2. /\ calls # <<>> /\ calls' # <<>> /\ Node' = Node
        /\ Top.pc = "advance" /\ Top'.pc = "decrement"
        /\ Node = head /\ head # NIL
    BY <1>6, <2>1 DEF InCall, Removing
  <2>3. Chain # <<>> /\ head = Chain[1]
    BY <1>3, <2>2
  <2>4. Chain' = Tail(Chain)
    <3>1. IsList(head', next', Tail(Chain))
      BY <1>3, <2>1, <2>3, ListTail DEF heap
    <3> QED
      BY <3>1, NextList
  <2>5. Nodes(Chain) = {head} \cup Nodes(Tail(Chain))
    BY <1>3, <2>3, FirstAndRest
  <2> QED
    BY <1>1, <2>1, <2>2, <2>4, <2>5 DEF Kept, Held, heap
<1>18. CASE DequeueCount
  <2>1. At("decrement") /\ Goto("free") /\ UNCHANGED <<head, heap, status>> /\ "free" \in PCs
    BY <1>18 DEF DequeueCount, PCs
  <2> QED
    BY <1>1, <1>2, <1>6, <2>1 DEF Kept, Held, heap
<1>19. CASE DequeueFree
  <2>1. /\ At("free") /\ Return(item[Top.node]) /\ allocated' = allocated \ {Node}
        /\ UNCHANGED <<head, next, status>>
    BY <1>19 DEF DequeueFree, Return, Node, queue
  <2>2. calls # <<>> /\ calls' = <<>> /\ Top.pc = "free" /\ status = "live"
    BY <1>1, <2>1, CallReturns
  <2>3. Node \notin Nodes(Chain)
    BY <1>1, <2>2 DEF Inv, InCall, Taken
  <2> QED
    BY <1>1, <1>2, <2>1, <2>2, <2>3 DEF Kept, Held
<1>20. CASE Fault
  BY <1>20 DEF Fault, Crash, Kept
<1>21. CASE Remove
  <2>1. /\ head' = NIL /\ allocated' = allocated \ Nodes(Chain) /\ calls' = calls /\ calls = <<>>
    <3>1. DOMAIN Chain = 1..Len(Chain)
      BY <1>3, LenProperties
    <3> QED
      BY <1>1, <1>21, <3>1, EmptySeq DEF Remove, Nodes, Depth, Typed
  <2>2. Chain' = <<>>
    BY <2>1, ListOfNone, NextList
  <2> QED
    BY <1>1, <1>3, <2>1, <2>2 DEF Kept, Held
<1>22. CASE UNCHANGED vars
  <2>1. Node' = Node /\ Top' = Top /\ UNCHANGED <<head, next, allocated, calls, status>>
    BY <1>22 DEF vars, queue, heap, Node, Top, Depth
  <2> QED
    BY <1>1, <1>2, <2>1 DEF Kept, Held
<1> QED
  BY <1>4, <1>5, <1>7, <1>8, <1>9, <1>10, <1>11, <1>12, <1>13, <1>14, <1>15, <1>16, <1>17,
     <1>18, <1>19, <1>20, <1>21, <1>22 DEF Next

\* No PCB that was put into the ready or the wait queue disappears from it: between calls
\* the nodes that malloc gave and free did not take are the nodes of the list (queue.c).
THEOREM PcbsNotLeaked ==
  ASSUME MaxDepth = 1, WithSearch = FALSE
  PROVE  Spec => []NothingLeaked
<1>1. Init => Kept
  <2> SUFFICES ASSUME Init PROVE Kept
    OBVIOUS
  <2>1. Chain = <<>>
    BY ListOfNone, WalkMeetsList DEF Init, Chain
  <2> QED
    BY <2>1 DEF Init, Kept, Held, Nodes
<1>2. SoundInv /\ Kept /\ [Next]_vars => Kept'
  BY KeptStep
<1>3. SoundInv /\ Kept => NothingLeaked
  <2> SUFFICES ASSUME SoundInv, Kept, Idle PROVE allocated = {Chain[i] : i \in DOMAIN Chain}
    BY DEF NothingLeaked
  <2>1. DOMAIN Chain = 1..Len(Chain)
    BY ThisList, LenProperties DEF SoundInv, Inv
  <2> QED
    BY <2>1 DEF Kept, Held, Idle, Nodes
<1> QED
  BY <1>1, <1>2, <1>3, SoundInvHolds, PTL DEF Spec
=============================================================================
