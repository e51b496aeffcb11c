---------------------------- MODULE DequeLemmas ----------------------------
(***************************************************************************)
(* What the operations of the library's deques (push_back, pop_front and   *)
(* taking the first k elements) do to the elements and their positions.    *)
(***************************************************************************)
EXTENDS Integers, Sequences, FiniteSets, FiniteSetTheorems, SequenceTheorems, TLAPS

\* x is an element of q.
In(x, q) == \E i \in 1..Len(q) : q[i] = x

\* No element of q is at two positions.
Distinct(q) == \A i, j \in 1..Len(q) : q[i] = q[j] => i = j

\* An empty deque has no elements.
LEMMA EmptyDeque ==
    /\ Len(<<>>) = 0
    /\ \A x : ~In(x, <<>>)
    /\ Distinct(<<>>)
BY DEF In, Distinct

\* A deque without elements is empty.
LEMMA NothingIn ==
    ASSUME NEW S, NEW q \in Seq(S)
    PROVE  /\ q = <<>> <=> Len(q) = 0
           /\ q # <<>> => Len(q) > 0 /\ In(q[1], q) /\ Head(q) = q[1] /\ q[1] \in S
           /\ (\A x \in S : ~In(x, q)) => q = <<>>
           /\ \A x : In(x, q) => x \in S
<1>1. Len(q) \in Nat /\ \A i \in 1..Len(q) : q[i] \in S
  BY LenProperties
<1>2. q = <<>> <=> Len(q) = 0
  BY EmptySeq
<1>3. q # <<>> => Len(q) > 0 /\ In(q[1], q) /\ Head(q) = q[1] /\ q[1] \in S
  BY <1>1, <1>2 DEF In
<1>4. (\A x \in S : ~In(x, q)) => q = <<>>
  BY <1>1, <1>3
<1>5. \A x : In(x, q) => x \in S
  BY <1>1 DEF In
<1> QED BY <1>2, <1>3, <1>4, <1>5

\* push_back().
LEMMA AppendDeque ==
    ASSUME NEW S, NEW q \in Seq(S), NEW x \in S
    PROVE  /\ Append(q, x) \in Seq(S)
           /\ Len(Append(q, x)) = Len(q) + 1
           /\ \A y : In(y, Append(q, x)) <=> In(y, q) \/ y = x
           /\ Distinct(q) /\ ~In(x, q) => Distinct(Append(q, x))
<1>1. /\ Append(q, x) \in Seq(S)
      /\ Len(q) \in Nat
      /\ Len(Append(q, x)) = Len(q) + 1
      /\ \A i \in 1..Len(q) : Append(q, x)[i] = q[i]
      /\ Append(q, x)[Len(q) + 1] = x
  BY AppendProperties, LenProperties
<1>2. \A y : In(y, Append(q, x)) <=> In(y, q) \/ y = x
  <2> SUFFICES ASSUME NEW y PROVE In(y, Append(q, x)) <=> In(y, q) \/ y = x
    OBVIOUS
  <2>1. \A i \in 1..(Len(q) + 1) : i \in 1..Len(q) \/ i = Len(q) + 1
    BY <1>1
  <2>2. \A i \in 1..Len(q) : i \in 1..(Len(q) + 1)
    BY <1>1
  <2>3. Len(q) + 1 \in 1..(Len(q) + 1)
    BY <1>1
  <2> QED BY <1>1, <2>1, <2>2, <2>3 DEF In
<1>3. Distinct(q) /\ ~In(x, q) => Distinct(Append(q, x))
  BY <1>1 DEF Distinct, In
<1> QED BY <1>1, <1>2, <1>3

\* pop_front().
LEMMA TailDeque ==
    ASSUME NEW S, NEW q \in Seq(S), q # <<>>
    PROVE  /\ Tail(q) \in Seq(S)
           /\ Len(Tail(q)) = Len(q) - 1
           /\ Head(q) = q[1] /\ Head(q) \in S
           /\ \A i \in 1..Len(Tail(q)) : Tail(q)[i] = q[i + 1] /\ i + 1 \in 1..Len(q)
           /\ \A i \in 2..Len(q) : q[i] = Tail(q)[i - 1] /\ i - 1 \in 1..Len(Tail(q))
           /\ \A y : In(y, q) <=> y = Head(q) \/ In(y, Tail(q))
           /\ Distinct(q) => Distinct(Tail(q)) /\ ~In(Head(q), Tail(q))
<1>1. Len(q) \in Nat \ {0} /\ Head(q) = q[1] /\ Head(q) \in S
  BY NothingIn, LenProperties
<1>2. /\ Tail(q) \in Seq(S)
      /\ Len(Tail(q)) = Len(q) - 1
      /\ \A i \in 1..Len(Tail(q)) : Tail(q)[i] = q[i + 1]
  BY HeadTailProperties
<1>3. \A i \in 1..Len(Tail(q)) : Tail(q)[i] = q[i + 1] /\ i + 1 \in 1..Len(q)
  BY <1>1, <1>2
<1>4. \A i \in 2..Len(q) : q[i] = Tail(q)[i - 1] /\ i - 1 \in 1..Len(Tail(q))
  <2> SUFFICES ASSUME NEW i \in 2..Len(q)
               PROVE  q[i] = Tail(q)[i - 1] /\ i - 1 \in 1..Len(Tail(q))
    OBVIOUS
  <2>1. i - 1 \in 1..Len(Tail(q)) /\ (i - 1) + 1 = i
    BY <1>1, <1>2
  <2> QED BY <1>2, <2>1
<1>5. \A i \in 1..Len(q) : i = 1 \/ i \in 2..Len(q)
  BY <1>1
<1>6. \A y : In(y, q) <=> y = Head(q) \/ In(y, Tail(q))
  <2> SUFFICES ASSUME NEW y PROVE In(y, q) <=> y = Head(q) \/ In(y, Tail(q))
    OBVIOUS
  <2>1. In(y, q) => y = Head(q) \/ In(y, Tail(q))
    BY <1>1, <1>4, <1>5 DEF In
  <2>2. In(y, Tail(q)) => In(y, q)
    BY <1>3 DEF In
  <2>3. 1 \in 1..Len(q)
    BY <1>1
  <2> QED BY <1>1, <2>1, <2>2, <2>3 DEF In
<1>7. Distinct(q) => Distinct(Tail(q)) /\ ~In(Head(q), Tail(q))
  BY <1>1, <1>2, <1>3 DEF Distinct, In
<1> QED BY <1>1, <1>2, <1>3, <1>4, <1>6, <1>7

\* The first k elements and the rest.
LEMMA SplitDeque ==
    ASSUME NEW S, NEW q \in Seq(S), NEW k \in 0..Len(q)
    PROVE  /\ SubSeq(q, 1, k) \in Seq(S) /\ SubSeq(q, k + 1, Len(q)) \in Seq(S)
           /\ Len(SubSeq(q, 1, k)) = k /\ Len(SubSeq(q, k + 1, Len(q))) = Len(q) - k
           /\ \A y : In(y, q) <=> In(y, SubSeq(q, 1, k)) \/ In(y, SubSeq(q, k + 1, Len(q)))
           /\ Distinct(q) => /\ Distinct(SubSeq(q, 1, k))
                             /\ Distinct(SubSeq(q, k + 1, Len(q)))
                             /\ \A y : ~(/\ In(y, SubSeq(q, 1, k))
                                         /\ In(y, SubSeq(q, k + 1, Len(q))))
<1> DEFINE n == Len(q)
           f == SubSeq(q, 1, k)
           g == SubSeq(q, k + 1, n)
<1>1. n \in Nat /\ k \in Nat /\ k <= n /\ \A i \in 1..n : q[i] \in S
  BY LenProperties
<1>2. /\ f \in Seq(S) /\ Len(f) = k
      /\ \A i \in 1..k : f[i] = q[i]
  <2>1. \A i \in 1..k : q[i] \in S
    BY <1>1
  <2>2. /\ f \in Seq(S)
        /\ Len(f) = IF 1 <= k THEN k - 1 + 1 ELSE 0
        /\ \A i \in 1..(k - 1 + 1) : f[i] = q[1 + i - 1]
    BY <1>1, <2>1, SubSeqProperties
  <2> HIDE DEF f
  <2>3. Len(f) = k
    BY <1>1, <2>2
  <2>4. \A i \in 1..k : i \in 1..(k - 1 + 1) /\ 1 + i - 1 = i
    BY <1>1
  <2> QED BY <2>2, <2>3, <2>4
<1>3. /\ g \in Seq(S) /\ Len(g) = n - k
      /\ \A i \in 1..(n - k) : g[i] = q[k + i]
  <2>1. \A i \in (k + 1)..n : q[i] \in S
    BY <1>1
  <2>2. k + 1 \in Int /\ n \in Int
    BY <1>1
  <2>3. /\ g \in Seq(S)
        /\ Len(g) = IF k + 1 <= n THEN n - (k + 1) + 1 ELSE 0
        /\ \A i \in 1..(n - (k + 1) + 1) : g[i] = q[(k + 1) + i - 1]
    <3> HIDE DEF n
    <3> QED BY <2>1, <2>2, SubSeqProperties
  <2> HIDE DEF g, n
  <2>4. Len(g) = n - k
    BY <1>1, <2>3
  <2>5. \A i \in 1..(n - k) : i \in 1..(n - (k + 1) + 1) /\ (k + 1) + i - 1 = k + i
    BY <1>1
  <2> QED BY <2>3, <2>4, <2>5
<1> HIDE DEF n, f, g
<1>4. \A i \in 1..n : i \in 1..k \/ (i - k \in 1..(n - k) /\ k + (i - k) = i)
  BY <1>1
<1>5. /\ \A i \in 1..k : i \in 1..n
      /\ \A i \in 1..(n - k) : k + i \in 1..n /\ k + i \notin 1..k
  BY <1>1
<1>6. \A y : In(y, q) <=> In(y, f) \/ In(y, g)
  <2> SUFFICES ASSUME NEW y PROVE In(y, q) <=> In(y, f) \/ In(y, g)
    OBVIOUS
  <2>1. ASSUME In(y, q) PROVE In(y, f) \/ In(y, g)
    <3>1. PICK i \in 1..n : q[i] = y
      BY <2>1 DEF In, n
    <3>2. CASE i \in 1..k
      BY <1>2, <3>1, <3>2 DEF In
    <3>3. CASE i - k \in 1..(n - k) /\ k + (i - k) = i
      <4>1. g[i - k] = y
        BY <1>3, <3>1, <3>3
      <4> QED BY <1>3, <3>3, <4>1 DEF In
    <3> QED BY <1>4, <3>2, <3>3
  <2>2. In(y, f) => In(y, q)
    BY <1>2, <1>5 DEF In, n
  <2>3. In(y, g) => In(y, q)
    BY <1>3, <1>5 DEF In, n
  <2> QED BY <2>1, <2>2, <2>3
<1>7. ASSUME Distinct(q)
      PROVE  Distinct(f) /\ Distinct(g) /\ \A y : ~(In(y, f) /\ In(y, g))
  <2>1. Distinct(f)
    BY <1>2, <1>5, <1>7 DEF Distinct, n
  <2>2. Distinct(g)
    <3>1. ASSUME NEW i \in 1..(n - k), NEW j \in 1..(n - k), g[i] = g[j] PROVE i = j
      <4>1. k + i = k + j
        BY <1>3, <1>5, <1>7, <3>1 DEF Distinct, n
      <4> QED BY <1>1, <4>1
    <3> QED BY <1>3, <3>1 DEF Distinct
  <2>3. ASSUME NEW y, In(y, f), In(y, g) PROVE FALSE
    <3>1. PICK i \in 1..k : f[i] = y
      BY <1>2, <2>3 DEF In
    <3>2. PICK j \in 1..(n - k) : g[j] = y
      BY <1>3, <2>3 DEF In
    <3>3. q[i] = q[k + j] /\ i \in 1..n /\ k + j \in 1..n /\ k + j \notin 1..k
      BY <1>2, <1>3, <1>5, <3>1, <3>2
    <3> QED BY <1>7, <3>1, <3>3 DEF Distinct, n
  <2> QED BY <2>1, <2>2, <2>3
<1> QED BY <1>2, <1>3, <1>6, <1>7 DEF f, g, n

\* A set no two elements of which differ.
LEMMA AtMostOne ==
    ASSUME NEW S, \A p, q \in S : p = q
    PROVE  /\ Cardinality(S) <= 1
           /\ S = {} => Cardinality(S) = 0
           /\ S # {} => Cardinality(S) = 1
<1>1. S = {} => Cardinality(S) = 0
  BY FS_EmptySet
<1>2. S # {} => Cardinality(S) = 1
  <2> SUFFICES ASSUME S # {} PROVE Cardinality(S) = 1
    OBVIOUS
  <2>1. PICK p \in S : TRUE
    OBVIOUS
  <2>2. S = {p}
    BY <2>1
  <2> QED BY <2>2, FS_Singleton
<1> QED BY <1>1, <1>2
=============================================================================
