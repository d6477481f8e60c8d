--------------------------- MODULE CStatePowerProofs ---------------------------
(* Proofs about cstate_power.py and c0_loops.py, for every number of CPUs, *)
(* of idle states, frequencies and repetitions, and every power meter.     *)
EXTENDS CStatePower, SequenceTheorems, WellFoundedInduction, TLAPS

(***************************************************************************)
(* FlattenSeq, by induction on the number of its elements.                 *)
(***************************************************************************)

(* Induction: a set of numbers that is not empty has a least one.          *)
LEMMA LeastNat ==
  ASSUME NEW T, T \subseteq Nat, T # {}
  PROVE  \E m \in T : \A k \in T : m <= k
<1>1. IsWellFoundedOn(OpToRel(<, Nat), Nat)
  BY NatLessThanWellFounded
<1>2. PICK m \in T : \A k \in T : ~(<<k, m>> \in OpToRel(<, Nat))
  BY <1>1, WFMin
<1>3. \A k \in T : ~(k < m)
  BY <1>2 DEF OpToRel
<1>4. QED
  BY <1>3

(* f has the concatenations of the first elements of ss.                   *)
Flattens(f, ss, m) ==
  \A i \in 1 .. m : f[i] = IF i = 1 THEN ss[i] ELSE f[i - 1] \o ss[i]

LEMMA FlattenIsUnique ==
  ASSUME NEW ss, NEW m \in Nat, NEW f, NEW g, Flattens(f, ss, m), Flattens(g, ss, m)
  PROVE  \A i \in 1 .. m : f[i] = g[i]
<1> DEFINE T == {i \in 1 .. m : f[i] # g[i]}
<1> SUFFICES ASSUME T # {} PROVE FALSE
  OBVIOUS
<1>1. PICK i \in T : \A k \in T : i <= k
  <2>1. T \subseteq Nat
    OBVIOUS
  <2> HIDE DEF T
  <2>2. QED
    BY <2>1, LeastNat
<1>2. i \in 1 .. m /\ f[i] # g[i] /\ i \in Nat
  OBVIOUS
<1>3. i # 1
  BY <1>2 DEF Flattens
<1>4. i - 1 \in 1 .. m /\ ~(i <= i - 1)
  BY <1>2, <1>3
<1>5. f[i - 1] = g[i - 1]
  BY <1>1, <1>4
<1>6. QED
  BY <1>2, <1>3, <1>5 DEF Flattens

LEMMA FlattenExists ==
  ASSUME NEW C, \A a, b \in C : a \o b \in C, NEW ss \in Seq(C), NEW m \in 0 .. Len(ss)
  PROVE  \E f \in [1 .. m -> C] : Flattens(f, ss, m)
<1> DEFINE Some(k) == \E f \in [1 .. k -> C] : Flattens(f, ss, k)
           T == {k \in 0 .. Len(ss) : ~Some(k)}
<1> SUFFICES ASSUME T # {} PROVE FALSE
  OBVIOUS
<1>0. Len(ss) \in Nat /\ \A k \in 1 .. Len(ss) : ss[k] \in C
  OBVIOUS
<1>1. PICK k \in T : \A j \in T : k <= j
  <2>1. T \subseteq Nat
    BY <1>0
  <2> HIDE DEF T
  <2>2. QED
    BY <2>1, LeastNat
<1>2. k \in 0 .. Len(ss) /\ ~Some(k)
  OBVIOUS
<1>3. k # 0
  <2>1. [i \in 1 .. 0 |-> {}] \in [1 .. 0 -> C] /\ Flattens([i \in 1 .. 0 |-> {}], ss, 0)
    BY DEF Flattens
  <2>2. QED
    BY <1>2, <2>1
<1>4. k - 1 \in 0 .. Len(ss) /\ ~(k <= k - 1) /\ k \in 1 .. Len(ss) /\ k \in Nat
  BY <1>0, <1>2, <1>3
<1>5. Some(k - 1)
  BY <1>1, <1>4
<1>6. PICK f \in [1 .. k - 1 -> C] : Flattens(f, ss, k - 1)
  BY <1>5
<1> DEFINE g == [i \in 1 .. k |-> IF i < k THEN f[i]
                                 ELSE IF k = 1 THEN ss[1] ELSE f[k - 1] \o ss[k]]
<1>7. g \in [1 .. k -> C]
  <2>1. \A i \in 1 .. k : i < k => i \in 1 .. k - 1
    BY <1>4
  <2>2. k # 1 => k - 1 \in 1 .. k - 1 /\ f[k - 1] \in C
    BY <1>4
  <2>3. k # 1 => f[k - 1] \o ss[k] \in C
    BY <1>0, <1>4, <2>2
  <2>4. ss[1] \in C
    BY <1>0, <1>4
  <2>5. QED
    BY <2>1, <2>3, <2>4
<1>8. Flattens(g, ss, k)
  <2> SUFFICES ASSUME NEW i \in 1 .. k
               PROVE  g[i] = IF i = 1 THEN ss[i] ELSE g[i - 1] \o ss[i]
    BY DEF Flattens
  <2>1. CASE i < k
    <3>1. i \in 1 .. k - 1 /\ g[i] = f[i]
      BY <1>4, <2>1
    <3>2. i # 1 => g[i - 1] = f[i - 1]
      BY <1>4, <2>1
    <3>3. QED
      BY <1>6, <3>1, <3>2 DEF Flattens
  <2>2. CASE i = k
    <3>1. g[k] = IF k = 1 THEN ss[1] ELSE f[k - 1] \o ss[k]
      BY <1>4
    <3>2. k # 1 => g[k - 1] = f[k - 1]
      BY <1>4
    <3> HIDE DEF g
    <3>3. QED
      BY <2>2, <3>1, <3>2
  <2>3. QED
    BY <1>4, <2>1, <2>2
<1>9. QED
  BY <1>2, <1>7, <1>8

(* What FlattenSeq is: the concatenation of all elements, in a set that is *)
(* closed under concatenation.                                             *)
LEMMA FlattenIs ==
  ASSUME NEW C, \A a, b \in C : a \o b \in C, NEW ss \in Seq(C), ss # <<>>,
         NEW f \in [1 .. Len(ss) -> C], Flattens(f, ss, Len(ss))
  PROVE  FlattenSeq(ss) = f[Len(ss)]
<1> DEFINE Eq(h) == h = [i \in 1 .. Len(ss) |->
                           IF i = 1 THEN ss[i] ELSE h[i - 1] \o ss[i]]
           h == CHOOSE h : Eq(h)
<1>1. Len(ss) \in Nat \ {0}
  OBVIOUS
<1>2. Eq(f)
  BY DEF Flattens
<1>3. Eq(h)
  BY <1>2
<1>4. FlattenSeq(ss) = h[Len(ss)]
  BY <1>1 DEF FlattenSeq
<1> HIDE DEF h
<1>5. Flattens(h, ss, Len(ss))
  BY <1>3 DEF Flattens
<1>6. h[Len(ss)] = f[Len(ss)]
  BY <1>1, <1>5, FlattenIsUnique
<1>7. QED
  BY <1>4, <1>6

LEMMA FlattenClosed ==
  ASSUME NEW C, \A a, b \in C : a \o b \in C, NEW ss \in Seq(C), ss # <<>>
  PROVE  FlattenSeq(ss) \in C
<1>1. Len(ss) \in Nat \ {0}
  OBVIOUS
<1>2. PICK f \in [1 .. Len(ss) -> C] : Flattens(f, ss, Len(ss))
  BY <1>1, FlattenExists
<1>3. QED
  BY <1>1, <1>2, FlattenIs

LEMMA FlattenEmpty == FlattenSeq(<<>>) = <<>>
BY DEF FlattenSeq

LEMMA FlattenType ==
  ASSUME NEW S, NEW ss \in Seq(Seq(S))
  PROVE  FlattenSeq(ss) \in Seq(S)
<1>1. \A a, b \in Seq(S) : a \o b \in Seq(S)
  OBVIOUS
<1>2. CASE ss # <<>>
  BY <1>1, <1>2, FlattenClosed
<1>3. CASE ss = <<>>
  <2>1. <<>> \in Seq(S)
    OBVIOUS
  <2>2. QED
    BY <1>3, <2>1, FlattenEmpty
<1>4. QED
  BY <1>2, <1>3

LEMMA FlattenAppend ==
  ASSUME NEW S, NEW ss \in Seq(Seq(S)), NEW t \in Seq(S)
  PROVE  FlattenSeq(Append(ss, t)) = FlattenSeq(ss) \o t
<1> DEFINE C == Seq(S)
           tt == Append(ss, t)
           m == Len(ss)
<1>1. \A a, b \in C : a \o b \in C
  OBVIOUS
<1>2. /\ tt \in Seq(C) /\ Len(tt) = m + 1 /\ m \in Nat /\ tt # <<>>
      /\ \A i \in 1 .. m : tt[i] = ss[i]
      /\ tt[m + 1] = t
  BY AppendProperties
<1> HIDE DEF C, tt, m
<1>3. PICK f \in [1 .. m + 1 -> C] : Flattens(f, tt, m + 1)
  <2>1. m + 1 \in 0 .. Len(tt)
    BY <1>2
  <2>2. QED
    BY <1>1, <1>2, <2>1, FlattenExists
<1>4. FlattenSeq(tt) = f[m + 1]
  BY <1>1, <1>2, <1>3, FlattenIs
<1>5. CASE m = 0
  <2>1. f[1] = tt[1]
    BY <1>3, <1>5 DEF Flattens
  <2>2. ss = <<>>
    BY <1>5 DEF m, C
  <2>3. <<>> \o t = t
    OBVIOUS
  <2>4. QED
    BY <1>2, <1>4, <1>5, <2>1, <2>2, <2>3, FlattenEmpty DEF tt
<1>6. CASE m # 0
  <2> DEFINE g == [i \in 1 .. m |-> f[i]]
  <2>1. g \in [1 .. m -> C]
    BY <1>2
  <2>2. Flattens(g, ss, m)
    <3> SUFFICES ASSUME NEW i \in 1 .. m
                 PROVE  g[i] = IF i = 1 THEN ss[i] ELSE g[i - 1] \o ss[i]
      BY DEF Flattens
    <3>1. i \in 1 .. m + 1 /\ g[i] = f[i] /\ tt[i] = ss[i]
      BY <1>2
    <3>2. i # 1 => i - 1 \in 1 .. m
      BY <1>2
    <3>3. i # 1 => g[i - 1] = f[i - 1]
      BY <3>2
    <3>4. f[i] = IF i = 1 THEN tt[i] ELSE f[i - 1] \o tt[i]
      BY <1>3, <3>1 DEF Flattens
    <3>5. QED
      BY <3>1, <3>3, <3>4
  <2>3. ss # <<>> /\ ss \in Seq(C)
    BY <1>6 DEF m, C
  <2>4. FlattenSeq(ss) = g[m]
    BY <1>1, <2>1, <2>2, <2>3, FlattenIs DEF m
  <2>5. g[m] = f[m] /\ (m + 1) - 1 = m /\ m + 1 # 1 /\ m + 1 \in 1 .. m + 1
    BY <1>2, <1>6
  <2>6. f[m + 1] = f[m] \o tt[m + 1]
    BY <1>3, <2>5 DEF Flattens
  <2>7. QED
    BY <1>2, <1>4, <2>4, <2>5, <2>6 DEF tt
<1>7. QED
  BY <1>5, <1>6

LEMMA Associative ==
  \A S : \A a, b, c \in Seq(S) : (a \o b) \o c = a \o (b \o c)
<1> SUFFICES ASSUME NEW S, NEW a \in Seq(S), NEW b \in Seq(S), NEW c \in Seq(S)
             PROVE  (a \o b) \o c = a \o (b \o c)
  OBVIOUS
<1> DEFINE left == (a \o b) \o c
           right == a \o (b \o c)
<1>1. left \in Seq(S) /\ right \in Seq(S)
  OBVIOUS
<1>2. Len(left) = Len(right)
  OBVIOUS
<1>3. \A k \in 1 .. Len(left) : left[k] = right[k]
  OBVIOUS
<1> HIDE DEF left, right
<1>4. left = right
  BY <1>1, <1>2, <1>3, SeqEqual
<1>5. QED
  BY <1>4 DEF left, right

(* Induction on a sequence that grows at its end.                          *)
LEMMA GrowingSequence ==
  ASSUME NEW A, NEW G, <<>> \in G,
         \A p \in Seq(A) : \A x \in A : p \in G => Append(p, x) \in G
  PROVE  Seq(A) \subseteq G
<1> SUFFICES ASSUME NEW xs \in Seq(A), xs \notin G PROVE FALSE
  OBVIOUS
<1> DEFINE T == {k \in 0 .. Len(xs) : SubSeq(xs, 1, k) \notin G}
<1>0. Len(xs) \in Nat /\ SubSeq(xs, 1, Len(xs)) = xs /\ SubSeq(xs, 1, 0) = <<>>
  BY SubSeqFull, SubSeqEmpty
<1>1. T \subseteq Nat /\ T # {}
  <2>1. SubSeq(xs, 1, Len(xs)) \notin G
    BY <1>0, Zenon
  <2>2. Len(xs) \in 0 .. Len(xs)
    BY <1>0
  <2>3. Len(xs) \in T
    BY <2>1, <2>2
  <2>4. QED
    BY <1>0, <2>3
<1>2. PICK k \in T : \A j \in T : k <= j
  <2> HIDE DEF T
  <2>1. QED
    BY <1>1, LeastNat
<1>3. k \in 0 .. Len(xs) /\ SubSeq(xs, 1, k) \notin G
  BY <1>2
<1>4. k # 0
  BY <1>0, <1>3
<1>5. k - 1 \in 0 .. Len(xs) /\ ~(k <= k - 1) /\ k \in 1 .. Len(xs) /\ k \in Nat
  BY <1>0, <1>3, <1>4
<1>6. SubSeq(xs, 1, k - 1) \in G
  BY <1>2, <1>5
<1>7. SubSeq(xs, 1, k - 1) \in Seq(A) /\ xs[k] \in A
  BY <1>5
<1>8. SubSeq(xs, 1, k) = SubSeq(xs, 1, k - 1) \o <<xs[k]>>
  BY <1>0, <1>5, SubSeqRecursiveSecond
<1> HIDE DEF T
<1>9. SubSeq(xs, 1, k) = Append(SubSeq(xs, 1, k - 1), xs[k])
  BY <1>7, <1>8, AppendIsConcat
<1>10. QED
  BY <1>3, <1>6, <1>7, <1>9

LEMMA AppendToConcat ==
  \A S : \A a, b \in Seq(S) : \A x \in S : a \o Append(b, x) = Append(a \o b, x)
<1> SUFFICES ASSUME NEW S, NEW a \in Seq(S), NEW b \in Seq(S), NEW x \in S
             PROVE  a \o Append(b, x) = Append(a \o b, x)
  OBVIOUS
<1>1. Append(b, x) = b \o <<x>> /\ <<x>> \in Seq(S)
  BY AppendIsConcat
<1>2. a \o b \in Seq(S)
  BY ConcatProperties
<1>3. Append(a \o b, x) = (a \o b) \o <<x>>
  BY <1>2, AppendIsConcat
<1>4. (a \o b) \o <<x>> = a \o (b \o <<x>>)
  BY <1>1, Associative
<1>5. QED
  BY <1>1, <1>3, <1>4

LEMMA NeutralEmpty ==
  ASSUME NEW S, NEW a \in Seq(S)
  PROVE  a \o <<>> = a /\ <<>> \o a = a
OBVIOUS

LEMMA FlattenConcat ==
  ASSUME NEW S, NEW ss \in Seq(Seq(S)), NEW tt \in Seq(Seq(S))
  PROVE  FlattenSeq(ss \o tt) = FlattenSeq(ss) \o FlattenSeq(tt)
<1> DEFINE C == Seq(S)
           G == {p \in Seq(C) : FlattenSeq(ss \o p) = FlattenSeq(ss) \o FlattenSeq(p)}
<1>1. <<>> \in G
  <2>1. FlattenSeq(ss) \in Seq(S)
    BY FlattenType
  <2>2. ss \o <<>> = ss /\ FlattenSeq(ss) \o <<>> = FlattenSeq(ss)
    BY <2>1, NeutralEmpty
  <2>3. <<>> \in Seq(C)
    OBVIOUS
  <2>4. QED
    BY <2>2, <2>3, FlattenEmpty
<1>2. ASSUME NEW p \in Seq(C), NEW x \in C, p \in G
      PROVE  Append(p, x) \in G
  <2>0. ss \in Seq(C) /\ x \in Seq(S)
    OBVIOUS
  <2>1. FlattenSeq(ss \o p) = FlattenSeq(ss) \o FlattenSeq(p)
    BY <1>2
  <2> HIDE DEF G
  <2>2. /\ FlattenSeq(ss) \in Seq(S) /\ FlattenSeq(p) \in Seq(S)
    BY FlattenType
  <2>3. ss \o p \in Seq(C) /\ Append(p, x) \in Seq(C)
    BY <2>0, ConcatProperties, AppendProperties
  <2>4. FlattenSeq(Append(ss \o p, x)) = FlattenSeq(ss \o p) \o x
    BY <2>3, FlattenAppend
  <2>5. FlattenSeq(Append(p, x)) = FlattenSeq(p) \o x
    BY FlattenAppend
  <2>6. ss \o Append(p, x) = Append(ss \o p, x)
    BY <2>0, AppendToConcat
  <2>7. (FlattenSeq(ss) \o FlattenSeq(p)) \o x = FlattenSeq(ss) \o (FlattenSeq(p) \o x)
    BY <2>0, <2>2, Associative
  <2>8. QED
    BY <2>1, <2>3, <2>4, <2>5, <2>6, <2>7 DEF G
<1> HIDE DEF G
<1>3. Seq(C) \subseteq G
  BY <1>1, <1>2, GrowingSequence
<1>4. QED
  BY <1>3 DEF G

LEMMA SeqMonotone ==
  ASSUME NEW S, NEW T, S \subseteq T, NEW xs \in Seq(S)
  PROVE  xs \in Seq(T)
OBVIOUS

LEMMA NotEmptyClosed ==
  ASSUME NEW S
  PROVE  \A a, b \in Seq(S) \ {<<>>} : a \o b \in Seq(S) \ {<<>>}
OBVIOUS

LEMMA FunctionIsSeq ==
  ASSUME NEW m \in Nat, NEW S, NEW f \in [1 .. m -> S]
  PROVE  f \in Seq(S) /\ Len(f) = m
OBVIOUS

(* What a function makes of each element, concatenated.                    *)
Maps(A, B) == [A -> B]
Mapped(f, xs) == [k \in DOMAIN xs |-> f[xs[k]]]
FlatMap(f, xs) == FlattenSeq(Mapped(f, xs))

LEMMA MappedIs ==
  ASSUME NEW A, NEW B, NEW f \in Maps(A, B), NEW xs \in Seq(A)
  PROVE  Mapped(f, xs) \in Seq(B) /\ Len(Mapped(f, xs)) = Len(xs)
<1>1. DOMAIN xs = 1 .. Len(xs) /\ Len(xs) \in Nat
  OBVIOUS
<1>2. Mapped(f, xs) \in [1 .. Len(xs) -> B]
  BY <1>1 DEF Mapped, Maps
<1>3. QED
  BY <1>1, <1>2, FunctionIsSeq

LEMMA MappedConcat ==
  ASSUME NEW A, NEW B, NEW f \in Maps(A, B), NEW xs \in Seq(A), NEW ys \in Seq(A)
  PROVE  Mapped(f, xs \o ys) = Mapped(f, xs) \o Mapped(f, ys)
<1> DEFINE both == Mapped(f, xs \o ys)
           left == Mapped(f, xs)
           right == Mapped(f, ys)
<1>1. xs \o ys \in Seq(A) /\ Len(xs \o ys) = Len(xs) + Len(ys)
  OBVIOUS
<1>2. both \in Seq(B) /\ Len(both) = Len(xs) + Len(ys)
  <2>1. \A zs \in Seq(A) : Mapped(f, zs) \in Seq(B) /\ Len(Mapped(f, zs)) = Len(zs)
    BY MappedIs
  <2>2. QED
    BY <1>1, <2>1, Zenon
<1>3. left \in Seq(B) /\ Len(left) = Len(xs) /\ right \in Seq(B) /\ Len(right) = Len(ys)
  BY MappedIs
<1>4. \A k \in 1 .. Len(xs) + Len(ys) : both[k] = f[(xs \o ys)[k]]
  BY <1>1 DEF Mapped
<1>5. /\ \A k \in 1 .. Len(xs) : left[k] = f[xs[k]]
      /\ \A k \in 1 .. Len(ys) : right[k] = f[ys[k]]
  BY DEF Mapped
<1> HIDE DEF both, left, right
<1>6. left \o right \in Seq(B) /\ Len(left \o right) = Len(xs) + Len(ys)
  BY <1>3
<1>7. ASSUME NEW k \in 1 .. Len(xs) + Len(ys) PROVE both[k] = (left \o right)[k]
  <2>0. Len(xs) \in Nat /\ Len(ys) \in Nat
    OBVIOUS
  <2>1. CASE k <= Len(xs)
    <3>1. (xs \o ys)[k] = xs[k] /\ (left \o right)[k] = left[k] /\ k \in 1 .. Len(xs)
      BY <1>3, <2>0, <2>1
    <3>2. QED
      BY <1>4, <1>5, <3>1
  <2>2. CASE ~(k <= Len(xs))
    <3>1. /\ (xs \o ys)[k] = ys[k - Len(xs)] /\ (left \o right)[k] = right[k - Len(xs)]
          /\ k - Len(xs) \in 1 .. Len(ys)
      BY <1>3, <2>0, <2>2
    <3>2. QED
      BY <1>4, <1>5, <3>1
  <2>3. QED
    BY <2>1, <2>2
<1>8. both = left \o right
  BY <1>2, <1>6, <1>7, SeqEqual
<1>9. QED
  BY <1>8 DEF both, left, right

LEMMA FlatMapType ==
  ASSUME NEW A, NEW S, NEW f \in Maps(A, Seq(S)), NEW xs \in Seq(A)
  PROVE  FlatMap(f, xs) \in Seq(S)
BY MappedIs, FlattenType DEF FlatMap

LEMMA FlatMapEmpty == \A f : FlatMap(f, <<>>) = <<>>
<1>1. \A f : Mapped(f, <<>>) = <<>>
  BY DEF Mapped
<1>2. QED
  BY <1>1, FlattenEmpty DEF FlatMap

LEMMA FlatMapConcat ==
  ASSUME NEW A, NEW S, NEW f \in Maps(A, Seq(S)), NEW xs \in Seq(A), NEW ys \in Seq(A)
  PROVE  FlatMap(f, xs \o ys) = FlatMap(f, xs) \o FlatMap(f, ys)
<1>1. Mapped(f, xs) \in Seq(Seq(S)) /\ Mapped(f, ys) \in Seq(Seq(S))
  BY MappedIs
<1>2. Mapped(f, xs \o ys) = Mapped(f, xs) \o Mapped(f, ys)
  BY MappedConcat
<1>3. QED
  BY <1>1, <1>2, FlattenConcat DEF FlatMap

LEMMA FlatMapOne ==
  ASSUME NEW A, NEW S, NEW f \in Maps(A, Seq(S)), NEW x \in A
  PROVE  FlatMap(f, <<x>>) = f[x]
<1>1. Mapped(f, <<x>>) = Append(<<>>, f[x])
  BY DEF Mapped
<1>2. FlattenSeq(Append(<<>>, f[x])) = FlattenSeq(<<>>) \o f[x]
  <2>1. <<>> \in Seq(Seq(S)) /\ f[x] \in Seq(S)
    BY DEF Maps
  <2>2. QED
    BY <2>1, FlattenAppend
<1>3. <<>> \o f[x] = f[x]
  <2>1. f[x] \in Seq(S)
    BY DEF Maps
  <2>2. QED
    BY <2>1, NeutralEmpty
<1>4. QED
  BY <1>1, <1>2, <1>3, FlattenEmpty DEF FlatMap

LEMMA FlatMapAppend ==
  ASSUME NEW A, NEW S, NEW f \in Maps(A, Seq(S)), NEW xs \in Seq(A), NEW x \in A
  PROVE  FlatMap(f, Append(xs, x)) = FlatMap(f, xs) \o f[x]
<1>1. Append(xs, x) = xs \o <<x>> /\ <<x>> \in Seq(A)
  BY AppendIsConcat
<1>2. FlatMap(f, xs \o <<x>>) = FlatMap(f, xs) \o FlatMap(f, <<x>>)
  <2>1. \A ys \in Seq(A) : FlatMap(f, xs \o ys) = FlatMap(f, xs) \o FlatMap(f, ys)
    BY FlatMapConcat
  <2>2. QED
    BY <1>1, <2>1, Zenon
<1>3. QED
  BY <1>1, <1>2, FlatMapOne

(* One map after another one is a map.                                     *)
LEMMA FlatMapTwice ==
  ASSUME NEW A, NEW B, NEW S, NEW f \in Maps(A, Seq(B)), NEW g \in Maps(B, Seq(S)),
         NEW h \in Maps(A, Seq(S)), \A x \in A : FlatMap(g, f[x]) = h[x],
         NEW xs \in Seq(A)
  PROVE  FlatMap(g, FlatMap(f, xs)) = FlatMap(h, xs)
<1> DEFINE G == {p \in Seq(A) : FlatMap(g, FlatMap(f, p)) = FlatMap(h, p)}
<1>1. <<>> \in G
  <2>1. <<>> \in Seq(A)
    OBVIOUS
  <2>2. QED
    BY <2>1, FlatMapEmpty
<1>2. ASSUME NEW p \in Seq(A), NEW x \in A, p \in G
      PROVE  Append(p, x) \in G
  <2>1. FlatMap(g, FlatMap(f, p)) = FlatMap(h, p)
    BY <1>2
  <2> HIDE DEF G
  <2>2. /\ FlatMap(f, Append(p, x)) = FlatMap(f, p) \o f[x]
        /\ FlatMap(h, Append(p, x)) = FlatMap(h, p) \o h[x]
    BY FlatMapAppend
  <2>3. FlatMap(f, p) \in Seq(B) /\ f[x] \in Seq(B)
    BY FlatMapType DEF Maps
  <2>4. FlatMap(g, FlatMap(f, p) \o f[x]) = FlatMap(g, FlatMap(f, p)) \o FlatMap(g, f[x])
    BY <2>3, FlatMapConcat
  <2>5. Append(p, x) \in Seq(A)
    BY AppendProperties
  <2>6. QED
    BY <2>1, <2>2, <2>4, <2>5 DEF G
<1> HIDE DEF G
<1>3. Seq(A) \subseteq G
  BY <1>1, <1>2, GrowingSequence
<1>4. QED
  BY <1>3 DEF G

(* A map that gives nothing for any of the elements.                       *)
LEMMA FlatMapNothing ==
  ASSUME NEW A, NEW S, NEW f \in Maps(A, Seq(S)), NEW xs \in Seq(A),
         \A k \in DOMAIN xs : f[xs[k]] = <<>>
  PROVE  FlatMap(f, xs) = <<>>
<1> DEFINE N == {x \in A : f[x] = <<>>}
           nothing == [x \in N |-> <<>>]
           G == {p \in Seq(N) : FlatMap(nothing, p) = <<>>}
<1>1. <<>> \in G
  <2>1. <<>> \in Seq(N)
    OBVIOUS
  <2>2. QED
    BY <2>1, FlatMapEmpty
<1>2. ASSUME NEW p \in Seq(N), NEW x \in N, p \in G
      PROVE  Append(p, x) \in G
  <2>1. FlatMap(nothing, p) = <<>>
    BY <1>2
  <2>2. nothing \in Maps(N, Seq(S)) /\ nothing[x] = <<>>
    BY DEF Maps
  <2> HIDE DEF G, N, nothing
  <2>3. FlatMap(nothing, Append(p, x)) = FlatMap(nothing, p) \o nothing[x]
    BY <2>2, FlatMapAppend
  <2>4. Append(p, x) \in Seq(N) /\ <<>> \o <<>> = <<>>
    BY AppendProperties
  <2>5. QED
    BY <2>1, <2>2, <2>3, <2>4 DEF G
<1> HIDE DEF G
<1>3. Seq(N) \subseteq G
  <2> HIDE DEF N
  <2>1. QED
    BY <1>1, <1>2, GrowingSequence
<1>4. xs \in Seq(N)
  OBVIOUS
<1>5. Mapped(f, xs) = Mapped(nothing, xs)
  BY <1>4 DEF Mapped
<1>6. FlatMap(nothing, xs) = <<>>
  BY <1>3, <1>4 DEF G
<1>7. QED
  BY <1>5, <1>6 DEF FlatMap

-----------------------------------------------------------------------------

(* The configurations of the two scripts.                                  *)
Frequencies == ToSet(frequencies)
Loops == ToSet(Implementations)

All(freq, base) == Configuration(freq, base, base, 0, "all")
Linear(freq, base, shallow, count) ==
  Configuration(freq, base, shallow, count, "linear")

CStateLabels ==
  {All(freq, base) : freq \in Frequencies, base \in States} \union
  {label \in {Linear(freq, base, shallow, count) : freq \in Frequencies,
       base \in States, shallow \in States, count \in 1 .. NbCpus} :
     label.base_state # label.shallow_state}

C0Labels == [implementation : Loops, frequency : Frequencies]

LEMMA Parameters ==
  /\ NbCpus \in Nat \ {0} /\ Repetitions \in Nat \ {0} /\ MaxReadings \in Nat
  /\ DOMAIN test_states = 1 .. Len(test_states) /\ Len(test_states) \in Nat \ {0}
  /\ DOMAIN frequencies = 1 .. Len(frequencies) /\ Len(frequencies) \in Nat \ {0}
  /\ \A b \in DOMAIN test_states : test_states[b] \in States
  /\ \A f \in DOMAIN frequencies : frequencies[f] \in Frequencies
  /\ Initial \subseteq States
BY CpusAssumption, StatesAssumption DEF States, Frequencies, ToSet

LEMMA OfBaseType ==
  ASSUME NEW freq \in Frequencies, NEW b \in DOMAIN test_states
  PROVE  OfBase(freq, b) \in Seq(CStateLabels) \ {<<>>}
<1> DEFINE line(s) == [count \in 1 .. NbCpus |->
                        Configuration(freq, test_states[b], test_states[s], count, "linear")]
           lines == [s \in 1 .. b - 1 |-> line(s)]
           first == Configuration(freq, test_states[b], test_states[b], 0, "all")
<1>1. b \in 1 .. Len(test_states) /\ Len(test_states) \in Nat /\ b - 1 \in Nat
  BY Parameters
<1>2. ASSUME NEW s \in 1 .. b - 1
      PROVE  line(s) \in Seq(CStateLabels)
  <2>1. s \in DOMAIN test_states /\ s # b
    BY <1>1, Parameters
  <2>2. test_states[s] # test_states[b]
    BY <2>1, StatesAssumption DEF IsInjective
  <2>3. test_states[b] \in States /\ test_states[s] \in States
    BY <2>1, Parameters
  <2>4. ASSUME NEW count \in 1 .. NbCpus
        PROVE  Linear(freq, test_states[b], test_states[s], count) \in CStateLabels
    <3> DEFINE it == Linear(freq, test_states[b], test_states[s], count)
    <3>1. it.base_state = test_states[b] /\ it.shallow_state = test_states[s]
      BY DEF Linear, Configuration
    <3> HIDE DEF it
    <3>2. it \in {Linear(f, base, shallow, c) : f \in Frequencies,
                    base \in States, shallow \in States, c \in 1 .. NbCpus}
      BY <2>3 DEF it
    <3>3. QED
      BY <2>2, <3>1, <3>2 DEF CStateLabels, it
  <2>5. line(s) \in [1 .. NbCpus -> CStateLabels]
    BY <2>4 DEF Linear
  <2> HIDE DEF line
  <2>6. QED
    BY <2>5, Parameters, FunctionIsSeq
<1> HIDE DEF line
<1>3. lines \in Seq(Seq(CStateLabels))
  <2>1. lines \in [1 .. b - 1 -> Seq(CStateLabels)]
    BY <1>2
  <2> HIDE DEF lines
  <2>2. QED
    BY <1>1, <2>1, FunctionIsSeq
<1>4. FlattenSeq(lines) \in Seq(CStateLabels)
  BY <1>3, FlattenType
<1>5. first \in CStateLabels
  <2>1. test_states[b] \in States
    BY Parameters
  <2>2. QED
    BY <2>1 DEF CStateLabels, All
<1>6. OfBase(freq, b) = <<first>> \o FlattenSeq(lines)
  BY DEF OfBase, lines, line
<1> HIDE DEF first, lines
<1>7. <<first>> \in Seq(CStateLabels) /\ <<first>> # <<>>
  BY <1>5
<1>8. QED
  BY <1>4, <1>6, <1>7

LEMMA CStateConfigurations == cstate_configurations \in Seq(CStateLabels) \ {<<>>}
<1> DEFINE C == Seq(CStateLabels) \ {<<>>}
           bases(f) == [b \in DOMAIN test_states |-> OfBase(frequencies[f], b)]
           all == [f \in DOMAIN frequencies |-> FlattenSeq(bases(f))]
<1>1. \A a, b \in C : a \o b \in C
  BY NotEmptyClosed
<1>2. ASSUME NEW f \in DOMAIN frequencies PROVE FlattenSeq(bases(f)) \in C
  <2>1. \A b \in DOMAIN test_states : OfBase(frequencies[f], b) \in C
    BY Parameters, OfBaseType
  <2>2. bases(f) \in [1 .. Len(test_states) -> C]
    BY <2>1, Parameters
  <2> HIDE DEF C, bases
  <2>3. bases(f) \in Seq(C) /\ Len(bases(f)) = Len(test_states)
    BY <2>2, Parameters, FunctionIsSeq
  <2>4. bases(f) # <<>>
    BY <2>3, Parameters
  <2>5. QED
    BY <1>1, <2>3, <2>4, FlattenClosed
<1> HIDE DEF C, bases
<1>3. all \in [1 .. Len(frequencies) -> C]
  BY <1>2, Parameters
<1>4. cstate_configurations = FlattenSeq(all)
  BY DEF cstate_configurations, all, bases
<1> HIDE DEF all
<1>5. all \in Seq(C) /\ Len(all) = Len(frequencies)
  BY <1>3, Parameters, FunctionIsSeq
<1>6. all # <<>>
  BY <1>5, Parameters
<1>7. cstate_configurations \in C
  BY <1>1, <1>4, <1>5, <1>6, FlattenClosed
<1>8. QED
  BY <1>7 DEF C

LEMMA C0Configurations == c0_configurations \in Seq(C0Labels) \ {<<>>}
<1> DEFINE C == Seq(C0Labels) \ {<<>>}
           loops(f) == [x \in DOMAIN Implementations |->
             [implementation |-> Implementations[x], frequency |-> frequencies[f]]]
           once == [f \in DOMAIN frequencies |-> loops(f)]
           all == [repetition \in 1 .. Repetitions |-> FlattenSeq(once)]
<1>1. \A a, b \in C : a \o b \in C
  BY NotEmptyClosed
<1>2. ASSUME NEW f \in DOMAIN frequencies PROVE loops(f) \in C
  <2>1. DOMAIN Implementations = 1 .. 5
    BY DEF Implementations
  <2>2. \A x \in 1 .. 5 : Implementations[x] \in Loops
    BY <2>1 DEF Loops, ToSet
  <2>3. loops(f) \in [1 .. 5 -> C0Labels]
    BY <2>1, <2>2, Parameters DEF C0Labels
  <2> HIDE DEF loops
  <2>4. loops(f) \in Seq(C0Labels) /\ Len(loops(f)) = 5
    BY <2>3, FunctionIsSeq
  <2>5. QED
    BY SMTT(20), <2>4
<1> HIDE DEF C, loops
<1>3. once \in [1 .. Len(frequencies) -> C]
  BY <1>2, Parameters
<1>4. c0_configurations = FlattenSeq(all)
  BY DEF c0_configurations, all, once, loops
<1> HIDE DEF once
<1>5. once \in Seq(C) /\ Len(once) = Len(frequencies)
  BY <1>3, Parameters, FunctionIsSeq
<1>6. once # <<>>
  BY <1>5, Parameters
<1>7. FlattenSeq(once) \in C
  BY <1>1, <1>5, <1>6, FlattenClosed
<1>8. all \in [1 .. Repetitions -> C]
  BY <1>7
<1> HIDE DEF all
<1>9. all \in Seq(C) /\ Len(all) = Repetitions
  BY <1>8, Parameters, FunctionIsSeq
<1>10. all # <<>>
  BY <1>9, Parameters
<1>11. c0_configurations \in C
  BY <1>1, <1>4, <1>9, <1>10, FlattenClosed
<1>12. QED
  BY <1>11 DEF C

-----------------------------------------------------------------------------

(* The readings of the meter and the rows made of them.                    *)
Phases == {"set_frequency", "set_states", "first_tenth", "body", "last_tenth"}
Readings ==
  [of : Nat, in : Phases, enabled : [Cpus -> SUBSET States],
   frequency : Frequencies \union {0}, running : SUBSET (Cpus \X Loops)]
Labels == CStateLabels \union C0Labels
AllRows == [label : Labels, power : {<<>>} \union {<<r>> : r \in Readings}]

(* The readings of the bodies of some experiments, the rows of experiment  *)
(* e with label c, the readings of the rows.                               *)
BodyOf(S) ==
  [r \in Readings |-> IF r.in = "body" /\ r.of \in S THEN <<r>> ELSE <<>>]
RowOf(e, c) ==
  [r \in Readings |-> IF r.of = e /\ r.in \in {"body"}
                     THEN <<[label |-> c, power |-> <<r>>]>> ELSE <<>>]
PowerOf == [row \in AllRows |-> row.power]

Ordered(xs) == \A i, j \in DOMAIN xs : i < j => xs[i].of <= xs[j].of

LEMMA RowIs ==
  \A r \in Readings : \A c \in Labels : [label |-> c, power |-> <<r>>] \in AllRows
<1> SUFFICES ASSUME NEW r \in Readings, NEW c \in Labels
             PROVE  [label |-> c, power |-> <<r>>] \in AllRows
  OBVIOUS
<1> DEFINE one == <<r>>
           Powers == {<<>>} \union {<<q>> : q \in Readings}
<1>1. one \in Powers
  OBVIOUS
<1>2. AllRows = [label : Labels, power : Powers]
  BY DEF AllRows
<1> HIDE DEF one, Powers
<1>3. [label |-> c, power |-> one] \in AllRows
  BY <1>1, <1>2
<1>4. QED
  BY <1>3 DEF one

LEMMA ReadingMaps ==
  /\ \A S : BodyOf(S) \in Maps(Readings, Seq(Readings))
  /\ \A e : \A c \in Labels : RowOf(e, c) \in Maps(Readings, Seq(AllRows))
  /\ PowerOf \in Maps(AllRows, Seq(Readings))
<1>1. \A S : BodyOf(S) \in Maps(Readings, Seq(Readings))
  BY DEF BodyOf, Maps
<1>2. ASSUME NEW e, NEW c \in Labels
      PROVE  RowOf(e, c) \in Maps(Readings, Seq(AllRows))
  <2> DEFINE row(r) == [label |-> c, power |-> <<r>>]
  <2>1. ASSUME NEW r \in Readings PROVE row(r) \in AllRows
    BY RowIs
  <2> HIDE DEF row
  <2>2. \A r \in Readings : <<row(r)>> \in Seq(AllRows)
    BY <2>1
  <2>3. <<>> \in Seq(AllRows)
    OBVIOUS
  <2>4. RowOf(e, c) = [r \in Readings |->
          IF r.of = e /\ r.in \in {"body"} THEN <<row(r)>> ELSE <<>>]
    BY DEF RowOf, row
  <2>5. QED
    BY <2>2, <2>3, <2>4 DEF Maps
<1>3. PowerOf \in Maps(AllRows, Seq(Readings))
  <2>1. {<<>>} \union {<<r>> : r \in Readings} \subseteq Seq(Readings)
    <3>1. <<>> \in Seq(Readings) /\ \A r \in Readings : <<r>> \in Seq(Readings)
      OBVIOUS
    <3>2. QED
      BY <3>1, Zenon
  <2>2. \A row \in AllRows : row.power \in {<<>>} \union {<<r>> : r \in Readings}
    BY DEF AllRows
  <2>3. \A row \in AllRows : row.power \in Seq(Readings)
    BY <2>1, <2>2
  <2>4. QED
    BY <2>3 DEF PowerOf, Maps
<1>4. QED
  BY <1>1, <1>2, <1>3

(* The rows of an experiment hold the readings of its body.                *)
LEMMA RowsHoldTheBody ==
  ASSUME NEW xs \in Seq(Readings), NEW e, NEW c \in Labels
  PROVE  FlatMap(PowerOf, FlatMap(RowOf(e, c), xs)) = FlatMap(BodyOf({e}), xs)
<1>1. ASSUME NEW r \in Readings
      PROVE  FlatMap(PowerOf, RowOf(e, c)[r]) = BodyOf({e})[r]
  <2> DEFINE row == [label |-> c, power |-> <<r>>]
  <2>1. row \in AllRows /\ row.power = <<r>>
    BY RowIs
  <2>2. FlatMap(PowerOf, <<row>>) = <<r>>
    <3> HIDE DEF row
    <3>1. PowerOf \in Maps(AllRows, Seq(Readings)) /\ PowerOf[row] = <<r>>
      BY <2>1, ReadingMaps DEF PowerOf
    <3>2. QED
      BY <2>1, <3>1, FlatMapOne
  <2>3. FlatMap(PowerOf, <<>>) = <<>>
    BY FlatMapEmpty
  <2>4. RowOf(e, c)[r] = IF r.of = e /\ r.in = "body" THEN <<row>> ELSE <<>>
    BY DEF RowOf
  <2>5. BodyOf({e})[r] = IF r.of = e /\ r.in = "body" THEN <<r>> ELSE <<>>
    BY DEF BodyOf
  <2> HIDE DEF row
  <2>6. QED
    BY <2>2, <2>3, <2>4, <2>5
<1>2. /\ RowOf(e, c) \in Maps(Readings, Seq(AllRows))
      /\ PowerOf \in Maps(AllRows, Seq(Readings))
      /\ BodyOf({e}) \in Maps(Readings, Seq(Readings))
  BY ReadingMaps
<1> DEFINE f == RowOf(e, c)
           g == PowerOf
           h == BodyOf({e})
<1>3. \A r \in Readings : FlatMap(g, f[r]) = h[r]
  BY <1>1
<1>4. /\ f \in Maps(Readings, Seq(AllRows)) /\ g \in Maps(AllRows, Seq(Readings))
      /\ h \in Maps(Readings, Seq(Readings))
  BY <1>2
<1> HIDE DEF f, g, h
<1>5. FlatMap(g, FlatMap(f, xs)) = FlatMap(h, xs)
  BY <1>3, <1>4, FlatMapTwice
<1>6. QED
  BY <1>5 DEF f, g, h

LEMMA BodiesSplit ==
  ASSUME NEW xs \in Seq(Readings), Ordered(xs), NEW e \in Nat
  PROVE  FlatMap(BodyOf(1 .. e + 1), xs) =
           FlatMap(BodyOf(1 .. e), xs) \o FlatMap(BodyOf({e + 1}), xs)
<1> DEFINE of(S, p) == FlatMap(BodyOf(S), p)
           G == {p \in Seq(Readings) : Ordered(p) =>
                   of(1 .. e + 1, p) = of(1 .. e, p) \o of({e + 1}, p)}
<1>0. /\ \A S : BodyOf(S) \in Maps(Readings, Seq(Readings))
      /\ \A S : \A p \in Seq(Readings) : of(S, p) \in Seq(Readings)
  BY ReadingMaps, FlatMapType
<1>1. <<>> \in G
  <2>1. \A S : of(S, <<>>) = <<>>
    BY FlatMapEmpty
  <2>2. <<>> \in Seq(Readings) /\ <<>> \o <<>> = <<>>
    OBVIOUS
  <2> HIDE DEF of
  <2>3. QED
    BY <2>1, <2>2
<1>2. ASSUME NEW p \in Seq(Readings), NEW r \in Readings, p \in G
      PROVE  Append(p, r) \in G
  <2>1. Append(p, r) \in Seq(Readings)
    BY AppendProperties
  <2>2. SUFFICES ASSUME Ordered(Append(p, r))
                 PROVE  of(1 .. e + 1, Append(p, r)) =
                          of(1 .. e, Append(p, r)) \o of({e + 1}, Append(p, r))
    BY <2>1
  <2>3. Ordered(p) /\ \A i \in DOMAIN p : p[i].of <= r.of
    <3>1. /\ DOMAIN p = 1 .. Len(p) /\ Len(p) \in Nat
          /\ DOMAIN Append(p, r) = 1 .. Len(p) + 1
          /\ \A i \in 1 .. Len(p) : Append(p, r)[i] = p[i]
          /\ Append(p, r)[Len(p) + 1] = r
      OBVIOUS
    <3>2. Ordered(p)
      BY <2>2, <3>1 DEF Ordered
    <3>3. \A i \in 1 .. Len(p) : i < Len(p) + 1
      BY <3>1
    <3>4. QED
      BY <2>2, <3>1, <3>2, <3>3 DEF Ordered
  <2>4. of(1 .. e + 1, p) = of(1 .. e, p) \o of({e + 1}, p)
    BY <1>2, <2>3
  <2>5. \A S : of(S, Append(p, r)) = of(S, p) \o BodyOf(S)[r]
    BY <1>0, FlatMapAppend
  <2>6. r.of \in Nat /\ \A i \in DOMAIN p : p[i] \in Readings /\ p[i].of \in Nat
    <3>1. \A q \in Readings : q.of \in Nat
      BY DEF Readings
    <3>2. \A i \in DOMAIN p : p[i] \in Readings
      OBVIOUS
    <3>3. QED
      BY <3>1, <3>2
  <2>7. \A S : BodyOf(S)[r] = IF r.in = "body" /\ r.of \in S THEN <<r>> ELSE <<>>
    BY DEF BodyOf
  <2>8. r.of <= e => of({e + 1}, p) = <<>>
    <3> SUFFICES ASSUME r.of <= e PROVE of({e + 1}, p) = <<>>
      OBVIOUS
    <3>1. \A i \in DOMAIN p : BodyOf({e + 1})[p[i]] = <<>>
      BY <2>3, <2>6 DEF BodyOf
    <3>2. QED
      BY <1>0, <3>1, FlatMapNothing
  <2> DEFINE before == of(1 .. e, p)
             here == of({e + 1}, p)
  <2>9. before \in Seq(Readings) /\ here \in Seq(Readings) /\ <<r>> \in Seq(Readings)
    BY <1>0
  <2> HIDE DEF of, G, before, here
  <2>10. CASE r.in = "body" /\ r.of <= e
    <3>1. (r.of \in 1 .. e) = (r.of \in 1 .. e + 1) /\ r.of # e + 1
      BY <2>6, <2>10
    <3>2. BodyOf(1 .. e + 1)[r] = BodyOf(1 .. e)[r] /\ BodyOf({e + 1})[r] = <<>>
      BY <2>7, <3>1
    <3>3. here = <<>> /\ BodyOf(1 .. e)[r] \in Seq(Readings)
      BY <2>7, <2>8, <2>9, <2>10 DEF here
    <3>4. (before \o <<>>) \o BodyOf(1 .. e)[r] =
            (before \o BodyOf(1 .. e)[r]) \o (<<>> \o <<>>)
      BY <2>9, <3>3
    <3>5. QED
      BY <2>4, <2>5, <3>2, <3>3, <3>4 DEF before, here
  <2>11. CASE r.in = "body" /\ r.of = e + 1
    <3>1. r.of \in 1 .. e + 1 /\ r.of \notin 1 .. e
      BY <2>11
    <3>2. /\ BodyOf(1 .. e + 1)[r] = <<r>> /\ BodyOf(1 .. e)[r] = <<>>
          /\ BodyOf({e + 1})[r] = <<r>>
      BY <2>7, <2>11, <3>1
    <3>3. (before \o here) \o <<r>> = before \o (here \o <<r>>)
      <4>1. \A a, b, c \in Seq(Readings) : (a \o b) \o c = a \o (b \o c)
        BY SMTT(20), Associative
      <4>2. QED
        BY SMTT(20), <2>9, <4>1
    <3>4. before \o <<>> = before
      BY <2>9
    <3>5. QED
      BY <2>4, <2>5, <3>2, <3>3, <3>4 DEF before, here
  <2>12. CASE r.in # "body" \/ (~(r.of <= e) /\ r.of # e + 1)
    <3>1. \A S \in {1 .. e + 1, 1 .. e, {e + 1}} : BodyOf(S)[r] = <<>>
      BY <2>6, <2>7, <2>12
    <3>2. (before \o here) \o <<>> = (before \o <<>>) \o (here \o <<>>)
      BY <2>9
    <3>3. QED
      BY <2>4, <2>5, <3>1, <3>2 DEF before, here
  <2>13. QED
    BY <2>10, <2>11, <2>12
<1> HIDE DEF G
<1>3. xs \in G
  BY <1>1, <1>2, GrowingSequence
<1>4. QED
  BY <1>3 DEF G

-----------------------------------------------------------------------------

(* What the invariant says of script, machine and meter.                   *)
Ends == {"collect", "report", "done", "raised"}
Applied == {"set_states", "first_tenth", "body", "last_tenth"}

Typed ==
  /\ script \in {"cstate_power", "c0_loops"}
  /\ pc \in Phases \union Ends
  /\ n \in 1 .. Len(configurations)
  /\ todo \subseteq States
  /\ enabled \in [Cpus -> SUBSET States]
  /\ frequency \in Frequencies \union {0}
  /\ running \subseteq Cpus \X Loops
  /\ readings \in Seq(Readings) /\ Len(readings) <= MaxReadings

(* While a configuration is measured, the machine is in it.                *)
Machine ==
  /\ pc \notin {"set_states", "raised"} \/ script = "c0_loops" => todo = {}
  /\ pc \in Applied => frequency = configurations[n].frequency
  /\ pc \in Applied /\ script = "cstate_power" =>
       \A cpu \in Cpus : states[cpu] \notin todo => enabled[cpu] = {states[cpu]}
  /\ pc = "body" => running = Load

(* Reading r was taken in configuration c of the script.                   *)
Tells(r, c, of_script) ==
  /\ r.frequency = c.frequency
  /\ of_script = "c0_loops" =>
       r.running = IF c.implementation = "POLL" THEN {} ELSE Cpus \X {c.implementation}
  /\ of_script = "cstate_power" =>
       /\ \A cpu \in Cpus : r.enabled[cpu] = {c.states[cpu]}
       /\ r.running = {cpu \in Cpus : c.states[cpu] = "POLL"} \X {"pause"}

Meter ==
  /\ Ordered(readings)
  /\ \A k \in DOMAIN readings :
       /\ readings[k].of \in 1 .. Len(configurations)
       /\ pc \in Phases => readings[k].of <= n
       /\ readings[k].in = "body" =>
            Tells(readings[k], configurations[readings[k].of], script)

(* How far the script is.                                                  *)
FirstOnes(m) == [e \in 1 .. m |-> e]

Progress ==
  /\ pc \in Phases => samples = <<>> /\ experiments = FirstOnes(n - 1)
  /\ pc \in {"collect", "report", "done"} =>
       experiments = FirstOnes(Len(configurations))
  /\ experiments \in Seq(1 .. Len(configurations))

(* The rows that may be among the samples.                                 *)
TrueRows ==
  {[label |-> configurations[e], power |-> <<>>] : e \in DOMAIN configurations} \union
  {[label |-> configurations[readings[k].of], power |-> <<readings[k]>>] :
     k \in {k \in DOMAIN readings : readings[k].in = "body"}}

(* The samples are those of the first m experiments.                       *)
Covered(m) ==
  /\ FlatMap(PowerOf, samples) = FlatMap(BodyOf(1 .. m), readings)
  /\ \A e \in 1 .. m : \E r \in DOMAIN samples : samples[r].label = configurations[e]

Collected ==
  /\ samples \in Seq(TrueRows)
  /\ pc = "collect" => Covered(n - 1)
  /\ pc \in {"report", "done"} => Covered(Len(configurations))

(* The first rows of the samples.                                          *)
FirstRows(rows) == SubSeq(samples, 1, rows)

(* What is in the file: nothing before all experiments are collected.      *)
Written ==
  /\ \E rows \in 0 .. Len(samples) : csv = FirstRows(rows)
  /\ pc \notin {"report", "done", "raised"} => csv = <<>>
  /\ csv # <<>> => Covered(Len(configurations))
  /\ pc = "done" => csv = samples

Inv == Typed /\ Machine /\ Meter /\ Progress /\ Collected /\ Written

(* The configurations have the labels of their script.                     *)
LEMMA ConfigurationsAre ==
  ASSUME script \in {"cstate_power", "c0_loops"}
  PROVE  /\ DOMAIN configurations = 1 .. Len(configurations)
         /\ Len(configurations) \in Nat \ {0}
         /\ \A c \in DOMAIN configurations :
              /\ configurations[c] \in Labels
              /\ script = "c0_loops" => configurations[c] \in C0Labels
              /\ script = "cstate_power" => configurations[c] \in CStateLabels
<1>1. CASE script = "c0_loops"
  <2>1. configurations = c0_configurations
    BY <1>1 DEF configurations
  <2>2. configurations \in Seq(C0Labels) \ {<<>>}
    BY <2>1, C0Configurations
  <2>3. QED
    BY <1>1, <2>2 DEF Labels
<1>2. CASE script = "cstate_power"
  <2>1. configurations = cstate_configurations
    BY <1>2 DEF configurations
  <2>2. configurations \in Seq(CStateLabels) \ {<<>>}
    BY <2>1, CStateConfigurations
  <2>3. QED
    BY <1>2, <2>2 DEF Labels
<1>3. QED
  BY <1>1, <1>2

LEMMA LabelFields ==
  /\ \A c \in C0Labels : c.frequency \in Frequencies /\ c.implementation \in Loops
  /\ \A c \in CStateLabels : c.frequency \in Frequencies /\ c.states \in [Cpus -> States]
<1>1. \A c \in C0Labels : c.frequency \in Frequencies /\ c.implementation \in Loops
  BY DEF C0Labels
<1>2. ASSUME NEW freq \in Frequencies, NEW base \in States, NEW shallow \in States,
             NEW count, NEW strategy
      PROVE  LET c == Configuration(freq, base, shallow, count, strategy) IN
             c.frequency \in Frequencies /\ c.states \in [Cpus -> States]
  BY DEF Configuration
<1>3. QED
  BY <1>1, <1>2 DEF CStateLabels, All, Linear

LEMMA SameConfigurations ==
  ASSUME [Next]_vars
  PROVE  script' = script /\ configurations' = configurations
<1>1. script' = script
  BY DEF Next, Script, SetFrequency, EnableDisable, Begin, CheckCall, Body, LastTenth,
         TimeoutExpired, End, CollectPower, WriteRow, Close, Raise, Reading, Goto, vars
<1>2. QED
  BY <1>1 DEF configurations

(* The configuration the script is at.                                     *)
LEMMA ConfigurationNow ==
  ASSUME Typed
  PROVE  /\ configurations[n].frequency \in Frequencies
         /\ script = "cstate_power" => states \in [Cpus -> States]
         /\ Load \subseteq Cpus \X Loops
<1>1. n \in DOMAIN configurations
  BY ConfigurationsAre DEF Typed
<1>2. /\ configurations[n].frequency \in Frequencies
      /\ script = "cstate_power" => states \in [Cpus -> States]
      /\ script = "c0_loops" => configurations[n].implementation \in Loops
  BY <1>1, ConfigurationsAre, LabelFields DEF Typed, states
<1>3. "pause" \in Loops
  <2>1. 2 \in DOMAIN Implementations /\ Implementations[2] = "pause"
    BY DEF Implementations
  <2>2. QED
    BY <2>1 DEF Loops, ToSet
<1>4. CASE script = "c0_loops"
  BY <1>2, <1>4 DEF Load, c0_load
<1>5. CASE script # "c0_loops"
  BY <1>2, <1>3, <1>5 DEF Load, InState, Typed
<1>6. QED
  BY <1>2, <1>4, <1>5

LEMMA TypedStep ==
  ASSUME Typed, Machine, Progress, [Next]_vars
  PROVE  Typed'
<1> DEFINE m == Len(configurations)
<1>0. /\ script' = script /\ configurations' = configurations /\ m' = m
      /\ m \in Nat \ {0} /\ n \in Nat
  BY SameConfigurations, ConfigurationsAre DEF Typed
<1> HIDE DEF m
<1>1. CASE SetFrequency
  <2>1. frequency' \in Frequencies
    BY <1>1, ConfigurationNow DEF SetFrequency
  <2>2. todo' \subseteq States
    BY <1>1, ConfigurationNow DEF SetFrequency, Typed
  <2>3. QED
    BY <1>0, <1>1, <2>1, <2>2
    DEF SetFrequency, Goto, Typed, results, Phases, Ends, m
<1>2. CASE EnableDisable
  <2>1. PICK state \in todo :
          /\ enabled' = [cpu \in Cpus |->
               IF cpu \in InState(state) THEN {state} ELSE enabled[cpu]]
          /\ todo' = todo \ {state}
    BY <1>2 DEF EnableDisable
  <2>2. enabled' \in [Cpus -> SUBSET States] /\ todo' \subseteq States
    BY <2>1 DEF Typed
  <2>3. QED
    BY <1>0, <1>2, <2>2 DEF EnableDisable, Typed, results, m
<1>3. CASE CheckCall
  <2>1. running' \subseteq Cpus \X Loops
    BY <1>3, ConfigurationNow DEF CheckCall
  <2>2. QED
    BY <1>0, <1>3, <2>1 DEF CheckCall, Typed, results, m
<1>4. CASE Begin \/ Body \/ LastTenth \/ Raise \/ WriteRow \/ Close
  BY <1>0, <1>4 DEF Begin, Body, LastTenth, Raise, WriteRow, Close, Goto, Typed, machine,
     results, Phases, Ends, m
<1>5. CASE TimeoutExpired
  BY <1>0, <1>5 DEF TimeoutExpired, Typed, results, m
<1>6. CASE End
  <2>1. n' \in 1 .. m' /\ pc' \in Phases \union Ends
    BY <1>0, <1>6 DEF End, Typed, Phases, Ends, m
  <2>2. QED
    BY <1>0, <1>6, <2>1 DEF End, Typed, machine, m
<1>7. CASE CollectPower
  <2>1. Len(experiments) = m
    <3>1. experiments = [e \in 1 .. m |-> e]
      BY <1>7 DEF CollectPower, Progress, FirstOnes, m
    <3>2. experiments \in Seq(Nat) /\ Len(experiments) = m
      BY <1>0, <3>1, FunctionIsSeq
    <3>3. QED
      BY <3>2
  <2>2. n' \in 1 .. m' /\ pc' \in Phases \union Ends
    BY <1>0, <1>7, <2>1 DEF CollectPower, Typed, Ends, m
  <2>3. QED
    BY <1>0, <1>7, <2>2 DEF CollectPower, Typed, machine, m
<1>8. CASE Reading
  <2> DEFINE r == [of |-> n, in |-> pc, enabled |-> enabled, frequency |-> frequency,
                   running |-> running]
  <2>1. r \in Readings
    BY <1>0, <1>8 DEF Reading, Readings, Typed, Ends
  <2>2. readings' = Append(readings, r) /\ Len(readings) < MaxReadings
    BY <1>8 DEF Reading
  <2> HIDE DEF r
  <2>3. readings' \in Seq(Readings) /\ Len(readings') = Len(readings) + 1
    BY <2>1, <2>2, AppendProperties DEF Typed
  <2>4. Len(readings') <= MaxReadings
    <3>1. Len(readings) \in Nat /\ MaxReadings \in Nat
      BY Parameters DEF Typed
    <3>2. QED
      BY <2>2, <2>3, <3>1
  <2>5. QED
    BY <1>0, <1>8, <2>3, <2>4 DEF Reading, Typed, machine, m
<1>9. CASE UNCHANGED vars
  BY <1>0, <1>9 DEF vars, Typed, m
<1>10. QED
  BY <1>1, <1>2, <1>3, <1>4, <1>5, <1>6, <1>7, <1>8, <1>9 DEF Next, Script

LEMMA MachineStep ==
  ASSUME Typed, Machine, [Next]_vars
  PROVE  Machine'
<1>0. script' = script /\ configurations' = configurations
  BY SameConfigurations
<1>1. CASE SetFrequency
  BY <1>0, <1>1 DEF SetFrequency, Goto, Machine, Applied, states
<1>2. CASE EnableDisable
  <2>1. PICK state \in todo :
          /\ enabled' = [cpu \in Cpus |->
               IF cpu \in InState(state) THEN {state} ELSE enabled[cpu]]
          /\ todo' = todo \ {state}
    BY <1>2 DEF EnableDisable
  <2>2. /\ pc = "set_states" /\ pc' = pc /\ n' = n /\ frequency' = frequency
        /\ states' = states
    BY <1>0, <1>2 DEF EnableDisable, states
  <2>3. script # "c0_loops"
    BY <2>1 DEF Machine
  <2>4. ASSUME NEW cpu \in Cpus, script = "cstate_power", states[cpu] \notin todo'
        PROVE  enabled'[cpu] = {states[cpu]}
    BY <2>1, <2>2, <2>4 DEF InState, Machine, Applied
  <2>5. QED
    BY <1>0, <2>2, <2>3, <2>4 DEF Machine, Applied
<1>3. CASE Begin \/ CheckCall \/ LastTenth \/ TimeoutExpired
  BY <1>0, <1>3 DEF Begin, CheckCall, LastTenth, TimeoutExpired, Goto, Machine, Applied,
     states, machine
<1>4. CASE Body
  <2>1. running' = running /\ Load' = Load
    BY <1>0, <1>4 DEF Body, Load, c0_load, InState, states, machine
  <2>2. QED
    BY <1>0, <1>4, <2>1 DEF Body, Goto, Machine, Applied, states, machine
<1>5. CASE End \/ CollectPower \/ WriteRow \/ Close \/ Raise
  BY <1>0, <1>5 DEF End, CollectPower, WriteRow, Close, Raise, Goto, Machine, Applied, machine,
     results
<1>6. CASE Reading \/ UNCHANGED vars
  <2>1. UNCHANGED <<pc, n, todo, enabled, frequency, running>>
    BY <1>6 DEF Reading, vars, machine
  <2>2. states' = states /\ Load' = Load
    BY <1>0, <2>1 DEF Load, c0_load, InState, states
  <2>3. QED
    BY <1>0, <2>1, <2>2 DEF Machine
<1>7. QED
  BY <1>1, <1>2, <1>3, <1>4, <1>5, <1>6 DEF Next, Script

LEMMA MeterStep ==
  ASSUME Typed, Machine, Meter, [Next]_vars
  PROVE  Meter'
<1>0. /\ script' = script /\ configurations' = configurations
      /\ n \in Nat /\ readings \in Seq(Readings)
      /\ Len(configurations) \in Nat /\ n \in 1 .. Len(configurations)
  BY SameConfigurations, ConfigurationsAre DEF Typed
<1>1. CASE Reading
  <2> DEFINE r == [of |-> n, in |-> pc, enabled |-> enabled, frequency |-> frequency,
                   running |-> running]
             m == Len(readings)
  <2>1. readings' = Append(readings, r) /\ pc \in Phases /\ UNCHANGED <<pc, n>>
    BY <1>1 DEF Reading, Typed, Ends
  <2>2. r.in = "body" => Tells(r, configurations[r.of], script)
    <3> SUFFICES ASSUME pc = "body" PROVE Tells(r, configurations[n], script)
      OBVIOUS
    <3>1. frequency = configurations[n].frequency
      BY DEF Machine, Applied
    <3>2. script = "c0_loops" =>
            running = IF configurations[n].implementation = "POLL" THEN {}
                      ELSE Cpus \X {configurations[n].implementation}
      BY DEF Machine, Load, c0_load
    <3>3. script = "cstate_power" =>
            /\ \A cpu \in Cpus : enabled[cpu] = {configurations[n].states[cpu]}
            /\ running = {cpu \in Cpus : configurations[n].states[cpu] = "POLL"} \X {"pause"}
      BY DEF Machine, Applied, Load, InState, states
    <3>4. QED
      BY <3>1, <3>2, <3>3 DEF Tells
  <2>3. r.of = n
    OBVIOUS
  <2> HIDE DEF r
  <2>4. /\ DOMAIN readings = 1 .. m /\ m \in Nat /\ DOMAIN readings' = 1 .. m + 1
        /\ \A k \in 1 .. m : readings'[k] = readings[k]
        /\ readings'[m + 1] = r
    BY <1>0, <2>1, AppendProperties
  <2> HIDE DEF m
  <2>5. \A k \in 1 .. m : /\ readings[k].of \in 1 .. Len(configurations)
                          /\ readings[k].of <= n
                          /\ readings[k].in = "body" =>
                               Tells(readings[k], configurations[readings[k].of], script)
    BY <2>1, <2>4 DEF Meter
  <2>6. Ordered(readings')
    <3> SUFFICES ASSUME NEW i \in 1 .. m + 1, NEW j \in 1 .. m + 1, i < j
                 PROVE  readings'[i].of <= readings'[j].of
      BY <2>4 DEF Ordered
    <3>1. i \in 1 .. m
      BY <2>4
    <3>2. CASE j \in 1 .. m
      BY <2>4, <3>1, <3>2 DEF Meter, Ordered
    <3>3. CASE j = m + 1
      BY <2>3, <2>4, <2>5, <3>1, <3>3
    <3>4. QED
      BY <2>4, <3>2, <3>3
  <2>7. ASSUME NEW k \in 1 .. m + 1
        PROVE  /\ readings'[k].of \in 1 .. Len(configurations)
               /\ readings'[k].of <= n
               /\ readings'[k].in = "body" =>
                    Tells(readings'[k], configurations[readings'[k].of], script)
    <3>1. k \in 1 .. m \/ k = m + 1
      BY <2>4
    <3>2. CASE k \in 1 .. m
      BY <2>4, <2>5, <3>2
    <3>3. CASE k = m + 1
      BY <1>0, <2>2, <2>3, <2>4, <3>3
    <3>4. QED
      BY <3>1, <3>2, <3>3
  <2>8. ASSUME NEW k \in DOMAIN readings'
        PROVE  /\ (readings[k].of \in 1 .. Len(configurations))'
               /\ (readings[k].of <= n)'
               /\ (readings[k].in = "body" =>
                    Tells(readings[k], configurations[readings[k].of], script))'
    BY <1>0, <2>1, <2>4, <2>7
  <2>9. Ordered(readings)'
    BY <2>6 DEF Ordered
  <2>10. QED
    BY <2>8, <2>9 DEF Meter
<1>2. ASSUME readings' = readings, pc' \in Phases => pc \in Phases /\ n' \in {n, n + 1}
      PROVE  Meter'
  <2>1. ASSUME NEW k \in DOMAIN readings, pc' \in Phases
        PROVE  readings[k].of <= n'
    <3>1. readings[k].of <= n /\ readings[k].of \in Nat /\ n' \in {n, n + 1}
      BY <1>0, <1>2, <2>1 DEF Meter
    <3>2. QED
      BY <1>0, <3>1
  <2>2. QED
    BY <1>0, <1>2, <2>1 DEF Meter, Tells
<1>3. CASE SetFrequency \/ EnableDisable \/ Begin \/ CheckCall
  BY <1>2, <1>3 DEF SetFrequency, EnableDisable, Begin, CheckCall, Goto, results, Phases
<1>4. CASE Body \/ LastTenth \/ TimeoutExpired \/ End
  BY <1>2, <1>4 DEF Body, LastTenth, TimeoutExpired, End, Goto, results, Phases
<1>5. CASE CollectPower \/ WriteRow \/ Close \/ Raise \/ UNCHANGED vars
  BY <1>2, <1>5 DEF CollectPower, WriteRow, Close, Raise, Goto, results, Phases, vars
<1>6. QED
  BY <1>1, <1>3, <1>4, <1>5 DEF Next, Script

LEMMA FirstOnesAre ==
  ASSUME NEW m \in Nat
  PROVE  /\ FirstOnes(m) \in Seq(1 .. m) /\ Len(FirstOnes(m)) = m
         /\ Append(FirstOnes(m), m + 1) = FirstOnes(m + 1)
<1>1. \A k \in Nat : FirstOnes(k) \in Seq(1 .. k) /\ Len(FirstOnes(k)) = k
  <2> SUFFICES ASSUME NEW k \in Nat
               PROVE  FirstOnes(k) \in Seq(1 .. k) /\ Len(FirstOnes(k)) = k
    OBVIOUS
  <2>1. FirstOnes(k) \in [1 .. k -> 1 .. k]
    BY DEF FirstOnes
  <2>2. QED
    BY <2>1, FunctionIsSeq
<1>2. FirstOnes(m) \in Seq(Nat) /\ FirstOnes(m + 1) \in Seq(Nat)
  BY <1>1
<1>3. Append(FirstOnes(m), m + 1) \in Seq(Nat)
  BY <1>2, AppendProperties
<1>4. Len(FirstOnes(m)) = m /\ Len(FirstOnes(m + 1)) = m + 1
  BY <1>1
<1>5. ASSUME NEW e \in 1 .. m + 1
      PROVE  Append(FirstOnes(m), m + 1)[e] = FirstOnes(m + 1)[e]
  <2>1. e \in 1 .. m => FirstOnes(m)[e] = e
    BY DEF FirstOnes
  <2>2. FirstOnes(m + 1)[e] = e
    BY DEF FirstOnes
  <2>3. Append(FirstOnes(m), m + 1)[e] = IF e \in 1 .. m THEN FirstOnes(m)[e] ELSE m + 1
    BY <1>2, <1>4
  <2>4. e \in 1 .. m \/ e = m + 1
    OBVIOUS
  <2>5. m + 1 \notin 1 .. m
    OBVIOUS
  <2>6. QED
    BY <2>1, <2>2, <2>3, <2>4, <2>5
<1>6. Len(Append(FirstOnes(m), m + 1)) = m + 1
  BY <1>2, <1>4, AppendProperties
<1>7. Append(FirstOnes(m), m + 1) = FirstOnes(m + 1)
  BY <1>2, <1>3, <1>4, <1>5, <1>6, SeqEqual
<1>8. QED
  BY <1>1, <1>7

LEMMA ProgressStep ==
  ASSUME Typed, Progress, [Next]_vars
  PROVE  Progress'
<1> DEFINE m == Len(configurations)
<1>0. /\ m' = m /\ m \in Nat \ {0} /\ n \in Nat /\ n \in 1 .. m
  BY SameConfigurations, ConfigurationsAre DEF Typed
<1>1. CASE End
  <2>1. pc = "last_tenth" /\ experiments = FirstOnes(n - 1) /\ samples = <<>>
    BY <1>1 DEF End, Progress, Phases
  <2>2. experiments' = FirstOnes(n) /\ FirstOnes(n) \in Seq(1 .. n)
    <3>1. n - 1 \in Nat /\ (n - 1) + 1 = n
      BY <1>0
    <3>2. Append(FirstOnes(n - 1), n) = FirstOnes(n)
      BY <3>1, FirstOnesAre
    <3>3. QED
      BY <1>0, <1>1, <2>1, <3>2, FirstOnesAre DEF End
  <2>3. FirstOnes(n) \in Seq(1 .. m)
    <3>1. 1 .. n \subseteq 1 .. m
      BY <1>0
    <3>2. QED
      BY <2>2, <3>1, SeqMonotone
  <2>4. /\ samples' = samples
        /\ \/ n < m /\ pc' = "set_frequency" /\ n' = n + 1
           \/ n = m /\ pc' = "collect" /\ n' = 1
    BY <1>0, <1>1 DEF End
  <2> HIDE DEF m
  <2>5. QED
    BY <1>0, <2>1, <2>2, <2>3, <2>4 DEF Progress, Phases, m
<1>2. CASE SetFrequency \/ EnableDisable \/ Begin \/ CheckCall
  BY <1>0, <1>2 DEF SetFrequency, EnableDisable, Begin, CheckCall, Goto, Progress, results,
     Phases, m
<1>3. CASE Body \/ LastTenth \/ TimeoutExpired \/ Raise
  BY <1>0, <1>3 DEF Body, LastTenth, TimeoutExpired, Raise, Goto, Progress, results, machine,
     Phases, m
<1>4. CASE CollectPower \/ WriteRow \/ Close
  BY <1>0, <1>4 DEF CollectPower, WriteRow, Close, Goto, Progress, results, machine, Phases, m
<1>5. CASE Reading \/ UNCHANGED vars
  BY <1>0, <1>5 DEF Reading, Progress, vars, m
<1>6. QED
  BY <1>1, <1>2, <1>3, <1>4, <1>5 DEF Next, Script

(* What RowsOf() makes of the readings of an experiment.                   *)
LEMMA RowsOfIs ==
  ASSUME Typed, NEW e \in DOMAIN configurations
  PROVE  /\ RowsOf(e) \in Seq(TrueRows) /\ RowsOf(e) \in Seq(AllRows)
         /\ Len(RowsOf(e)) > 0 /\ RowsOf(e)[1].label = configurations[e]
         /\ FlatMap(PowerOf, RowsOf(e)) = FlatMap(BodyOf({e}), readings)
<1> DEFINE c == configurations[e]
           inside == FlatMap(RowOf(e, c), readings)
           taken == {readings[k] : k \in DOMAIN readings}
           ours == {row \in TrueRows \intersect AllRows : row.label = c}
           f == [r \in taken |-> RowOf(e, c)[r]]
<1>0. readings \in Seq(Readings) /\ c \in Labels
  BY ConfigurationsAre DEF Typed
<1>1. Labelled(e, {"body"}) = inside
  <2>1. \A k \in DOMAIN readings : readings[k] \in Readings
    BY <1>0
  <2>2. Mapped(RowOf(e, c), readings) = [k \in DOMAIN readings |->
          IF readings[k].of = e /\ readings[k].in \in {"body"}
          THEN <<[label |-> configurations[e], power |-> <<readings[k]>>]>>
          ELSE <<>>]
    BY <2>1 DEF Mapped, RowOf
  <2>3. QED
    BY <2>2 DEF Labelled, FlatMap
<1>2. inside \in Seq(ours)
  <2>1. ASSUME NEW k \in DOMAIN readings
        PROVE  RowOf(e, c)[readings[k]] \in Seq(ours)
    <3> DEFINE row == [label |-> c, power |-> <<readings[k]>>]
    <3>0. readings[k] \in Readings
      BY <1>0
    <3>1. CASE readings[k].of = e /\ readings[k].in = "body"
      <4>1. row \in TrueRows
        BY <3>1 DEF TrueRows
      <4>2. row \in AllRows
        BY <1>0, <3>0, RowIs
      <4>3. row.label = c
        OBVIOUS
      <4>4. RowOf(e, c)[readings[k]] = <<row>>
        BY <3>0, <3>1 DEF RowOf
      <4> HIDE DEF row, c
      <4>5. row \in ours
        BY <4>1, <4>2, <4>3
      <4> HIDE DEF ours
      <4>6. QED
        BY <4>4, <4>5
    <3>2. CASE ~(readings[k].of = e /\ readings[k].in = "body")
      <4>1. RowOf(e, c)[readings[k]] = <<>>
        BY <3>0, <3>2 DEF RowOf
      <4> HIDE DEF ours, c
      <4>2. <<>> \in Seq(ours)
        OBVIOUS
      <4>3. QED
        BY <4>1, <4>2
    <3>3. QED
      BY <3>1, <3>2
  <2> HIDE DEF ours, c
  <2>2. f \in Maps(taken, Seq(ours)) /\ readings \in Seq(taken)
    BY <1>0, <2>1 DEF Maps
  <2>3. Mapped(RowOf(e, c), readings) = Mapped(f, readings)
    BY DEF Mapped
  <2>4. FlatMap(f, readings) \in Seq(ours)
    <3> HIDE DEF f, taken
    <3>1. QED
      BY <2>2, FlatMapType
  <2>5. QED
    BY <2>3, <2>4 DEF FlatMap
<1>3. FlatMap(PowerOf, inside) = FlatMap(BodyOf({e}), readings)
  BY <1>0, RowsHoldTheBody
<1>4. NotANumber(e) = <<[label |-> c, power |-> <<>>]>>
  BY DEF NotANumber
<1>5. ours \subseteq TrueRows /\ ours \subseteq AllRows
  OBVIOUS
<1> DEFINE none == [label |-> c, power |-> <<>>]
<1>6. none \in ours
  <2>1. none \in TrueRows
    BY DEF TrueRows
  <2>2. none \in AllRows
    BY <1>0 DEF AllRows
  <2>3. QED
    BY <2>1, <2>2
<1>7. none.power = <<>>
  OBVIOUS
<1>8. \A row \in ours : row.label = c
  OBVIOUS
<1> HIDE DEF ours, none, taken, f
<1>9. CASE inside = <<>>
  <2>1. RowsOf(e) = <<none>>
    BY <1>1, <1>4, <1>9 DEF RowsOf, none
  <2>2. <<none>> \in Seq(ours) /\ none \in AllRows
    BY <1>5, <1>6
  <2>3. FlatMap(PowerOf, <<none>>) = <<>>
    <3>1. PowerOf \in Maps(AllRows, Seq(Readings)) /\ PowerOf[none] = <<>>
      BY <1>7, <2>2, ReadingMaps DEF PowerOf
    <3>2. QED
      BY <2>2, <3>1, FlatMapOne
  <2>4. FlatMap(PowerOf, inside) = <<>>
    BY <1>9, FlatMapEmpty
  <2>5. <<none>> \in Seq(TrueRows) /\ <<none>> \in Seq(AllRows)
    BY <1>5, <2>2, SeqMonotone
  <2>6. Len(<<none>>) > 0 /\ <<none>>[1].label = c
    BY <1>6, <1>8
  <2>7. QED
    BY <1>3, <2>1, <2>3, <2>4, <2>5, <2>6
<1>10. CASE inside # <<>>
  <2>1. RowsOf(e) = inside
    BY <1>1, <1>10 DEF RowsOf
  <2> HIDE DEF inside, c
  <2>2. inside \in Seq(TrueRows) /\ inside \in Seq(AllRows)
    BY <1>2, <1>5, SeqMonotone
  <2>3. Len(inside) > 0 /\ inside[1] \in ours
    BY <1>2, <1>10
  <2>4. QED
    BY <1>3, <1>8, <2>1, <2>2, <2>3 DEF c
<1>11. QED
  BY <1>9, <1>10

LEMMA NothingYet ==
  ASSUME Typed
  PROVE  FlatMap(PowerOf, <<>>) = FlatMap(BodyOf(1 .. 0), readings)
<1>1. FlatMap(PowerOf, <<>>) = <<>>
  BY FlatMapEmpty
<1>2. BodyOf(1 .. 0) \in Maps(Readings, Seq(Readings)) /\ readings \in Seq(Readings)
  BY ReadingMaps DEF Typed
<1>3. \A k \in DOMAIN readings : BodyOf(1 .. 0)[readings[k]] = <<>>
  BY <1>2 DEF BodyOf
<1>4. FlatMap(BodyOf(1 .. 0), readings) = <<>>
  BY <1>2, <1>3, FlatMapNothing
<1>5. QED
  BY <1>1, <1>4

LEMMA TrueRowsAre ==
  ASSUME Typed, Meter
  PROVE  TrueRows \subseteq AllRows
<1>1. \A k \in DOMAIN readings : readings[k] \in Readings
  BY DEF Typed
<1>2. \A e \in DOMAIN configurations : configurations[e] \in Labels
  BY ConfigurationsAre DEF Typed
<1>3. ASSUME NEW e \in DOMAIN configurations
      PROVE  [label |-> configurations[e], power |-> <<>>] \in AllRows
  BY <1>2 DEF AllRows
<1>4. ASSUME NEW k \in DOMAIN readings
      PROVE  [label |-> configurations[readings[k].of], power |-> <<readings[k]>>]
               \in AllRows
  <2>1. readings[k].of \in DOMAIN configurations
    BY ConfigurationsAre DEF Typed, Meter
  <2>2. QED
    BY <1>1, <1>2, <2>1, RowIs
<1>5. QED
  BY <1>3, <1>4, Zenon DEF TrueRows

(* One more experiment is collected.                                       *)
LEMMA CollectOne ==
  ASSUME Typed, Meter, Progress, Collected, CollectPower
  PROVE  /\ experiments[n] = n /\ Len(experiments) = Len(configurations)
         /\ samples' \in Seq(TrueRows)
         /\ FlatMap(PowerOf, samples') = FlatMap(BodyOf(1 .. n), readings)
         /\ \A e \in 1 .. n :
              \E r \in DOMAIN samples' : samples'[r].label = configurations[e]
<1> DEFINE m == Len(configurations)
           rows == RowsOf(n)
<1>0. /\ m \in Nat \ {0} /\ DOMAIN configurations = 1 .. m
      /\ n \in 1 .. m /\ n \in Nat /\ n - 1 \in Nat /\ (n - 1) + 1 = n
  BY ConfigurationsAre DEF Typed
<1>1. experiments[n] = n /\ Len(experiments) = m
  <2>1. experiments = FirstOnes(m)
    BY DEF CollectPower, Progress
  <2>2. Len(experiments) = m
    BY <1>0, <2>1, FirstOnesAre
  <2>3. QED
    BY <1>0, <2>1, <2>2 DEF FirstOnes
<1>2. samples' = samples \o rows
  BY <1>1 DEF CollectPower
<1>3. /\ rows \in Seq(TrueRows) /\ rows \in Seq(AllRows)
      /\ Len(rows) > 0 /\ rows[1].label = configurations[n]
      /\ FlatMap(PowerOf, rows) = FlatMap(BodyOf({n}), readings)
  BY <1>0, RowsOfIs
<1>4. /\ FlatMap(PowerOf, samples) = FlatMap(BodyOf(1 .. n - 1), readings)
      /\ \A e \in 1 .. n - 1 :
           \E r \in DOMAIN samples : samples[r].label = configurations[e]
      /\ samples \in Seq(TrueRows)
  BY DEF CollectPower, Collected, Covered
<1> HIDE DEF rows, m
<1>5. TrueRows \subseteq AllRows
  BY TrueRowsAre
<1>6. FlatMap(PowerOf, samples \o rows) = FlatMap(BodyOf(1 .. n), readings)
  <2>1. samples \in Seq(AllRows) /\ PowerOf \in Maps(AllRows, Seq(Readings))
    BY <1>4, <1>5, SeqMonotone, ReadingMaps
  <2>2. FlatMap(PowerOf, samples \o rows) = FlatMap(PowerOf, samples) \o FlatMap(PowerOf, rows)
    <3>1. \A xs, ys \in Seq(AllRows) :
            FlatMap(PowerOf, xs \o ys) = FlatMap(PowerOf, xs) \o FlatMap(PowerOf, ys)
      BY <2>1, FlatMapConcat
    <3>2. QED
      BY <1>3, <2>1, <3>1
  <2>3. readings \in Seq(Readings) /\ Ordered(readings)
    BY DEF Typed, Meter
  <2>4. FlatMap(BodyOf(1 .. (n - 1) + 1), readings) =
          FlatMap(BodyOf(1 .. n - 1), readings) \o FlatMap(BodyOf({(n - 1) + 1}), readings)
    BY <1>0, <2>3, BodiesSplit
  <2>5. QED
    BY <1>0, <1>3, <1>4, <2>2, <2>4
<1>7. ASSUME NEW e \in 1 .. n
      PROVE  \E r \in DOMAIN (samples \o rows) : (samples \o rows)[r].label = configurations[e]
  <2>1. /\ DOMAIN samples = 1 .. Len(samples) /\ Len(samples) \in Nat
        /\ DOMAIN (samples \o rows) = 1 .. Len(samples) + Len(rows) /\ Len(rows) \in Nat
        /\ \A r \in 1 .. Len(samples) : (samples \o rows)[r] = samples[r]
        /\ (samples \o rows)[Len(samples) + 1] = rows[1]
    BY <1>3, <1>4
  <2>2. CASE e \in 1 .. n - 1
    <3>1. PICK r \in DOMAIN samples : samples[r].label = configurations[e]
      BY <1>4, <2>2
    <3>2. r \in DOMAIN (samples \o rows) /\ (samples \o rows)[r] = samples[r]
      BY <2>1
    <3>3. QED
      BY <3>1, <3>2
  <2>3. CASE e = n
    <3>1. Len(samples) + 1 \in DOMAIN (samples \o rows)
      BY <1>3, <2>1
    <3>2. QED
      BY <1>3, <2>1, <2>3, <3>1
  <2>4. QED
    BY <1>0, <2>2, <2>3
<1>8. samples \o rows \in Seq(TrueRows)
  BY <1>3, <1>4
<1>9. QED
  BY <1>1, <1>2, <1>6, <1>7, <1>8 DEF m

LEMMA CollectedStep ==
  ASSUME Typed, Meter, Progress, Collected, [Next]_vars
  PROVE  Collected'
<1> DEFINE m == Len(configurations)
<1>0. /\ configurations' = configurations /\ m' = m /\ m \in Nat \ {0}
      /\ n \in 1 .. m /\ n \in Nat
  BY SameConfigurations, ConfigurationsAre DEF Typed
<1>1. readings' = readings => TrueRows' = TrueRows
  BY <1>0 DEF TrueRows
<1> HIDE DEF m
<1>2. CASE CollectPower
  <2>1. /\ n = m \/ n < m
        /\ IF n < m THEN n' = n + 1 /\ pc' = "collect" ELSE n' = n /\ pc' = "report"
        /\ readings' = readings
    BY <1>0, <1>2, CollectOne DEF CollectPower, m
  <2>2. /\ samples' \in Seq(TrueRows)
        /\ FlatMap(PowerOf, samples') = FlatMap(BodyOf(1 .. n), readings)
        /\ \A e \in 1 .. n :
             \E r \in DOMAIN samples' : samples'[r].label = configurations[e]
    BY <1>2, CollectOne
  <2>3. samples' \in Seq(TrueRows')
    BY <1>1, <2>1, <2>2
  <2>4. pc' = "collect" => Covered(n - 1)'
    <3> SUFFICES ASSUME pc' = "collect" PROVE Covered(n - 1)'
      OBVIOUS
    <3>1. n' - 1 = n
      BY <1>0, <2>1
    <3>2. QED
      BY <1>0, <2>1, <2>2, <3>1 DEF Covered
  <2>5. pc' \in {"report", "done"} => Covered(m)'
    BY <1>0, <2>1, <2>2 DEF Covered
  <2>6. QED
    BY <2>3, <2>4, <2>5 DEF Collected, m
<1>3. CASE End
  <2>1. samples' = <<>> /\ readings' = readings
    BY <1>3 DEF End, Progress, Phases
  <2>2. pc' = "collect" => n' - 1 = 0
    BY <1>3 DEF End
  <2>3. pc' \notin {"report", "done"}
    BY <1>3 DEF End
  <2>4. FlatMap(PowerOf, <<>>) = FlatMap(BodyOf(1 .. 0), readings)
    BY NothingYet
  <2>5. samples' \in Seq(TrueRows')
    BY <2>1
  <2>6. pc' = "collect" => Covered(n - 1)'
    BY <2>1, <2>2, <2>4 DEF Covered
  <2>7. QED
    BY <2>3, <2>5, <2>6 DEF Collected
<1>4. CASE Reading
  <2>1. samples' = <<>> /\ pc' \in Phases
    BY <1>4 DEF Reading, Progress, Typed, Ends
  <2>2. samples' \in Seq(TrueRows')
    BY <2>1
  <2>3. QED
    BY <2>1, <2>2 DEF Collected, Phases
<1>5. ASSUME UNCHANGED <<samples, readings>>, pc' \in Phases \union {"raised"}
      PROVE  Collected'
  BY <1>1, <1>5 DEF Collected, Phases
<1>6. CASE SetFrequency \/ EnableDisable \/ Begin \/ CheckCall
  BY <1>5, <1>6 DEF SetFrequency, EnableDisable, Begin, CheckCall, Goto, results, Phases
<1>7. CASE Body \/ LastTenth \/ TimeoutExpired \/ Raise
  BY <1>5, <1>7 DEF Body, LastTenth, TimeoutExpired, Raise, Goto, results, Phases
<1>8. CASE WriteRow \/ Close \/ UNCHANGED vars
  <2>1. /\ UNCHANGED <<samples, readings, n>>
        /\ pc' \in {"report", "done"} => pc \in {"report", "done"}
        /\ pc' = "collect" => pc = "collect"
    BY <1>8 DEF WriteRow, Close, Goto, results, vars
  <2>2. samples' \in Seq(TrueRows')
    BY <1>1, <2>1 DEF Collected
  <2>3. QED
    BY <1>0, <2>1, <2>2 DEF Collected, Covered, m
<1>9. QED
  BY <1>2, <1>3, <1>4, <1>6, <1>7, <1>8 DEF Next, Script

(* A front part of the samples, with the next row or cut off, is one too.  *)
LEMMA FirstRowsAre ==
  ASSUME NEW S, samples \in Seq(S), NEW rows \in 0 .. Len(samples)
  PROVE  /\ FirstRows(rows) \in Seq(S) /\ Len(FirstRows(rows)) = rows
         /\ rows < Len(samples) =>
              Append(FirstRows(rows), samples[rows + 1]) = FirstRows(rows + 1)
         /\ \A k \in 0 .. rows : SubSeq(FirstRows(rows), 1, k) = FirstRows(k)
         /\ FirstRows(Len(samples)) = samples /\ FirstRows(0) = <<>>
BY DEF FirstRows

LEMMA WrittenStep ==
  ASSUME Typed, Collected, Written, [Next]_vars
  PROVE  Written'
<1> DEFINE m == Len(configurations)
<1>1. configurations' = configurations /\ m' = m
  BY SameConfigurations
<1>2. samples \in Seq(TrueRows)
  BY DEF Collected
<1>3. PICK rows \in 0 .. Len(samples) : csv = FirstRows(rows)
  BY DEF Written
<1>4. /\ Len(csv) = rows
      /\ rows < Len(samples) => Append(csv, samples[rows + 1]) = FirstRows(rows + 1)
      /\ \A k \in 0 .. rows : SubSeq(csv, 1, k) = FirstRows(k)
      /\ FirstRows(Len(samples)) = samples
      /\ rows \in Nat /\ Len(samples) \in Nat
  <2>1. rows \in Nat /\ Len(samples) \in Nat
    BY <1>2
  <2>2. /\ Len(FirstRows(rows)) = rows
        /\ rows < Len(samples) =>
             Append(FirstRows(rows), samples[rows + 1]) = FirstRows(rows + 1)
        /\ \A k \in 0 .. rows : SubSeq(FirstRows(rows), 1, k) = FirstRows(k)
        /\ FirstRows(Len(samples)) = samples
    BY <1>2, FirstRowsAre
  <2>3. QED
    BY <1>3, <2>1, <2>2
<1> HIDE DEF m
<1>5. UNCHANGED <<samples, readings>> =>
        (\A k : FirstRows(k)' = FirstRows(k)) /\ Covered(m)' = Covered(m)
  BY <1>1 DEF FirstRows, Covered
<1>6. CASE WriteRow
  <2>1. pc = "report" /\ pc' = pc /\ UNCHANGED <<samples, readings>> /\ rows < Len(samples)
    BY <1>4, <1>6 DEF WriteRow
  <2>2. csv' = FirstRows(rows + 1) /\ rows + 1 \in 0 .. Len(samples)
    BY <1>4, <1>6, <2>1 DEF WriteRow
  <2>3. Covered(m)
    BY <2>1 DEF Collected, m
  <2>4. QED
    BY <1>1, <1>5, <2>1, <2>2, <2>3 DEF Written, FirstRows, m
<1>7. CASE Close
  <2>1. /\ pc = "report" /\ pc' = "done" /\ UNCHANGED <<samples, readings, csv>>
        /\ rows = Len(samples)
    BY <1>4, <1>7 DEF Close, Goto, results
  <2>2. csv = samples /\ Covered(m)
    BY <1>3, <1>4, <2>1 DEF Collected, m
  <2>3. QED
    BY <1>1, <1>3, <1>5, <2>1, <2>2 DEF Written, FirstRows, m
<1>8. CASE Raise
  <2>1. PICK k \in 0 .. Len(csv) : csv' = SubSeq(csv, 1, k)
    BY <1>8 DEF Raise
  <2>2. pc' = "raised" /\ UNCHANGED <<samples, readings>>
    BY <1>8 DEF Raise
  <2>3. csv' = FirstRows(k) /\ k \in 0 .. Len(samples)
    BY <1>4, <2>1
  <2>4. csv = <<>> => csv' = <<>>
    BY <1>4, <2>1
  <2>5. csv' # <<>> => Covered(m)
    BY <2>4 DEF Written, m
  <2>6. QED
    BY <1>1, <1>5, <2>2, <2>3, <2>5 DEF Written, FirstRows, m
<1>9. CASE CollectPower \/ End \/ Reading
  <2>1. csv = <<>> /\ csv' = csv /\ pc' # "done"
    BY <1>9 DEF CollectPower, End, Reading, Written
  <2>2. samples' = samples \/ samples' = samples \o RowsOf(experiments[n])
    BY <1>9 DEF CollectPower, End, Reading
  <2>3. \E k \in 0 .. Len(samples') : csv' = SubSeq(samples', 1, k)
    <3>1. Len(samples') \in Nat /\ SubSeq(samples', 1, 0) = <<>>
      OBVIOUS
    <3>2. QED
      BY <2>1, <3>1
  <2>4. QED
    BY <2>1, <2>3 DEF Written, FirstRows
<1>10. ASSUME UNCHANGED <<samples, readings, csv>>,
              pc' = pc \/ {pc, pc'} \subseteq Phases \union {"collect"}
       PROVE  Written'
  BY <1>1, <1>3, <1>5, <1>10 DEF Written, FirstRows, Phases, m
<1>11. CASE SetFrequency \/ EnableDisable \/ Begin \/ CheckCall
  BY <1>10, <1>11 DEF SetFrequency, EnableDisable, Begin, CheckCall, Goto, results, Phases
<1>12. CASE Body \/ LastTenth \/ TimeoutExpired \/ UNCHANGED vars
  BY <1>10, <1>12 DEF Body, LastTenth, TimeoutExpired, Goto, results, Phases, vars
<1>13. QED
  BY <1>6, <1>7, <1>8, <1>9, <1>11, <1>12 DEF Next, Script

LEMMA InvInit == Init => Inv
<1> SUFFICES ASSUME Init PROVE Inv
  OBVIOUS
<1>1. /\ Len(configurations) \in Nat \ {0} /\ readings = <<>> /\ samples = <<>>
      /\ csv = <<>> /\ experiments = <<>> /\ n = 1 /\ pc = "set_frequency"
  BY ConfigurationsAre DEF Init
<1>2. Typed
  <2>1. <<>> \in Seq(Readings) /\ Len(<<>>) <= MaxReadings
    BY Parameters
  <2>2. enabled \in [Cpus -> SUBSET States]
    BY Parameters DEF Init
  <2>3. QED
    BY <1>1, <2>1, <2>2 DEF Init, Typed, Phases
<1>3. Machine
  BY DEF Init, Machine, Applied
<1>4. Meter
  <2>1. DOMAIN readings = {}
    BY <1>1
  <2>2. QED
    BY <2>1 DEF Meter, Ordered
<1>5. Progress
  <2>1. FirstOnes(0) = <<>>
    <3>1. FirstOnes(0) \in Seq(1 .. 0) /\ Len(FirstOnes(0)) = 0
      BY FirstOnesAre
    <3>2. QED
      BY <3>1
  <2>2. <<>> \in Seq(1 .. Len(configurations)) /\ n - 1 = 0
    BY <1>1
  <2>3. QED
    BY <1>1, <2>1, <2>2 DEF Progress
<1>6. Collected
  <2>1. <<>> \in Seq(TrueRows)
    OBVIOUS
  <2>2. QED
    BY <1>1, <2>1 DEF Collected
<1>7. Written
  <2>1. 0 \in 0 .. Len(samples) /\ FirstRows(0) = <<>>
    BY <1>1 DEF FirstRows
  <2>2. QED
    BY <1>1, <2>1 DEF Written
<1>8. QED
  BY <1>2, <1>3, <1>4, <1>5, <1>6, <1>7 DEF Inv

LEMMA InvSpec == Spec => []Inv
<1>1. Inv /\ [Next]_vars => Inv'
  BY TypedStep, MachineStep, MeterStep, ProgressStep, CollectedStep, WrittenStep DEF Inv
<1>2. QED
  BY <1>1, InvInit, PTL DEF Spec

-----------------------------------------------------------------------------

(* For every number of CPUs, idle states and frequencies: the script stays *)
(* within its configurations, sets the machine to what they contain only,  *)
(* and its rows are of configurations and readings (lines 48-127).         *)
THEOREM TypeCorrect == Spec => []TypeOK
<1>1. Inv => TypeOK
  <2> SUFFICES ASSUME Inv PROVE TypeOK
    OBVIOUS
  <2>1. DOMAIN configurations = 1 .. Len(configurations)
    BY ConfigurationsAre DEF Inv, Typed
  <2>2. TrueRows \subseteq Rows
    <3>1. \A e \in DOMAIN configurations : configurations[e] \in ToSet(configurations)
      BY DEF ToSet
    <3>2. ASSUME NEW e \in DOMAIN configurations
          PROVE  [label |-> configurations[e], power |-> <<>>] \in Rows
      BY <3>1 DEF Rows
    <3>3. ASSUME NEW k \in DOMAIN readings
          PROVE  [label |-> configurations[readings[k].of], power |-> <<readings[k]>>] \in Rows
      <4> DEFINE one == <<readings[k]>>
                 Powers == {<<>>} \union {<<r>> : r \in ToSet(readings)}
      <4>1. one \in Powers
        BY DEF ToSet
      <4>2. configurations[readings[k].of] \in ToSet(configurations)
        BY <2>1, <3>1 DEF Inv, Meter
      <4>3. Rows = [label : ToSet(configurations), power : Powers]
        BY DEF Rows
      <4> HIDE DEF one, Powers
      <4>4. [label |-> configurations[readings[k].of], power |-> one] \in Rows
        BY <4>1, <4>2, <4>3
      <4>5. QED
        BY <4>4 DEF one
    <3>4. QED
      BY <3>2, <3>3, Zenon DEF TrueRows
  <2>3. samples \in Seq(Rows) /\ csv \in Seq(Rows)
    <3>1. samples \in Seq(Rows)
      BY <2>2, SeqMonotone DEF Inv, Collected
    <3>2. PICK rows \in 0 .. Len(samples) : csv = FirstRows(rows)
      BY DEF Inv, Written
    <3>3. QED
      BY <3>1, <3>2, FirstRowsAre
  <2>4. QED
    BY <2>1, <2>3 DEF Inv, Typed, Progress, TypeOK, Phases, Ends, Frequencies, Loops
<1>2. QED
  BY <1>1, InvSpec, PTL

(* The label of a row tells what the machine did when its power was read:  *)
(* a reading is of the configuration the machine was in, and rows are made *)
(* from it with the label of that configuration (cstate_power.py:48-80,    *)
(* 95-127 and 138-164, c0_loops.py:43-59 and 74-122).                      *)
THEOREM LabelsTell == Spec => []LabelsAreTrue
<1>1. Inv => LabelsAreTrue
  <2> SUFFICES ASSUME Inv, NEW row \in ToSet(samples), row.power # <<>>
               PROVE  LET reading == row.power[1]
                          only(state) == {cpu \in Cpus : reading.enabled[cpu] = {state}} IN
                      /\ reading.frequency = row.label.frequency
                      /\ script = "c0_loops" =>
                           reading.running =
                             {pair \in Cpus \X {row.label.implementation} : pair[2] # "POLL"}
                      /\ script = "cstate_power" =>
                           /\ \A cpu \in Cpus :
                                reading.enabled[cpu] = {row.label.states[cpu]}
                           /\ row.label.strategy = "all" =>
                                only(row.label.base_state) = Cpus
                           /\ row.label.strategy = "linear" =>
                                /\ only(row.label.shallow_state) =
                                     0 .. row.label.shallow_count - 1
                                /\ only(row.label.base_state) =
                                     Cpus \ only(row.label.shallow_state)
                           /\ reading.running = only("POLL") \X {"pause"}
    BY DEF LabelsAreTrue
  <2>1. row \in TrueRows
    BY DEF Inv, Collected, ToSet
  <2>2. PICK k \in DOMAIN readings :
          /\ readings[k].in = "body"
          /\ row = [label |-> configurations[readings[k].of], power |-> <<readings[k]>>]
    BY <2>1 DEF TrueRows
  <2> DEFINE reading == readings[k]
             label == configurations[reading.of]
             only(state) == {cpu \in Cpus : reading.enabled[cpu] = {state}}
  <2>3. row.power[1] = reading /\ row.label = label
    BY <2>2
  <2>4. Tells(reading, label, script) /\ reading.of \in 1 .. Len(configurations)
    BY <2>2 DEF Inv, Meter
  <2>5. /\ script = "c0_loops" => label \in C0Labels
        /\ script = "cstate_power" => label \in CStateLabels
    BY <2>4, ConfigurationsAre DEF Inv, Typed
  <2> HIDE DEF reading, label
  <2>6. reading.frequency = label.frequency
    BY <2>4 DEF Tells
  <2>7. ASSUME script = "c0_loops"
        PROVE  reading.running = {pair \in Cpus \X {label.implementation} : pair[2] # "POLL"}
    BY <2>4, <2>7 DEF Tells
  <2>8. ASSUME script = "cstate_power"
        PROVE  /\ \A cpu \in Cpus : reading.enabled[cpu] = {label.states[cpu]}
               /\ label.strategy = "all" => only(label.base_state) = Cpus
               /\ label.strategy = "linear" =>
                    /\ only(label.shallow_state) = 0 .. label.shallow_count - 1
                    /\ only(label.base_state) = Cpus \ only(label.shallow_state)
               /\ reading.running = only("POLL") \X {"pause"}
    <3>1. /\ \A cpu \in Cpus : reading.enabled[cpu] = {label.states[cpu]}
          /\ reading.running = {cpu \in Cpus : label.states[cpu] = "POLL"} \X {"pause"}
      BY <2>4, <2>8 DEF Tells
    <3>2. \A state : only(state) = {cpu \in Cpus : label.states[cpu] = state}
      BY <3>1
    <3> HIDE DEF only
    <3>3. reading.running = only("POLL") \X {"pause"}
      BY <3>1, <3>2
    <3>4. CASE \E freq \in Frequencies : \E base \in States : label = All(freq, base)
      <4>1. PICK freq \in Frequencies, base \in States : label = All(freq, base)
        BY <3>4
      <4>2. /\ label.strategy = "all" /\ label.base_state = base
            /\ \A cpu \in Cpus : label.states[cpu] = base
        BY <4>1 DEF All, Configuration
      <4>3. QED
        BY <3>1, <3>2, <3>3, <4>2
    <3>5. CASE \E freq \in Frequencies : \E base, shallow \in States :
                 \E count \in 1 .. NbCpus :
                   label = Linear(freq, base, shallow, count) /\ base # shallow
      <4>1. PICK freq \in Frequencies, base \in States, shallow \in States,
                 count \in 1 .. NbCpus :
              label = Linear(freq, base, shallow, count) /\ base # shallow
        BY <3>5
      <4>2. /\ label.strategy = "linear" /\ label.base_state = base
            /\ label.shallow_state = shallow /\ label.shallow_count = count
            /\ \A cpu \in Cpus : label.states[cpu] = IF cpu < count THEN shallow ELSE base
        BY <4>1 DEF Linear, Configuration
      <4>3. only(shallow) = {cpu \in Cpus : cpu < count}
        BY <3>2, <4>1, <4>2
      <4>4. only(base) = Cpus \ only(shallow)
        BY <3>2, <4>1, <4>2
      <4>5. {cpu \in Cpus : cpu < count} = 0 .. count - 1
        BY Parameters DEF Cpus
      <4>6. QED
        BY <3>1, <3>3, <4>2, <4>3, <4>4, <4>5
    <3>6. QED
      <4>1. ASSUME NEW freq \in Frequencies, NEW base \in States, NEW shallow \in States,
                   NEW count, Linear(freq, base, shallow, count).base_state #
                     Linear(freq, base, shallow, count).shallow_state
            PROVE  base # shallow
        BY <4>1 DEF Linear, Configuration
      <4>2. QED
        BY <2>5, <2>8, <3>4, <3>5, <4>1 DEF CStateLabels
  <2>9. QED
    BY <2>3, <2>6, <2>7, <2>8
<1>2. QED
  BY <1>1, InvSpec, PTL

(* What is in the file at any moment, after a failure at any point as well,*)
(* is a front part of rows that hold every reading of a body, in order and *)
(* once, and one row at least of every configuration; after the regular end*)
(* it is all of them (cstate_power.py:82-135 and 190-194).                 *)
THEOREM FrontOfTheReport == Spec => []ReportIsAFront
<1>1. Inv => ReportIsAFront
  <2> SUFFICES ASSUME Inv PROVE ReportIsAFront
    OBVIOUS
  <2> DEFINE m == Len(configurations)
  <2>1. IsPrefix(csv, samples)
    <3>1. samples \in Seq(TrueRows)
      BY DEF Inv, Collected
    <3>2. PICK rows \in 0 .. Len(samples) : csv = FirstRows(rows)
      BY DEF Inv, Written
    <3>3. rows \in 0 .. rows /\ rows \in Nat /\ Len(samples) \in Nat
      BY <3>1
    <3>4. Len(csv) = rows /\ SubSeq(csv, 1, rows) = csv /\ rows <= Len(samples)
      BY <3>1, <3>2, <3>3, FirstRowsAre
    <3>5. QED
      BY <3>2, <3>4 DEF IsPrefix, FirstRows
  <2>2. ASSUME csv # <<>> \/ pc = "done"
        PROVE  /\ \A c \in DOMAIN configurations :
                    \E r \in DOMAIN samples : samples[r].label = configurations[c]
               /\ FlattenSeq([r \in DOMAIN samples |-> samples[r].power]) =
                    FlattenSeq([k \in DOMAIN readings |->
                      IF readings[k].in = "body" THEN <<readings[k]>> ELSE <<>>])
    <3>1. Covered(m)
      BY <2>2 DEF Inv, Written, Collected
    <3>2. DOMAIN configurations = 1 .. m /\ m \in Nat
      BY ConfigurationsAre DEF Inv, Typed
    <3>3. [r \in DOMAIN samples |-> samples[r].power] = Mapped(PowerOf, samples)
      <4>1. \A r \in DOMAIN samples : samples[r] \in AllRows
        <5>1. \A r \in DOMAIN samples : samples[r] \in TrueRows
          BY DEF Inv, Collected
        <5>2. QED
          BY <5>1, TrueRowsAre DEF Inv
      <4>2. \A r \in DOMAIN samples : PowerOf[samples[r]] = samples[r].power
        BY <4>1 DEF PowerOf
      <4>3. QED
        BY <4>2 DEF Mapped
    <3>4. [k \in DOMAIN readings |->
            IF readings[k].in = "body" THEN <<readings[k]>> ELSE <<>>] =
          Mapped(BodyOf(1 .. m), readings)
      <4>1. \A k \in DOMAIN readings : readings[k] \in Readings /\ readings[k].of \in 1 .. m
        BY DEF Inv, Typed, Meter
      <4>2. \A k \in DOMAIN readings : BodyOf(1 .. m)[readings[k]] =
              IF readings[k].in = "body" THEN <<readings[k]>> ELSE <<>>
        BY <4>1 DEF BodyOf
      <4>3. QED
        BY <4>2 DEF Mapped
    <3>5. QED
      BY <3>1, <3>2, <3>3, <3>4 DEF Covered, FlatMap
  <2>3. pc = "done" => csv = samples
    BY DEF Inv, Written
  <2>4. QED
    BY <2>1, <2>2, <2>3 DEF ReportIsAFront
<1>2. QED
  BY <1>1, InvSpec, PTL

==============================================================================
