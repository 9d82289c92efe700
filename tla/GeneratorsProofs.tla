------------------------- MODULE GeneratorsProofs -------------------------
(***************************************************************************)
(* Module Generators, for every set of values, all functions of the user,  *)
(* every pipeline of operations and every source.                          *)
(*                                                                         *)
(* The invariant has, for each generator, the stream D[i] of what it has   *)
(* taken and the stream W[i] of what it has yielded: W[i] and what it      *)
(* still holds are what its operation makes of D[i], and W[i-1] is D[i]    *)
(* and the value that it is offered, if any.  The generators before the    *)
(* one that is resumed have yielded, those after it await.                 *)
(*                                                                         *)
(* Induction over the naturals comes from the pigeonhole theorem, and what *)
(* a recursive function computes from an inductive construction of it.     *)
(***************************************************************************)
EXTENDS Generators, FiniteSetTheorems, SequenceTheorems, TLAPS

(* Induction over the naturals, for a set: were k not in T, the numbers up *)
(* to k that are not in T would map into those below k, one to one.        *)
LEMMA Induct ==
  ASSUME NEW T, 0 \in T, \A n \in Nat : n \in T => n + 1 \in T
  PROVE  \A n \in Nat : n \in T
  <1> SUFFICES ASSUME NEW k \in Nat, k \notin T PROVE FALSE
    OBVIOUS
  <1> DEFINE S == {n \in 0..k : n \notin T}
  <1> DEFINE f == [n \in S |-> n - 1]
  <1>1. k \in S /\ IsFiniteSet(S)
    <2>1. IsFiniteSet(0..k)
      BY FS_Interval
    <2>2. S \in SUBSET (0..k)
      OBVIOUS
    <2>3. k \in S
      OBVIOUS
    <2> HIDE DEF S
    <2> QED
      BY <2>1, <2>2, <2>3, FS_Subset
  <1>2. IsFiniteSet(S \ {k}) /\ Cardinality(S \ {k}) = Cardinality(S) - 1
        /\ Cardinality(S) \in Nat
    BY <1>1, FS_RemoveElement, FS_CardinalityType
  <1>3. ASSUME NEW n \in S PROVE n - 1 \in S \ {k}
    <2>1. n \in Nat /\ n # 0 /\ n <= k
      OBVIOUS
    <2>2. n - 1 \in Nat /\ (n - 1) + 1 = n
      BY <2>1
    <2>3. n - 1 \notin T
      BY <2>1, <2>2
    <2> QED
      BY <2>1, <2>2, <2>3
  <1>4. f \in [S -> S \ {k}]
    BY <1>3
  <1>5. \E x, y \in S : x # y /\ f[x] = f[y]
    <2> HIDE DEF S, f
    <2>1. Cardinality(S \ {k}) < Cardinality(S)
      BY <1>2
    <2>2. IsFiniteSet(S) /\ IsFiniteSet(S \ {k}) /\ f \in [S -> S \ {k}]
      BY <1>1, <1>2, <1>4
    <2> QED
      BY <2>1, <2>2, FS_PigeonHole
  <1> QED
    BY <1>5

(* A function that is defined by recursion from 0 to n ...                 *)
Unrolled(V, b, n, op, f) ==
  f \in [0..n -> V] /\ f[0] = b /\ \A i \in 1..n : f[i] = op[<<f[i-1], i>>]

(* ... and it exists: the running operation is built one argument after    *)
(* the other.                                                              *)
LEMMA Unroll ==
  ASSUME NEW V, NEW b \in V, NEW n \in Nat, NEW op \in [V \X (1..n) -> V]
  PROVE  \E f : Unrolled(V, b, n, op, f)
  <1> DEFINE Upto(m, f) == Unrolled(V, b, m, op, f)
  <1> USE DEF Unrolled
  <1> DEFINE T == {m \in Nat : m <= n => \E f : Upto(m, f)}
  <1>1. 0 \in T
    <2>1. Upto(0, [i \in {0} |-> b])
      OBVIOUS
    <2> QED
      BY <2>1
  <1>2. ASSUME NEW m \in Nat, m \in T PROVE m + 1 \in T
    <2> SUFFICES ASSUME m + 1 <= n PROVE \E f : Upto(m + 1, f)
      OBVIOUS
    <2>1. PICK f : Upto(m, f)
      BY <1>2
    <2> DEFINE g == [i \in 0..(m+1) |-> IF i = m + 1 THEN op[<<f[m], m + 1>>] ELSE f[i]]
    <2>2. f[m] \in V /\ m + 1 \in 1..n
      BY <2>1
    <2>3. op[<<f[m], m + 1>>] \in V
      BY <2>2
    <2>4. g \in [0..(m+1) -> V]
      BY <2>1, <2>3
    <2>5. \A i \in 0..m : g[i] = f[i]
      OBVIOUS
    <2>6. g[m + 1] = op[<<f[m], m + 1>>]
      OBVIOUS
    <2> HIDE DEF g
    <2>7. ASSUME NEW i \in 1..(m+1) PROVE g[i] = op[<<g[i-1], i>>]
      <3>1. CASE i = m + 1
        <4>1. g[m] = f[m] /\ i - 1 = m
          BY <2>5, <3>1
        <4> QED
          BY <2>6, <3>1, <4>1
      <3>2. CASE i # m + 1
        <4>1. i \in 1..m /\ i \in 0..m /\ i - 1 \in 0..m
          BY <3>2
        <4>2. f[i] = op[<<f[i-1], i>>]
          BY <2>1, <4>1
        <4> QED
          BY <2>5, <4>1, <4>2
      <3> QED
        BY <3>1, <3>2
    <2>8. g[0] = b
      BY <2>1, <2>5
    <2>9. Upto(m + 1, g)
      BY <2>4, <2>7, <2>8
    <2> QED
      BY <2>9
  <1>3. n \in T
    <2> HIDE DEF T
    <2> QED
      BY <1>1, <1>2, Induct
  <1> QED
    BY <1>3

(* The running concatenation of a sequence of sequences is ...             *)
Runs(V, ss, f) ==
  /\ f \in [0..Len(ss) -> Seq(V)] /\ f[0] = <<>>
  /\ \A i \in 1..Len(ss) : f[i] = f[i-1] \o ss[i]

(* ... the recursive function in FlattenSeq ...                            *)
LEMMA Flattens ==
  ASSUME NEW V, NEW ss \in Seq(Seq(V)), NEW f, Runs(V, ss, f)
  PROVE  FlattenSeq(ss) = f[Len(ss)]
  <1> DEFINE n == Len(ss)
  <1>1. n \in Nat /\ \A i \in 1..n : ss[i] \in Seq(V)
    OBVIOUS
  <1> DEFINE Step1(i) == f[i] = f[i-1] \o ss[i]
  <1>2. \A i \in 1..n : Step1(i)
    BY DEF Runs
  <1>3. n # 0 => 1 \in 1..n
    BY <1>1
  <1>4. n # 0 => f[1] = ss[1]
    <2> SUFFICES ASSUME n # 0 PROVE f[1] = ss[1]
      OBVIOUS
    <2>1. Step1(1)
      BY <1>2, <1>3
    <2>2. 1 - 1 = 0 /\ f[0] = <<>>
      BY DEF Runs
    <2>4. f[1] = <<>> \o ss[1]
      BY <2>1, <2>2
    <2>3. ss[1] \in Seq(V)
      BY <1>1, <1>3
    <2> HIDE DEF Step1
    <2> QED
      BY <2>3, <2>4, ConcatEmptySeq
  <1> HIDE DEF Step1
  <1>5. CASE n = 0
    <2>1. ss = <<>>
      BY <1>5
    <2> QED
      BY <1>5, <2>1 DEF FlattenSeq, Runs
  <1>6. CASE n # 0
    <2> DEFINE Is(h) == h = [i \in 1..n |-> IF i = 1 THEN ss[i] ELSE h[i-1] \o ss[i]]
    <2>1. \E h : Is(h)
      <3> DEFINE h == [i \in 1..n |-> f[i]]
      <3>1. ASSUME NEW i \in 1..n
            PROVE  h[i] = IF i = 1 THEN ss[i] ELSE h[i-1] \o ss[i]
        <4>1. CASE i = 1
          BY <1>4, <4>1
        <4>2. CASE i # 1
          <5>1. i - 1 \in 1..n
            BY <1>1, <4>2
          <5>2. Step1(i)
            BY <1>2
          <5> QED
            BY <4>2, <5>1, <5>2 DEF Step1
        <4> QED
          BY <4>1, <4>2
      <3>2. h = [i \in 1..n |-> IF i = 1 THEN ss[i] ELSE h[i-1] \o ss[i]]
        BY <3>1
      <3>3. Is(h)
        BY <3>2
      <3> QED
        BY <3>3
    <2>2. PICK h : Is(h) /\ FlattenSeq(ss) = h[n]
      <3>1. FlattenSeq(ss) = (CHOOSE h : Is(h))[n]
        BY <1>6 DEF FlattenSeq
      <3>2. Is(CHOOSE h : Is(h))
        BY <2>1
      <3> QED
        BY <3>1, <3>2
    <2>3. \A i \in 1..n : h[i] = IF i = 1 THEN ss[i] ELSE h[i-1] \o ss[i]
      BY <2>2
    <2> DEFINE T == {i \in Nat : i + 1 \in 1..n => h[i+1] = f[i+1]}
    <2>4. 0 \in T
      <3>1. h[1] = ss[1]
        BY <1>3, <1>6, <2>3
      <3> QED
        BY <1>4, <1>6, <3>1
    <2>5. ASSUME NEW i \in Nat, i \in T PROVE i + 1 \in T
      <3> SUFFICES ASSUME i + 2 \in 1..n PROVE h[i + 2] = f[i + 2]
        OBVIOUS
      <3> DEFINE k == i + 2
      <3>1. i + 1 \in 1..n /\ k - 1 = i + 1 /\ k # 1 /\ k \in 1..n
        BY <1>1
      <3>2. h[i + 1] = f[i + 1]
        BY <2>5, <3>1
      <3> HIDE DEF k
      <3>3. h[k] = h[k-1] \o ss[k]
        BY <2>3, <3>1
      <3>4. Step1(k)
        BY <1>2, <3>1
      <3>5. h[k] = f[k]
        BY <3>1, <3>2, <3>3, <3>4 DEF Step1
      <3> QED
        BY <3>5 DEF k
    <2>6. \A i \in Nat : i \in T
      <3> HIDE DEF T
      <3> QED
        BY <2>4, <2>5, Induct
    <2>7. n - 1 \in Nat /\ (n - 1) + 1 = n /\ n \in 1..n
      BY <1>1, <1>6
    <2>8. n - 1 \in T
      BY <2>6, <2>7
    <2> QED
      BY <2>2, <2>7, <2>8
  <1> QED
    BY <1>5, <1>6

(* ... and exists.                                                         *)
LEMMA Running ==
  ASSUME NEW V, NEW ss \in Seq(Seq(V))
  PROVE  \E f : Runs(V, ss, f)
  <1> DEFINE n == Len(ss)
  <1> DEFINE op == [p \in Seq(V) \X (1..n) |-> p[1] \o ss[p[2]]]
  <1>1. n \in Nat /\ <<>> \in Seq(V) /\ \A i \in 1..n : ss[i] \in Seq(V)
    OBVIOUS
  <1>2. op \in [Seq(V) \X (1..n) -> Seq(V)]
    BY <1>1
  <1>3. \A a \in Seq(V), i \in 1..n : op[<<a, i>>] = a \o ss[i]
    OBVIOUS
  <1> HIDE DEF op
  <1>4. PICK f : Unrolled(Seq(V), <<>>, n, op, f)
    BY <1>1, <1>2, Unroll, Zenon
  <1>5. \A i \in 1..n : i - 1 \in 0..n /\ f[i-1] \in Seq(V)
    <2> HIDE DEF n
    <2> QED
      BY <1>1, <1>4 DEF Unrolled
  <1> QED
    BY <1>3, <1>4, <1>5 DEF Unrolled, Runs

(* What FlattenSeq makes of no sequence, ...                               *)
LEMMA FlattenEmpty == FlattenSeq(<<>>) = <<>>
  BY DEF FlattenSeq

(* ... and of one sequence more.                                           *)
LEMMA FlattenAppend ==
  ASSUME NEW V, NEW ss \in Seq(Seq(V)), NEW x \in Seq(V)
  PROVE  /\ FlattenSeq(ss) \in Seq(V)
         /\ FlattenSeq(Append(ss, x)) = FlattenSeq(ss) \o x
  <1> DEFINE n == Len(ss)
  <1> DEFINE tt == Append(ss, x)
  <1>1. n \in Nat /\ tt \in Seq(Seq(V)) /\ Len(tt) = n + 1 /\ tt[n + 1] = x
        /\ \A i \in 1..n : tt[i] = ss[i]
    OBVIOUS
  <1>2. PICK f : Runs(V, tt, f)
    <2> HIDE DEF tt
    <2> QED
      BY <1>1, Running
  <1>3. FlattenSeq(tt) = f[n + 1]
    <2> HIDE DEF tt
    <2> QED
      BY <1>1, <1>2, Flattens
  <1>4. f \in [0..(n+1) -> Seq(V)] /\ f[0] = <<>> /\ \A i \in 1..(n+1) : f[i] = f[i-1] \o tt[i]
    <2> HIDE DEF tt
    <2> QED
      BY <1>1, <1>2 DEF Runs
  <1> HIDE DEF tt
  <1> DEFINE g == [i \in 0..n |-> f[i]]
  <1>5. g[n] = f[n] /\ Runs(V, ss, g)
    <2>1. \A i \in 0..n : g[i] = f[i] /\ i \in 0..(n+1)
      BY <1>1
    <2>2. g \in [0..n -> Seq(V)]
      BY <1>4, <2>1
    <2>3. g[0] = <<>> /\ g[n] = f[n]
      BY <1>1, <1>4, <2>1
    <2> HIDE DEF g
    <2>4. ASSUME NEW i \in 1..n PROVE g[i] = g[i-1] \o ss[i]
      <3>1. i \in 0..n /\ i - 1 \in 0..n /\ i \in 1..(n+1)
        BY <1>1
      <3>2. f[i] = f[i-1] \o tt[i] /\ tt[i] = ss[i]
        BY <1>1, <1>4, <3>1
      <3> QED
        BY <2>1, <3>1, <3>2
    <2> QED
      BY <2>2, <2>3, <2>4 DEF Runs
  <1>6. FlattenSeq(ss) = g[n]
    <2> HIDE DEF g
    <2> QED
      BY <1>5, Flattens
  <1>7. f[n + 1] = f[n] \o x /\ f[n] \in Seq(V)
    <2>1. n + 1 \in 1..(n+1) /\ (n + 1) - 1 = n /\ n \in 0..(n+1)
      BY <1>1
    <2>2. f[n + 1] = f[(n + 1) - 1] \o tt[n + 1]
      BY <1>4, <2>1
    <2> QED
      BY <1>1, <1>4, <2>1, <2>2
  <1> QED
    BY <1>3, <1>5, <1>6, <1>7 DEF tt

(* Flat(f, s) of no element.                                               *)
LEMMA FlatEmpty == ASSUME NEW f PROVE Flat(f, <<>>) = <<>>
  <1>1. [i \in DOMAIN <<>> |-> f[<<>>[i]]] = <<>>
    OBVIOUS
  <1> QED
    BY <1>1, FlattenEmpty DEF Flat

(* A function of elements to sequences, ...                                *)
Cuts(f, S, V) == f \in [S -> Seq(V)]
(* ... whose Flat goes element by element, ...                             *)
Grows(f, S) == \A s \in Seq(S), x \in S : Flat(f, Append(s, x)) = Flat(f, s) \o f[x]
(* ... and part by part; ...                                               *)
Splits(f, S) == \A s, r \in Seq(S) : Flat(f, s \o r) = Flat(f, s) \o Flat(f, r)
(* ... what it makes of each element.                                      *)
Each(f, s) == [i \in DOMAIN s |-> f[s[i]]]

(* There are as many as there are elements.                                *)
LEMMA EachLen == ASSUME NEW S, NEW s \in Seq(S), NEW f PROVE Len(Each(f, s)) = Len(s)
  <1>1. Len(s) \in Nat /\ DOMAIN s = 1..Len(s)
    OBVIOUS
  <1> DEFINE n == Len(s)
  <1> DEFINE V == {f[s[i]] : i \in 1..n}
  <1>2. Each(f, s) \in [1..n -> V]
    BY <1>1 DEF Each
  <1> HIDE DEF V, n
  <1>3. n \in Nat
    BY <1>1 DEF n
  <1>4. DOMAIN Each(f, s) = 1..n /\ Each(f, s) \in Seq(V)
    BY <1>2, <1>3, IsASeq
  <1>5. DOMAIN Each(f, s) = 1..Len(Each(f, s)) /\ Len(Each(f, s)) \in Nat
    BY <1>4, LenProperties
  <1>6. Len(Each(f, s)) = n
    BY <1>3, <1>4, <1>5
  <1> QED
    BY <1>6 DEF n

(* Flat(f, s) is a sequence, ...                                           *)
LEMMA FlatType ==
  ASSUME NEW S, NEW V, NEW f, Cuts(f, S, V), NEW s \in Seq(S)
  PROVE  /\ Flat(f, s) \in Seq(V)
         /\ Each(f, s) \in Seq(Seq(V))
  <1> USE DEF Cuts
  <1> DEFINE ss == [i \in DOMAIN s |-> f[s[i]]]
  <1>1. DOMAIN s = 1..Len(s) /\ Len(s) \in Nat /\ \A i \in 1..Len(s) : s[i] \in S
    OBVIOUS
  <1>2. \A i \in DOMAIN s : f[s[i]] \in Seq(V)
    BY <1>1
  <1>3. ss \in [1..Len(s) -> Seq(V)]
    BY <1>1, <1>2
  <1>4. ss \in Seq(Seq(V)) /\ Len(ss) = Len(s)
    <2> DEFINE W == Seq(V)
    <2> DEFINE n == Len(s)
    <2>1. ss \in [1..n -> W] /\ n \in Nat
      BY <1>1, <1>3
    <2> HIDE DEF W, n, ss
    <2>2. ss \in Seq(W)
      BY <2>1, IsASeq
    <2>3. DOMAIN ss = 1..n /\ DOMAIN ss = 1..Len(ss) /\ Len(ss) \in Nat
      BY <2>1, <2>2, LenProperties
    <2>4. Len(ss) = n
      BY <2>1, <2>3
    <2> QED
      BY <2>2, <2>4 DEF W, n
  <1>5. <<>> \in Seq(V)
    OBVIOUS
  <1>6. Flat(f, s) \in Seq(V)
    <2> HIDE DEF ss
    <2>1. FlattenSeq(ss) \in Seq(V)
      BY <1>4, <1>5, FlattenAppend
    <2> QED
      BY <2>1 DEF Flat, ss
  <1> QED
    BY <1>4, <1>6 DEF Each

(* ... to which each further element adds what f makes of it, ...          *)
LEMMA FlatAppend ==
  ASSUME NEW S, NEW V, NEW f, Cuts(f, S, V)
  PROVE  Grows(f, S)
  <1> SUFFICES ASSUME NEW s \in Seq(S), NEW x \in S
               PROVE  Flat(f, Append(s, x)) = Flat(f, s) \o f[x]
    BY DEF Grows
  <1>0. Each(f, s) \in Seq(Seq(V)) /\ Len(Each(f, s)) = Len(s)
    <2>1. Each(f, s) \in Seq(Seq(V))
      BY FlatType, Zenon
    <2>2. Len(Each(f, s)) = Len(s)
      BY EachLen, Zenon
    <2> QED
      BY <2>1, <2>2
  <1> DEFINE ss == [i \in DOMAIN s |-> f[s[i]]]
  <1> DEFINE t == Append(s, x)
  <1>1. ss \in Seq(Seq(V)) /\ Len(ss) = Len(s) /\ f[x] \in Seq(V)
    <2>1. f[x] \in Seq(V)
      BY DEF Cuts
    <2>2. ss \in Seq(Seq(V)) /\ Len(ss) = Len(s)
      BY <1>0 DEF Each
    <2> QED
      BY <2>1, <2>2
  <1>2. t \in Seq(S) /\ Len(t) = Len(s) + 1 /\ t[Len(s) + 1] = x
        /\ \A i \in 1..Len(s) : t[i] = s[i]
    OBVIOUS
  <1>3. DOMAIN t = 1..(Len(s) + 1) /\ DOMAIN s = 1..Len(s)
    OBVIOUS
  <1>4. [i \in DOMAIN t |-> f[t[i]]] = Append(ss, f[x])
    <2> DEFINE lhs == [i \in DOMAIN t |-> f[t[i]]]
    <2> DEFINE rhs == Append(ss, f[x])
    <2>1. rhs \in Seq(Seq(V)) /\ Len(rhs) = Len(s) + 1 /\ rhs[Len(s) + 1] = f[x]
          /\ \A i \in 1..Len(s) : rhs[i] = f[s[i]]
      BY <1>1
    <2>2. lhs = [i \in 1..(Len(s) + 1) |-> f[t[i]]]
      BY <1>3
    <2>3. \A i \in 1..(Len(s) + 1) : f[t[i]] = rhs[i]
      BY <1>2, <2>1
    <2> HIDE DEF rhs, t
    <2>4. rhs = [i \in 1..(Len(s) + 1) |-> rhs[i]]
      BY <2>1
    <2> QED
      BY <2>2, <2>3, <2>4 DEF rhs
  <1> HIDE DEF ss, t
  <1>5. Flat(f, s) = FlattenSeq(ss) /\ Flat(f, t) = FlattenSeq(Append(ss, f[x]))
    BY <1>4 DEF Flat, ss
  <1> QED
    BY <1>1, <1>5, FlattenAppend DEF t

(* ... so that it can be cut anywhere in s.                                *)
LEMMA FlatConcat ==
  ASSUME NEW S, NEW V, NEW f, Cuts(f, S, V)
  PROVE  Splits(f, S)
  <1> SUFFICES ASSUME NEW s \in Seq(S), NEW r \in Seq(S)
               PROVE  Flat(f, s \o r) = Flat(f, s) \o Flat(f, r)
    BY DEF Splits
  <1>0. Grows(f, S)
    BY FlatAppend, Zenon
  <1> DEFINE T == {n \in Nat : \A q \in Seq(S) : Len(q) = n
                                 => Flat(f, s \o q) = Flat(f, s) \o Flat(f, q)}
  <1>1. 0 \in T
    <2> SUFFICES ASSUME NEW q \in Seq(S), Len(q) = 0
                 PROVE  Flat(f, s \o q) = Flat(f, s) \o Flat(f, q)
      OBVIOUS
    <2>1. q = <<>>
      OBVIOUS
    <2>2. Flat(f, q) = <<>>
      BY <2>1, FlatEmpty
    <2>3. Flat(f, s) \in Seq(V)
      BY FlatType, Zenon
    <2> QED
      BY <2>1, <2>2, <2>3, ConcatEmptySeq
  <1>2. ASSUME NEW n \in Nat, n \in T PROVE n + 1 \in T
    <2> SUFFICES ASSUME NEW q \in Seq(S), Len(q) = n + 1
                 PROVE  Flat(f, s \o q) = Flat(f, s) \o Flat(f, q)
      OBVIOUS
    <2> DEFINE p == SubSeq(q, 1, n)
    <2> DEFINE x == q[n + 1]
    <2>1. p \in Seq(S) /\ Len(p) = n /\ x \in S /\ q = Append(p, x)
      OBVIOUS
    <2> HIDE DEF p, x
    <2>2. Flat(f, s \o p) = Flat(f, s) \o Flat(f, p)
      BY <1>2, <2>1
    <2>3. s \o q = Append(s \o p, x) /\ s \o p \in Seq(S)
      BY <2>1
    <2>4. Flat(f, s \o q) = Flat(f, s \o p) \o f[x] /\ Flat(f, q) = Flat(f, p) \o f[x]
      <3>1. Flat(f, Append(s \o p, x)) = Flat(f, s \o p) \o f[x]
        BY <1>0, <2>1, <2>3 DEF Grows
      <3>2. Flat(f, Append(p, x)) = Flat(f, p) \o f[x]
        BY <1>0, <2>1 DEF Grows
      <3> QED
        BY <2>1, <2>3, <3>1, <3>2, Zenon
    <2>5. Flat(f, s) \in Seq(V) /\ Flat(f, p) \in Seq(V)
      BY <2>1, FlatType, Zenon
    <2>6. f[x] \in Seq(V)
      BY <2>1 DEF Cuts
    <2>7. (Flat(f, s) \o Flat(f, p)) \o f[x] = Flat(f, s) \o (Flat(f, p) \o f[x])
      <3>1. \A a, b, c \in Seq(V) : (a \o b) \o c = a \o (b \o c)
        OBVIOUS
      <3> QED
        BY <2>5, <2>6, <3>1, Zenon
    <2> QED
      BY <2>2, <2>4, <2>7, Zenon
  <1>3. Len(r) \in T
    <2> HIDE DEF T
    <2>1. Len(r) \in Nat
      OBVIOUS
    <2> QED
      BY <1>1, <1>2, <2>1, Induct
  <1> QED
    BY <1>3

(* Imploded(s) is the last of the accumulators that OpImplodeGeneratorM    *)
(* goes through: none for no element, ...                                  *)
LEMMA Implodes ==
  ASSUME NEW s \in Seq(Values)
  PROVE  /\ Imploded(s) \in Values
         /\ \E f \in [0..Len(s) -> Values] :
              /\ f[0] = Empty /\ \A i \in 1..Len(s) : f[i] = Step[<<f[i-1], s[i]>>]
              /\ Imploded(s) = f[Len(s)]
  <1> DEFINE n == Len(s)
  <1> DEFINE op == [p \in Values \X (1..n) |-> Step[<<p[1], s[p[2]]>>]]
  <1>1. n \in Nat /\ Empty \in Values /\ \A i \in 1..n : s[i] \in Values
    BY FunctionsAssumption
  <1>2. op \in [Values \X (1..n) -> Values]
    BY <1>1, FunctionsAssumption
  <1>3. \A a \in Values, i \in 1..n : op[<<a, i>>] = Step[<<a, s[i]>>]
    OBVIOUS
  <1> HIDE DEF op
  <1>4. PICK f : Unrolled(Values, Empty, n, op, f)
    BY <1>1, <1>2, Unroll, Zenon
  <1>5. f \in [0..n -> Values] /\ f[0] = Empty /\ \A i \in 1..n : f[i] = op[<<f[i-1], i>>]
    BY <1>4 DEF Unrolled
  <1> DEFINE Is(h) == h = [i \in 0..n |-> IF i = 0 THEN Empty ELSE Step[<<h[i-1], s[i]>>]]
  <1>6. Is(f)
    <2> HIDE DEF n
    <2>1. \A i \in 1..n : i - 1 \in 0..n /\ f[i-1] \in Values
      BY <1>1, <1>5
    <2>5. \A i \in 1..n : f[i] = Step[<<f[i-1], s[i]>>]
      BY <1>3, <1>5, <2>1
    <2>2. \A i \in 0..n : f[i] = IF i = 0 THEN Empty ELSE Step[<<f[i-1], s[i]>>]
      <3>1. \A i \in 0..n : i = 0 \/ i \in 1..n
        BY <1>1
      <3> QED
        BY <1>5, <2>5, <3>1
    <2>3. f = [i \in 0..n |-> f[i]]
      BY <1>5
    <2>4. f = [i \in 0..n |-> IF i = 0 THEN Empty ELSE Step[<<f[i-1], s[i]>>]]
      BY <2>2, <2>3
    <2> QED
      BY <2>4
  <1>7. Imploded(s) = (CHOOSE h : Is(h))[n]
    BY DEF Imploded
  <1>8. Is(CHOOSE h : Is(h))
    BY <1>6
  <1> DEFINE h == CHOOSE g : Is(g)
  <1>9. h = [i \in 0..n |-> IF i = 0 THEN Empty ELSE Step[<<h[i-1], s[i]>>]]
    BY <1>8
  <1> HIDE DEF h, Is
  <1>10. \A i \in 0..n : h[i] = IF i = 0 THEN Empty ELSE Step[<<h[i-1], s[i]>>]
    BY <1>9
  <1> DEFINE T == {i \in Nat : i \in 0..n => h[i] \in Values}
  <1>11. 0 \in T
    BY <1>1, <1>10
  <1>12. ASSUME NEW i \in Nat, i \in T PROVE i + 1 \in T
    <2> SUFFICES ASSUME i + 1 \in 0..n PROVE h[i + 1] \in Values
      OBVIOUS
    <2> DEFINE k == i + 1
    <2>1. i \in 0..n /\ k # 0 /\ k - 1 = i /\ k \in 0..n /\ s[k] \in Values
      BY <1>1
    <2> HIDE DEF k
    <2>2. h[k] = Step[<<h[i], s[k]>>]
      BY <1>10, <2>1
    <2>3. h[i] \in Values
      BY <1>12, <2>1
    <2> QED
      BY <2>1, <2>2, <2>3, FunctionsAssumption DEF k
  <1>13. \A i \in Nat : i \in T
    <2> HIDE DEF T
    <2> QED
      BY <1>11, <1>12, Induct
  <1>14. \A i \in 0..n : h[i] \in Values
    BY <1>1, <1>13
  <1>15. h \in [0..n -> Values]
    BY <1>9, <1>14
  <1>16. h[0] = Empty /\ \A i \in 1..n : h[i] = Step[<<h[i-1], s[i]>>]
    <2>1. 0 \in 0..n /\ \A i \in 1..n : i \in 0..n /\ i # 0
      BY <1>1
    <2> QED
      BY <1>10, <2>1, Zenon
  <1>17. Imploded(s) = h[n] /\ h[n] \in Values
    BY <1>1, <1>7, <1>14 DEF h
  <1> QED
    BY <1>15, <1>16, <1>17

(* ... Empty at first, ...                                                 *)
LEMMA ImplodeEmpty == Imploded(<<>>) = Empty
  <1>1. <<>> \in Seq(Values) /\ Len(<<>>) = 0
    OBVIOUS
  <1> QED
    BY <1>1, Implodes

(* ... and one Step further with each element.                             *)
LEMMA ImplodeAppend ==
  ASSUME NEW s \in Seq(Values), NEW u \in Values
  PROVE  Imploded(Append(s, u)) = Step[<<Imploded(s), u>>]
  <1> DEFINE n == Len(s)
  <1> DEFINE t == Append(s, u)
  <1>1. n \in Nat /\ t \in Seq(Values) /\ Len(t) = n + 1 /\ t[n + 1] = u
        /\ \A i \in 1..n : t[i] = s[i]
    OBVIOUS
  <1> HIDE DEF t
  <1>2. PICK f \in [0..(n+1) -> Values] :
          /\ f[0] = Empty /\ \A i \in 1..(n+1) : f[i] = Step[<<f[i-1], t[i]>>]
          /\ Imploded(t) = f[n + 1]
    BY <1>1, Implodes
  <1>3. PICK g \in [0..n -> Values] :
          /\ g[0] = Empty /\ \A i \in 1..n : g[i] = Step[<<g[i-1], s[i]>>]
          /\ Imploded(s) = g[n]
    BY Implodes
  <1> HIDE DEF n
  <1> DEFINE T == {i \in Nat : i \in 0..n => g[i] = f[i]}
  <1>4. 0 \in T
    BY <1>2, <1>3
  <1>5. ASSUME NEW i \in Nat, i \in T PROVE i + 1 \in T
    <2> SUFFICES ASSUME i + 1 \in 0..n PROVE g[i + 1] = f[i + 1]
      OBVIOUS
    <2> DEFINE k == i + 1
    <2>1. i \in 0..n /\ k - 1 = i /\ k \in 1..n /\ k \in 1..(n+1) /\ s[k] = t[k]
      BY <1>1
    <2> HIDE DEF k
    <2>2. g[k] = Step[<<g[i], s[k]>>] /\ f[k] = Step[<<f[i], t[k]>>]
      BY <1>2, <1>3, <2>1
    <2>3. g[i] = f[i]
      BY <1>5, <2>1
    <2> QED
      BY <2>1, <2>2, <2>3 DEF k
  <1>6. n \in T
    <2> HIDE DEF T
    <2> QED
      BY <1>1, <1>4, <1>5, Induct
  <1>7. g[n] = f[n]
    BY <1>1, <1>6
  <1>8. f[n + 1] = Step[<<f[n], u>>]
    <2> DEFINE k == n + 1
    <2>1. k - 1 = n /\ k \in 1..(n+1) /\ t[k] = u
      BY <1>1
    <2> HIDE DEF k
    <2>2. f[k] = Step[<<f[n], u>>]
      BY <1>2, <2>1
    <2> QED
      BY <2>2 DEF k
  <1> QED
    BY <1>2, <1>3, <1>7, <1>8 DEF t

------------------------------------------------------------------------------
(* The invariant.                                                          *)

(* What a generator may yield ...                                          *)
Item == Values \cup {Nothing}
(* ... and what it adds to the things of a stream.                         *)
Thing(v) == IF v = Nothing THEN <<>> ELSE <<v>>

(* Where a generator can be when it is not being resumed: it awaits its    *)
(* precursor, ...                                                          *)
Awaiting == {"A", "A0"}
(* ... or it has yielded.                                                  *)
Rest == {"I", "A1r", "Ar", "Fi"}

(* What a generator consists of ...                                        *)
GeneratorRecord ==
  [op : Operations \cup {"source"}, class : {"L", "0", "MM", "F", "X", "XM", "IM"},
   state : Awaiting \cup Rest \cup {"A1"}, completed : BOOLEAN,
   val : Item, left : Seq(Item), nval : Item, acc : Values]

(* ... and what the state does.                                            *)
Typed ==
  /\ gens \in Seq(GeneratorRecord) /\ last > 1
  /\ task \in 0..last /\ inner \in BOOLEAN /\ asked \in Nat
  /\ items \in Seq(Item) /\ out \in Seq(Item)

(* The class of a generator fits its operation, ...                        *)
Fits(g) ==
  CASE g.class \in {"0", "MM"} -> g.op \in {"then", "thenMaybe"}
    [] g.class = "F"           -> g.op = "thenFuture"
    [] g.class \in {"X", "XM"} -> g.op = "explode"
    [] g.class = "IM"          -> g.op = "implode"
    [] OTHER                   -> FALSE

(* ... and those that take their precursor's values for things stand after *)
(* one that yields nothing else.                                           *)
Plain(i) ==
  \/ i = 1 /\ Nothing \notin {items[k] : k \in DOMAIN items}
  \/ gens[i].class \in {"F", "IM"}
  \/ gens[i].class = "0" /\ gens[i].op = "then"

(* The source comes first, and each class is where the overloads put it.   *)
Built ==
  /\ gens[1].class = "L"
  /\ \A i \in 2..last : Fits(gens[i]) /\ (gens[i].class \in {"0", "F", "X"} => Plain(i - 1))

(* The generators before the one that is resumed have yielded, those after *)
(* it await; a generator that is done has a precursor that is completed.   *)
Placed(i) ==
  /\ i = task => gens[i].state # "Fi"
  /\ i < task \/ task = 0 => gens[i].state \in Rest
  /\ task # 0 /\ i > task => gens[i].state \in Awaiting
  /\ gens[i].completed <=> gens[i].state = "Fi"
  /\ gens[i].state = "Fi" => gens[i-1].completed
  /\ gens[i].left \in Seq(Values)
  /\ gens[i].state \in {"A1r", "Ar"} => gens[i].left # <<>>
  /\ gens[i].state = "A1" => inner \/ gens[i].nval \in Values

(* The source is Completed with its last item, and what is in *nxt is      *)
(* resumed only while there is some.                                       *)
Control ==
  /\ gens[1].completed <=> gens[1].left = <<>>
  /\ task = 1 => gens[1].left # <<>>
  /\ inner => task > 1 /\ gens[task].state = "A1" /\ gens[task].left # <<>>
  /\ \A i \in 2..last : Placed(i)

(* Whether gens[i] is still to take what gens[i-1] has yielded, ...        *)
Pending(i) == \/ task = i /\ gens[i].state \in Awaiting
              \/ gens[i].state = "I" /\ gens[i-1].completed

(* ... and what that is.                                                   *)
Offered(i) == IF Pending(i) THEN Thing(gens[i-1].val) ELSE <<>>

(* What a generator is still to yield of what it has taken.                *)
Held(g, b) ==
  IF g.state \in {"A1r", "Ar"} \/ (g.state = "A1" /\ b) THEN g.left
  ELSE IF g.state = "A1" THEN <<g.nval>> \o g.left
  ELSE <<>>

(* Of the things d a generator g has made the things w.                    *)
Made(g, b, d, w) ==
  IF g.op = "implode"
  THEN g.acc = Imploded(d) /\ w = IF g.state = "Fi" THEN <<g.acc>> ELSE <<>>
  ELSE Flat(Pieces(g.op), d) = w \o Held(g, b)

(* D[i] is what gens[i] has taken, W[i] what it has yielded, as things.    *)
Passed(i, W, D) ==
  /\ W[i-1] = D[i] \o Offered(i)
  /\ Pending(i) /\ Plain(i - 1) => gens[i-1].val \in Values
  /\ Made(gens[i], inner, D[i], W[i])

(* The source has yielded the items it took, and the client has what the   *)
(* last generator yielded.                                                 *)
Streamed(W, D) ==
  /\ W \in [1..last -> Seq(Values)] /\ D \in [1..last -> Seq(Values)]
  /\ W[1] = Things(SubSeq(items, 1, Taken)) /\ W[last] = Things(out)
  /\ \A i \in 2..last : Passed(i, W, D)

(* The source has still to yield what it has not.                          *)
Sourced == Len(gens[1].left) <= Len(items)
           /\ gens[1].left = SubSeq(items, Taken + 1, Len(items))

(* The client has what it asked for, or one value less while it waits.     *)
Answered == /\ asked = Len(out) + (IF task = 0 THEN 0 ELSE 1)
            /\ gens[last].class \in MaybeClasses =>
                 \A k \in DOMAIN out :
                    out[k] = Nothing => k = Len(out) /\ gens[last].completed

(* The inductive invariant.                                                *)
IInv == /\ Typed /\ Built /\ Control /\ Sourced /\ Answered
        /\ \E W, D : Streamed(W, D)

(* What a step of gens[i] leaves alone, when that is not the source, ...   *)
Kept ==
  /\ IInv'
  /\ items' = items /\ asked' = asked /\ last' = last /\ gens'[1] = gens[1]
  /\ \A j \in 1..last : gens'[j].op = gens[j].op

(* ... and when it is.                                                     *)
Drawn ==
  /\ IInv' /\ task = 1
  /\ items' = items /\ asked' = asked /\ last' = last
  /\ Len(gens'[1].left) = Len(gens[1].left) - 1
  /\ \A j \in 1..last : gens'[j].op = gens[j].op

(* A thing is a stream of one, nothing one of none.                        *)
LEMMA ThingIs ==
  /\ \A v \in Item : Thing(v) \in Seq(Values)
  /\ \A v \in Values : Thing(v) = <<v>> /\ v # Nothing
  /\ Thing(Nothing) = <<>>
  <1>1. \A v \in Values : v # Nothing
    BY FunctionsAssumption
  <1>2. \A v : v # Nothing => Thing(v) = <<v>>
    BY DEF Thing
  <1>3. Thing(Nothing) = <<>>
    BY DEF Thing
  <1>4. \A v \in Values : Thing(v) = <<v>>
    BY <1>1, <1>2, Zenon
  <1>5. \A v \in Item : Thing(v) \in Seq(Values)
    <2>1. <<>> \in Seq(Values) /\ \A v \in Values : <<v>> \in Seq(Values)
      OBVIOUS
    <2> QED
      BY <1>3, <1>4, <2>1 DEF Item
  <1> QED
    BY <1>1, <1>3, <1>4, <1>5, Zenon

(* Things(s) is Flat of the function Thing, ...                            *)
ThingOf == [v \in Values \cup {Nothing} |-> IF v = Nothing THEN <<>> ELSE <<v>>]

(* ... which is one of those that Flat can be cut for.                     *)
LEMMA ThingOfIs ==
  /\ Cuts(ThingOf, Item, Values)
  /\ \A v \in Item : ThingOf[v] = Thing(v)
  /\ \A s : Things(s) = Flat(ThingOf, s)
  BY FunctionsAssumption DEF ThingOf, Thing, Item, Things, Cuts

(* The things of a stream, item by item and part by part.                  *)
LEMMA ThingsAre ==
  /\ Things(<<>>) = <<>>
  /\ \A s \in Seq(Item) : Things(s) \in Seq(Values)
  /\ \A s \in Seq(Item), v \in Item : Things(Append(s, v)) = Things(s) \o Thing(v)
  /\ \A s, r \in Seq(Item) : Things(s \o r) = Things(s) \o Things(r)
  <1>1. Things(<<>>) = <<>>
    BY ThingOfIs, FlatEmpty, Zenon
  <1>2. ASSUME NEW s \in Seq(Item) PROVE Things(s) \in Seq(Values)
    <2>1. Flat(ThingOf, s) \in Seq(Values)
      BY ThingOfIs, FlatType, Zenon
    <2> QED
      BY <2>1, ThingOfIs, Zenon
  <1>3. ASSUME NEW s \in Seq(Item), NEW v \in Item
        PROVE  Things(Append(s, v)) = Things(s) \o Thing(v)
    <2>1. Flat(ThingOf, Append(s, v)) = Flat(ThingOf, s) \o ThingOf[v]
      <3>1. Grows(ThingOf, Item)
        BY ThingOfIs, FlatAppend, Zenon
      <3> QED
        BY <3>1, Zenon DEF Grows
    <2> QED
      BY <2>1, ThingOfIs, Zenon
  <1>4. ASSUME NEW s \in Seq(Item), NEW r \in Seq(Item)
        PROVE  Things(s \o r) = Things(s) \o Things(r)
    <2>1. Flat(ThingOf, s \o r) = Flat(ThingOf, s) \o Flat(ThingOf, r)
      <3>1. Splits(ThingOf, Item)
        BY ThingOfIs, FlatConcat, Zenon
      <3> QED
        BY <3>1, Zenon DEF Splits
    <2> QED
      BY <2>1, ThingOfIs, Zenon
  <1> QED
    BY <1>1, <1>2, <1>3, <1>4

(* What each operation makes of a thing: a sequence, ...                   *)
LEMMA PiecesAre ==
  ASSUME NEW op \in Operations \ {"implode"}
  PROVE  /\ Cuts(Pieces(op), Values, Values) /\ Pieces(op) \in [Values -> Seq(Values)]
         /\ \A u \in Values :
              /\ op = "then" => Pieces(op)[u] = Thing(Map[u])
              /\ op = "thenMaybe" => Pieces(op)[u] = Thing(Filter[u])
              /\ op = "thenFuture" => Pieces(op)[u] = Inner[u]
              /\ op = "explode" => Pieces(op)[u] = Explosion[u]
  <1>1. /\ Map \in [Values -> Values] /\ Filter \in [Values -> Item]
        /\ Inner \in [Values -> Seq(Values)] /\ Explosion \in [Values -> Seq(Values)]
    BY FunctionsAssumption DEF Item
  <1>2. ASSUME NEW u \in Values
        PROVE  /\ op = "then" => Pieces(op)[u] = Thing(Map[u])
               /\ op = "thenMaybe" => Pieces(op)[u] = Thing(Filter[u])
               /\ op = "thenFuture" => Pieces(op)[u] = Inner[u]
               /\ op = "explode" => Pieces(op)[u] = Explosion[u]
               /\ Pieces(op)[u] \in Seq(Values)
    <2>1. Map[u] \in Values /\ Thing(Map[u]) = <<Map[u]>> /\ Thing(Map[u]) \in Seq(Values)
      BY <1>1, ThingIs DEF Item
    <2>2. /\ Thing(Filter[u]) = IF Filter[u] = Nothing THEN <<>> ELSE <<Filter[u]>>
          /\ Thing(Filter[u]) \in Seq(Values)
      BY <1>1, ThingIs DEF Thing
    <2>3. Inner[u] \in Seq(Values) /\ Explosion[u] \in Seq(Values) /\ <<>> \in Seq(Values)
      BY <1>1
    <2>4. CASE op = "then"
      BY <2>1, <2>4 DEF Pieces
    <2>5. CASE op = "thenMaybe"
      BY <2>2, <2>5 DEF Pieces
    <2>6. CASE op = "thenFuture"
      BY <2>3, <2>6 DEF Pieces
    <2>7. CASE op = "explode"
      BY <2>3, <2>7 DEF Pieces
    <2> QED
      BY <2>4, <2>5, <2>6, <2>7 DEF Operations
  <1>3. Pieces(op) = [u \in Values |-> Pieces(op)[u]]
    BY DEF Pieces
  <1>4. Pieces(op) \in [Values -> Seq(Values)]
    BY <1>2, <1>3
  <1> QED
    BY <1>2, <1>4 DEF Cuts

(* ... so that a generator that takes one more item has so much more to    *)
(* yield, ...                                                              *)
LEMMA Taking ==
  ASSUME NEW op \in Operations \ {"implode"}, NEW d \in Seq(Values), NEW v \in Item
  PROVE  /\ Flat(Pieces(op), d) \in Seq(Values)
         /\ Flat(Pieces(op), d \o Thing(v)) =
              Flat(Pieces(op), d) \o (IF v = Nothing THEN <<>> ELSE Pieces(op)[v])
  <1>1. Cuts(Pieces(op), Values, Values) /\ Pieces(op) \in [Values -> Seq(Values)]
    BY PiecesAre, Zenon
  <1>2. Flat(Pieces(op), d) \in Seq(Values)
    BY <1>1, FlatType, Zenon
  <1>3. CASE v = Nothing
    <2>1. d \o Thing(v) = d /\ Flat(Pieces(op), d) \o <<>> = Flat(Pieces(op), d)
      BY <1>2, <1>3, ThingIs
    <2> QED
      BY <1>2, <1>3, <2>1
  <1>4. CASE v # Nothing
    <2>1. v \in Values
      BY <1>4 DEF Item
    <2>2. d \o Thing(v) = Append(d, v)
      <3>1. Thing(v) = <<v>>
        BY <2>1, ThingIs, Zenon
      <3> QED
        BY <2>1, <3>1
    <2>3. Flat(Pieces(op), Append(d, v)) = Flat(Pieces(op), d) \o Pieces(op)[v]
      <3>1. Grows(Pieces(op), Values)
        BY <1>1, FlatAppend, Zenon
      <3> QED
        BY <2>1, <3>1, Zenon DEF Grows
    <2> QED
      BY <1>2, <1>4, <2>2, <2>3
  <1> QED
    BY <1>3, <1>4

(* ... or, if it implodes, accumulates it.                                 *)
LEMMA TakingIn ==
  ASSUME NEW d \in Seq(Values), NEW v \in Item
  PROVE  /\ Imploded(d) \in Values
         /\ Imploded(d \o Thing(v)) =
              IF v = Nothing THEN Imploded(d) ELSE Step[<<Imploded(d), v>>]
  <1>1. Imploded(d) \in Values
    BY Implodes, Zenon
  <1>2. CASE v = Nothing
    BY <1>1, <1>2, ThingIs
  <1>3. CASE v # Nothing
    <2>1. v \in Values
      BY <1>3 DEF Item
    <2>2. d \o Thing(v) = Append(d, v)
      <3>1. Thing(v) = <<v>>
        BY <2>1, ThingIs, Zenon
      <3> QED
        BY <2>1, <3>1
    <2>3. Imploded(Append(d, v)) = Step[<<Imploded(d), v>>]
      BY <2>1, ImplodeAppend, Zenon
    <2> QED
      BY <1>1, <1>3, <2>2, <2>3
  <1> QED
    BY <1>2, <1>3

(* gens[i] becomes r, the others stay.                                     *)
Becomes(i, r) ==
  /\ gens' \in Seq(GeneratorRecord) /\ last' = last /\ gens'[i] = r
  /\ \A j \in 1..last : j # i => gens'[j] = gens[j]

(* That is what a step does to the generators.                             *)
LEMMA Replaced ==
  ASSUME Typed, NEW i \in 1..last, NEW r \in GeneratorRecord, gens' = [gens EXCEPT ![i] = r]
  PROVE  Becomes(i, r)
  <1> USE DEF Becomes, last
  <1>1. gens \in Seq(GeneratorRecord) /\ DOMAIN gens = 1..Len(gens)
    BY DEF Typed
  <1> HIDE DEF Becomes
  <1>2. gens' \in Seq(GeneratorRecord) /\ Len(gens') = Len(gens)
    BY <1>1
  <1>3. gens'[i] = r /\ \A j \in 1..Len(gens) : j # i => gens'[j] = gens[j]
    BY <1>1
  <1> QED
    BY <1>2, <1>3 DEF Becomes

(* Each generator is a record of its type.                                 *)
LEMMA RecordIs ==
  ASSUME Typed, NEW i \in 1..last
  PROVE  gens[i] \in GeneratorRecord
  BY DEF Typed, last

(* A step keeps what the generators were built for.                        *)
LEMMA BuiltStays ==
  ASSUME Typed, Built, NEW i \in 1..last, NEW r, Becomes(i, r),
         r.op = gens[i].op, r.class = gens[i].class, items' = items
  PROVE  /\ Built'
         /\ \A j \in 1..last : /\ Plain(j)' <=> Plain(j)
                               /\ gens'[j].op = gens[j].op /\ gens'[j].class = gens[j].class
  <1>1. last' = last /\ last \in Nat /\ last > 1
    BY DEF Becomes, Typed, last
  <1>2. \A j \in 1..last : gens'[j].op = gens[j].op /\ gens'[j].class = gens[j].class
    BY DEF Becomes
  <1>3. \A j \in 1..last : Plain(j)' <=> Plain(j)
    BY <1>2 DEF Plain
  <1>4. \A j \in 1..last : Fits(gens[j])' <=> Fits(gens[j])
    BY <1>2, Zenon DEF Fits
  <1>5. gens'[1].class = "L"
    BY <1>1, <1>2 DEF Built
  <1>6. ASSUME NEW j \in 2..last'
        PROVE  Fits(gens[j])' /\ (gens'[j].class \in {"0", "F", "X"} => Plain(j - 1)')
    <2>1. j \in 2..last /\ j \in 1..last /\ j - 1 \in 1..last
      BY <1>1, <1>6
    <2>2. Fits(gens[j]) /\ (gens[j].class \in {"0", "F", "X"} => Plain(j - 1))
      BY <2>1, Zenon DEF Built
    <2>3. \A k \in 1..last : k = j - 1 => (Plain(k)' <=> Plain(k))
      BY <1>3
    <2> QED
      BY <1>2, <1>3, <1>4, <2>1, <2>2
  <1> QED
    BY <1>2, <1>3, <1>5, <1>6, Zenon DEF Built

(* A generator that is not resumed, before nor after, holds the same, ...  *)
LEMMA Asleep ==
  ASSUME Typed, Control, NEW j \in 2..last, task # j
  PROVE  /\ gens[j].state \in Rest \cup Awaiting /\ gens[j].state # "A1"
         /\ \A b \in BOOLEAN : \A d, w : Made(gens[j], b, d, w) <=> Made(gens[j], inner, d, w)
  <1>1. gens[j].state \in Rest \cup Awaiting /\ gens[j].state # "A1"
    BY DEF Control, Placed, Typed, Rest, Awaiting, last
  <1>2. \A b \in BOOLEAN : Held(gens[j], b) = Held(gens[j], inner)
    BY <1>1 DEF Held
  <1> QED
    BY <1>1, <1>2, Zenon DEF Made

(* ... and so do those that neither it nor its precursor changes.          *)
LEMMA PassedStays ==
  ASSUME Typed, Control, NEW j \in 2..last, task # j, task' # j, inner' \in BOOLEAN,
         NEW W, NEW D, Passed(j, W, D),
         NEW W2, NEW D2, W2[j] = W[j], D2[j] = D[j], W2[j-1] = W[j-1],
         gens'[j] = gens[j], gens'[j-1] = gens[j-1], Plain(j - 1)' <=> Plain(j - 1)
  PROVE  Passed(j, W2, D2)'
  <1>1. Pending(j)' <=> Pending(j)
    BY DEF Pending
  <1>2. Offered(j)' = Offered(j)
    BY <1>1 DEF Offered
  <1>3. Made(gens[j], inner', D[j], W[j])
    BY Asleep DEF Passed
  <1>4. Made(gens'[j], inner', D2[j], W2[j])
    BY <1>3
  <1> QED
    BY <1>1, <1>2, <1>4 DEF Passed

(* gens[i], which is not the source, has taken all it was offered and      *)
(* yields v; x says what it has made.                                      *)
LEMMA YieldStep ==
  ASSUME Typed, Built, Control, Sourced, Answered, NEW W, NEW D, Streamed(W, D),
         NEW i \in 2..last, task = i, ~inner,
         NEW g \in GeneratorRecord, NEW v \in Item, Yield(i, g, v),
         g.op = gens[i].op, g.class = gens[i].class, g.left \in Seq(Values),
         g.state \in Rest,
         g.state = "Fi" => gens[i-1].completed, g.state = "I" => ~gens[i-1].completed,
         g.state \in {"A1r", "Ar"} => g.left # <<>>,
         Plain(i) => v \in Values,
         g.class \in MaybeClasses /\ v = Nothing => g.state = "Fi",
         Made(g, FALSE, W[i-1], W[i] \o Thing(v))
  PROVE  Kept
  <1> DEFINE r == [g EXCEPT !.val = v, !.completed = done(g)]
  <1>1. i \in 1..last /\ i - 1 \in 1..last /\ last \in Nat /\ last > 1 /\ i \in Nat /\ i > 1
    BY DEF Typed, last
  <1>2. g.class \notin {"L", "C"}
    BY <1>1, Zenon DEF Built, Fits
  <1>3. done(g) <=> g.state = "Fi"
    BY <1>2, Zenon DEF done
  <1>4. done(g) \in BOOLEAN
    BY <1>2, Zenon DEF done
  <1>5. /\ r \in GeneratorRecord /\ r.op = g.op /\ r.class = g.class /\ r.state = g.state
        /\ r.left = g.left /\ r.nval = g.nval /\ r.acc = g.acc /\ r.val = v
        /\ r.completed = done(g)
    BY <1>4 DEF GeneratorRecord
  <1>6. gens' = [gens EXCEPT ![i] = r] /\ UNCHANGED <<items, inner, asked>>
        /\ task' = (IF i = last THEN 0 ELSE i + 1)
        /\ out' = (IF i = last THEN Append(out, v) ELSE out)
    BY DEF Yield
  <1> HIDE DEF r
  <1>7. Becomes(i, r)
    BY <1>1, <1>5, <1>6, Replaced
  <1>8. /\ gens' \in Seq(GeneratorRecord) /\ last' = last /\ gens'[i] = r
        /\ \A j \in 1..last : j # i => gens'[j] = gens[j]
    BY <1>7 DEF Becomes
  <1>9. /\ Built'
        /\ \A j \in 1..last : /\ Plain(j)' <=> Plain(j)
                              /\ gens'[j].op = gens[j].op /\ gens'[j].class = gens[j].class
    BY <1>1, <1>5, <1>6, <1>7, BuiltStays, Zenon
  <1>10. Typed'
    BY <1>1, <1>6, <1>8 DEF Typed
  <1>11. Control'
    <2>1. ASSUME NEW j \in 2..last PROVE Placed(j)'
      <3>1. j \in 1..last /\ j - 1 \in 1..last /\ Placed(j)
        BY <1>1 DEF Control
      <3>2. CASE j = i
        <4>1. gens'[j-1] = gens[j-1]
          BY <1>8, <3>1, <3>2
        <4> QED
          BY <1>1, <1>3, <1>5, <1>6, <1>8, <3>2, <4>1 DEF Placed, Rest, Awaiting
      <3>3. CASE j # i
        <4>1. gens'[j] = gens[j] /\ gens'[j].state # "A1"
          BY <1>8, <3>1, <3>3, Asleep
        <4>2. gens[j].state = "Fi" => gens'[j-1].completed
          <5>1. CASE j - 1 = i
            BY <1>1, <3>1, <5>1 DEF Placed, Awaiting
          <5>2. CASE j - 1 # i
            BY <1>8, <3>1, <5>2 DEF Placed
          <5> QED
            BY <5>1, <5>2
        <4>3. /\ j < task' \/ task' = 0 => j < task
              /\ task' # 0 /\ j > task' => j > task
              /\ j = task' => j > task
          BY <1>1, <1>6, <3>1, <3>3
        <4>4. task # 0 /\ inner' = inner
          BY <1>1, <1>6
        <4> QED
          BY <3>1, <4>1, <4>2, <4>3, <4>4 DEF Placed, Rest, Awaiting
      <3> QED
        BY <3>2, <3>3
    <2>2. gens'[1] = gens[1] /\ task' # 1 /\ inner' = FALSE
      BY <1>1, <1>6, <1>8
    <2> QED
      BY <1>8, <2>1, <2>2 DEF Control
  <1>12. Sourced'
    <2>1. items' = items /\ gens'[1] = gens[1]
      BY <1>1, <1>6, <1>8
    <2> QED
      BY <2>1 DEF Sourced, Taken
  <1>13. Answered'
    <2>1. asked = Len(out) + 1 /\ out \in Seq(Item)
      BY <1>1 DEF Answered, Typed
    <2>2. gens'[last].class = gens[last].class
      BY <1>1, <1>9
    <2>3. CASE i = last
      <3>1. out' = Append(out, v) /\ task' = 0 /\ asked' = asked
        BY <1>6, <2>3
      <3>2. asked' = Len(out') + 0 /\ Len(out') = Len(out) + 1 /\ Len(out) \in Nat
            /\ out'[Len(out')] = v /\ \A k \in 1..Len(out) : out'[k] = out[k]
        BY <2>1, <3>1
      <3>3. ASSUME gens[last].class \in MaybeClasses, NEW k \in DOMAIN out', out'[k] = Nothing
            PROVE  k = Len(out') /\ gens'[last].completed
        <4>1. ~gens[last].completed
          BY <1>1, <2>3 DEF Control, Placed
        <4>2. k \in 1..Len(out) \/ k = Len(out')
          BY <2>1, <3>1
        <4>3. CASE k \in 1..Len(out)
          BY <2>1, <3>2, <3>3, <4>1, <4>3 DEF Answered
        <4>4. CASE k = Len(out')
          BY <1>3, <1>5, <1>8, <2>3, <3>2, <3>3, <4>4
        <4> QED
          BY <4>2, <4>3, <4>4
      <3> QED
        BY <1>8, <2>2, <3>1, <3>2, <3>3 DEF Answered
    <2>4. CASE i # last
      <3>1. gens'[last] = gens[last] /\ task' # 0 /\ task # 0 /\ out' = out /\ asked' = asked
        BY <1>1, <1>6, <1>8, <2>4
      <3> QED
        BY <1>8, <3>1 DEF Answered
    <2> QED
      BY <2>3, <2>4
  <1>14. PICK W2 : W2 = [W EXCEPT ![i] = W[i] \o Thing(v)]
    OBVIOUS
  <1>15. PICK D2 : D2 = [D EXCEPT ![i] = W[i-1]]
    OBVIOUS
  <1>16. Streamed(W2, D2)'
    <2>1. W \in [1..last -> Seq(Values)] /\ D \in [1..last -> Seq(Values)]
      BY DEF Streamed
    <2>2. /\ W2 \in [1..last -> Seq(Values)] /\ D2 \in [1..last -> Seq(Values)]
          /\ W2[i] = W[i] \o Thing(v) /\ D2[i] = W[i-1]
          /\ \A j \in 1..last : j # i => W2[j] = W[j] /\ D2[j] = D[j]
      <3>1. Thing(v) \in Seq(Values)
        BY ThingIs, Zenon
      <3>2. W[i] \o Thing(v) \in Seq(Values) /\ W[i-1] \in Seq(Values)
        BY <1>1, <2>1, <3>1
      <3> QED
        BY <1>1, <1>14, <1>15, <2>1, <3>2
    <2>3. W2[1] = Things(SubSeq(items, 1, Taken))'
      <3>1. W2[1] = Things(SubSeq(items, 1, Taken))
        BY <1>1, <2>2 DEF Streamed
      <3>2. items' = items /\ gens'[1] = gens[1]
        BY <1>1, <1>6, <1>8
      <3> QED
        BY <3>1, <3>2 DEF Taken
    <2>4. W2[last] = Things(out')
      <3>1. W[last] = Things(out) /\ out \in Seq(Item)
        BY DEF Streamed, Typed
      <3>2. Things(Append(out, v)) = Things(out) \o Thing(v)
        BY <3>1, ThingsAre, Zenon
      <3>3. CASE i = last
        BY <1>6, <2>2, <3>1, <3>2, <3>3
      <3>4. CASE i # last
        <4>1. W2[last] = W[last] /\ out' = out
          <5>1. last \in 1..last /\ last # i
            BY <1>1, <3>4
          <5> QED
            BY <1>6, <2>2, <3>4, <5>1
        <4> QED
          BY <3>1, <4>1
      <3> QED
        BY <3>3, <3>4
    <2>5. ASSUME NEW j \in 2..last PROVE Passed(j, W2, D2)'
      <3>1. j \in 1..last /\ j - 1 \in 1..last /\ Placed(j) /\ Passed(j, W, D)
        BY <1>1 DEF Control, Streamed
      <3>2. CASE j = i
        <4>1. gens'[j] = r /\ gens'[j-1] = gens[j-1] /\ W2[j-1] = W[j-1]
          BY <1>8, <2>2, <3>1, <3>2
        <4>2. ~Pending(j)'
          BY <1>1, <1>5, <1>6, <3>2, <4>1 DEF Pending, Awaiting
        <4>3. Offered(j)' = <<>>
          BY <4>2 DEF Offered
        <4>4. W2[j-1] = D2[j] \o Offered(j)'
          <5>1. W[j-1] \in Seq(Values)
            BY <2>1, <3>1
          <5> QED
            BY <2>2, <3>2, <4>1, <4>3, <5>1
        <4>5. Made(r, FALSE, W[i-1], W[i] \o Thing(v))
          BY <1>5 DEF Made, Held
        <4>6. Made(gens[j], inner, D2[j], W2[j])'
          <5>1. inner' = FALSE
            BY <1>6
          <5>2. Made(gens'[j], inner', D2[j], W2[j])
            BY <2>2, <3>2, <4>1, <4>5, <5>1
          <5> QED
            BY <5>2
        <4> QED
          BY <4>2, <4>4, <4>6 DEF Passed
      <3>3. CASE j = i + 1
        <4>1. gens'[j] = gens[j] /\ gens'[j-1] = r /\ W2[j] = W[j] /\ D2[j] = D[j]
              /\ W2[j-1] = W[i] \o Thing(v) /\ j - 1 = i
          BY <1>8, <2>2, <3>1, <3>3
        <4>2. gens[j].state \in Awaiting /\ task' = j /\ task # j
          BY <1>1, <1>6, <3>1, <3>3 DEF Placed
        <4>3. ~Pending(j) /\ Pending(j)'
          BY <4>1, <4>2 DEF Pending, Awaiting
        <4>4. Offered(j)' = Thing(v) /\ Offered(j) = <<>>
          BY <1>5, <4>1, <4>3 DEF Offered
        <4>5. W2[j-1] = D2[j] \o Offered(j)'
          <5>1. W[i] = D[j] \o <<>> /\ D[j] \in Seq(Values)
            BY <2>1, <3>1, <4>1, <4>4 DEF Passed
          <5> QED
            BY <4>1, <4>4, <5>1
        <4>6. Made(gens[j], inner, D2[j], W2[j])'
          <5>1. inner' = inner
            BY <1>6
          <5> QED
            BY <3>1, <4>1, <5>1 DEF Passed
        <4>7. Plain(j - 1)' => gens'[j-1].val \in Values
          BY <1>1, <1>5, <1>9, <4>1
        <4> QED
          BY <4>5, <4>6, <4>7 DEF Passed
      <3>4. CASE j # i /\ j # i + 1
        <4>1. /\ gens'[j] = gens[j] /\ gens'[j-1] = gens[j-1]
              /\ W2[j] = W[j] /\ D2[j] = D[j] /\ W2[j-1] = W[j-1]
          <5>1. j - 1 # i
            BY <1>1, <3>1, <3>4
          <5> QED
            BY <1>8, <2>2, <3>1, <3>4, <5>1
        <4>2. task # j /\ task' # j /\ inner' \in BOOLEAN
          BY <1>1, <1>6, <3>4 DEF Typed
        <4>3. Plain(j - 1)' <=> Plain(j - 1)
          BY <1>9, <3>1
        <4> QED
          BY <3>1, <4>1, <4>2, <4>3, PassedStays
      <3> QED
        BY <3>2, <3>3, <3>4
    <2> QED
      BY <1>8, <2>2, <2>3, <2>4, <2>5 DEF Streamed
  <1>17. gens'[1] = gens[1]
    BY <1>1, <1>8
  <1>18. IInv'
    BY <1>9, <1>10, <1>11, <1>12, <1>13, <1>16 DEF IInv
  <1> QED
    BY <1>6, <1>8, <1>9, <1>17, <1>18 DEF Kept

(* gens[i], which is not the source, becomes g and goes on, awaits its     *)
(* precursor, or awaits *nxt; it has taken d.                              *)
LEMMA WorkStep ==
  ASSUME Typed, Built, Control, Sourced, Answered, NEW W, NEW D, Streamed(W, D),
         NEW i \in 2..last, task = i,
         NEW g \in GeneratorRecord, NEW d \in Seq(Values), gens' = [gens EXCEPT ![i] = g],
         UNCHANGED <<items, asked, out>>,
         g.op = gens[i].op, g.class = gens[i].class, g.left \in Seq(Values),
         g.completed = gens[i].completed, g.state \in Awaiting \cup {"A1"},
         task' = i \/ (task' = i - 1 /\ ~gens[i-1].completed),
         g.state = "A1" => task' = i /\ (inner' \/ g.nval \in Values),
         inner' \in BOOLEAN, inner' => g.state = "A1" /\ g.left # <<>>,
         Made(g, inner', d, W[i]),
         IF task' = i /\ g.state \in Awaiting
         THEN W[i-1] = d \o Thing(gens[i-1].val) /\ (Plain(i - 1) => gens[i-1].val \in Values)
         ELSE W[i-1] = d
  PROVE  Kept
  <1>1. i \in 1..last /\ i - 1 \in 1..last /\ last \in Nat /\ last > 1 /\ i \in Nat /\ i > 1
        /\ last \in 1..last /\ task = i
    BY DEF Typed, last
  <1>7. Becomes(i, g)
    BY <1>1, Replaced
  <1>8. /\ gens' \in Seq(GeneratorRecord) /\ last' = last /\ gens'[i] = g
        /\ \A j \in 1..last : j # i => gens'[j] = gens[j]
    BY <1>7 DEF Becomes
  <1>9. /\ Built'
        /\ \A j \in 1..last : /\ Plain(j)' <=> Plain(j)
                              /\ gens'[j].op = gens[j].op /\ gens'[j].class = gens[j].class
    BY <1>1, <1>7, BuiltStays, Zenon
  <1>10. Typed'
    BY <1>1, <1>8 DEF Typed
  <1>2. ~gens[i].completed /\ ~g.completed /\ g.state # "Fi" /\ g.state # "I"
    BY <1>1 DEF Control, Placed, Awaiting
  <1>3. \A j \in 1..last : gens'[j].completed <=> gens[j].completed
    BY <1>2, <1>8
  <1>4. gens'[1] = gens[1] /\ task' # 0 /\ task # 0
    BY <1>1, <1>8
  <1>11. Control'
    <2>1. ASSUME NEW j \in 2..last PROVE Placed(j)'
      <3>1. j \in 1..last /\ j - 1 \in 1..last /\ Placed(j)
        BY <1>1 DEF Control
      <3>2. CASE j = i
        BY <1>1, <1>2, <1>8, <3>2 DEF Placed, Rest, Awaiting
      <3>3. CASE j # i
        <4>1. gens'[j] = gens[j] /\ gens'[j].state # "A1"
          BY <1>1, <1>8, <3>1, <3>3, Asleep
        <4>2. gens[j].state = "Fi" => gens'[j-1].completed
          BY <1>3, <3>1 DEF Placed
        <4>3. /\ j < task' => j < task
              /\ j > task' => j > task
          BY <1>1, <3>1, <3>3
        <4>4. CASE j = task'
          <5>1. ~gens[j].completed
            BY <1>1, <3>3, <4>4
          <5> QED
            BY <1>1, <1>4, <3>1, <4>1, <4>2, <4>3, <4>4, <5>1 DEF Placed, Rest, Awaiting
        <4>5. CASE j # task'
          BY <1>1, <1>4, <3>1, <4>1, <4>2, <4>3, <4>5 DEF Placed, Rest, Awaiting
        <4> QED
          BY <4>4, <4>5
      <3> QED
        BY <3>2, <3>3
    <2>2. task' = 1 => gens'[1].left # <<>>
      <3>1. task' = 1 => ~gens[1].completed
        BY <1>1
      <3> QED
        BY <1>4, <3>1 DEF Control
    <2>3. inner' => task' > 1 /\ gens'[task'].state = "A1" /\ gens'[task'].left # <<>>
      BY <1>1, <1>8 DEF Awaiting
    <2>4. gens'[1].completed <=> gens'[1].left = <<>>
      BY <1>4 DEF Control
    <2> QED
      BY <1>8, <2>1, <2>2, <2>3, <2>4 DEF Control
  <1>12. Sourced'
    BY <1>4 DEF Sourced, Taken
  <1>13. Answered'
    <2>1. asked' = Len(out') + 1
      BY <1>4 DEF Answered
    <2>2. /\ gens'[last].class = gens[last].class
          /\ gens'[last].completed <=> gens[last].completed
      BY <1>1, <1>3, <1>9
    <2> QED
      BY <1>4, <1>8, <2>1, <2>2 DEF Answered
  <1>15. PICK D2 : D2 = [D EXCEPT ![i] = d]
    OBVIOUS
  <1>16. Streamed(W, D2)'
    <2>1. W \in [1..last -> Seq(Values)] /\ D \in [1..last -> Seq(Values)]
      BY DEF Streamed
    <2>2. /\ D2 \in [1..last -> Seq(Values)] /\ D2[i] = d
          /\ \A j \in 1..last : j # i => D2[j] = D[j]
      BY <1>1, <1>15, <2>1
    <2>3. (W[1] = Things(SubSeq(items, 1, Taken)))' /\ W[last] = Things(out')
      BY <1>4 DEF Streamed, Taken
    <2>5. ASSUME NEW j \in 2..last PROVE Passed(j, W, D2)'
      <3>1. j \in 1..last /\ j - 1 \in 1..last /\ Placed(j) /\ Passed(j, W, D)
            /\ W[j-1] \in Seq(Values) /\ D[j] \in Seq(Values)
        <4>1. j \in 1..last /\ j - 1 \in 1..last
          BY <1>1
        <4>2. Placed(j) /\ Passed(j, W, D)
          BY DEF Control, Streamed
        <4>3. W[j-1] \in Seq(Values) /\ D[j] \in Seq(Values)
          BY <2>1, <4>1
        <4> QED
          BY <4>1, <4>2, <4>3
      <3>2. CASE j = i
        <4>1. gens'[j] = g /\ gens'[j-1] = gens[j-1]
          BY <1>1, <1>8, <3>1, <3>2
        <4>2. Pending(j)' <=> (task' = i /\ g.state \in Awaiting)
          BY <1>2, <3>2, <4>1 DEF Pending
        <4>3. Made(gens[j], inner, D2[j], W[j])'
          <5>1. Made(gens'[j], inner', D2[j], W[j])
            BY <2>2, <3>2, <4>1
          <5> QED
            BY <5>1
        <4>4. Plain(j - 1)' <=> Plain(j - 1)
          BY <1>9, <3>1
        <4>5. CASE task' = i /\ g.state \in Awaiting
          <5>1. Offered(j)' = Thing(gens[j-1].val)
            BY <4>1, <4>2, <4>5 DEF Offered
          <5>2. W[j-1] = D2[j] \o Thing(gens[j-1].val)
                /\ (Plain(j - 1) => gens[j-1].val \in Values)
            BY <2>2, <3>2, <4>5
          <5> QED
            BY <4>1, <4>3, <4>4, <5>1, <5>2 DEF Passed
        <4>6. CASE ~(task' = i /\ g.state \in Awaiting)
          <5>1. Offered(j)' = <<>> /\ ~Pending(j)'
            BY <4>2, <4>6 DEF Offered
          <5>2. W[j-1] = D2[j] \o <<>>
            BY <2>2, <3>1, <3>2, <4>6
          <5> QED
            BY <4>3, <5>1, <5>2 DEF Passed
        <4> QED
          BY <4>5, <4>6
      <3>3. CASE j = i + 1
        <4>1. gens'[j] = gens[j] /\ gens[j].state \in Awaiting /\ gens[j].state # "I"
              /\ task # j /\ task' # j /\ j - 1 = i
          <5>1. gens'[j] = gens[j] /\ task # j /\ task' # j /\ j - 1 = i /\ j > task /\ task # 0
            <6>1. j # i /\ task # j /\ task' # j /\ j - 1 = i /\ j > task /\ task # 0
              BY <1>1, <3>3
            <6> QED
              BY <1>8, <3>1, <6>1
          <5> QED
            BY <3>1, <5>1 DEF Placed, Awaiting
        <4>2. ~Pending(j) /\ ~Pending(j)'
          BY <4>1 DEF Pending
        <4>3. Offered(j) = <<>> /\ Offered(j)' = <<>>
          BY <4>2 DEF Offered
        <4>4. D2[j] = D[j]
          BY <2>2, <3>1, <3>3
        <4>5. Made(gens[j], inner', D[j], W[j])
          BY <3>1, <4>1, Asleep DEF Passed
        <4>6. Made(gens[j], inner, D2[j], W[j])'
          <5>1. Made(gens'[j], inner', D2[j], W[j])
            BY <4>1, <4>4, <4>5
          <5> QED
            BY <5>1
        <4> QED
          BY <3>1, <4>2, <4>3, <4>4, <4>6 DEF Passed
      <3>4. CASE j # i /\ j # i + 1
        <4>1. gens'[j] = gens[j] /\ gens'[j-1] = gens[j-1] /\ D2[j] = D[j]
          <5>1. j - 1 # i
            BY <1>1, <3>1, <3>4
          <5> QED
            BY <1>8, <2>2, <3>1, <3>4, <5>1
        <4>2. Plain(j - 1)' <=> Plain(j - 1)
          BY <1>9, <3>1
        <4>3. Passed(j, W, D)
          BY <3>1
        <4>4. CASE task' # j
          BY <1>1, <3>4, <4>1, <4>2, <4>3, <4>4, PassedStays
        <4>5. CASE task' = j
          <5>1. ~gens[i-1].completed /\ j = i - 1 /\ gens[j].state \in Rest /\ gens[j].state # "A1"
            BY <1>1, <3>1, <3>4, <4>5 DEF Placed, Rest
          <5>2. Pending(j)' <=> Pending(j)
            BY <1>1, <3>4, <4>1, <5>1 DEF Pending, Rest, Awaiting
          <5>3. Offered(j)' = Offered(j)
            BY <4>1, <5>2 DEF Offered
          <5>4. Made(gens[j], inner', D[j], W[j])
            BY <1>1, <3>4, <4>3, Asleep DEF Passed
          <5>5. Made(gens[j], inner, D2[j], W[j])'
            <6>1. Made(gens'[j], inner', D2[j], W[j])
              BY <4>1, <5>4
            <6> QED
              BY <6>1
          <5> QED
            BY <4>1, <4>2, <4>3, <5>2, <5>3, <5>5 DEF Passed
        <4> QED
          BY <4>4, <4>5
      <3> QED
        BY <3>2, <3>3, <3>4
    <2> QED
      BY <1>8, <2>1, <2>2, <2>3, <2>5 DEF Streamed
  <1>17. IInv'
    BY <1>9, <1>10, <1>11, <1>12, <1>13, <1>16 DEF IInv
  <1> QED
    BY <1>4, <1>8, <1>9, <1>17 DEF Kept

(* A sequence, cut in two.                                                 *)
LEMMA Cut ==
  ASSUME NEW S, NEW s \in Seq(S), NEW k \in 0..Len(s)
  PROVE  /\ SubSeq(s, 1, k) \in Seq(S) /\ SubSeq(s, k + 1, Len(s)) \in Seq(S)
         /\ SubSeq(s, 1, k) \o SubSeq(s, k + 1, Len(s)) = s
         /\ Len(SubSeq(s, k + 1, Len(s))) = Len(s) - k
         /\ k < Len(s) => /\ SubSeq(s, 1, k + 1) = Append(SubSeq(s, 1, k), s[k + 1])
                          /\ s[k + 1] \in S
                          /\ Head(SubSeq(s, k + 1, Len(s))) = s[k + 1]
                          /\ Tail(SubSeq(s, k + 1, Len(s))) = SubSeq(s, (k + 1) + 1, Len(s))
  <1>1. SubSeq(s, 1, k) \in Seq(S) /\ SubSeq(s, k + 1, Len(s)) \in Seq(S)
    OBVIOUS
  <1>2. SubSeq(s, 1, k) \o SubSeq(s, k + 1, Len(s)) = s
    <2> DEFINE a == SubSeq(s, 1, k)
    <2> DEFINE b == SubSeq(s, k + 1, Len(s))
    <2>1. a \in Seq(S) /\ b \in Seq(S) /\ Len(a) = k /\ Len(b) = Len(s) - k
          /\ \A i \in 1..k : a[i] = s[i]
      OBVIOUS
    <2>2. ASSUME NEW i \in 1..(Len(s) - k) PROVE b[i] = s[k + i]
      OBVIOUS
    <2> HIDE DEF a, b
    <2>3. Len(s) \in Nat /\ k \in Nat /\ k <= Len(s)
      OBVIOUS
    <2>4. a \o b \in Seq(S) /\ Len(a \o b) = Len(s)
      BY <2>1, <2>3
    <2>5. ASSUME NEW j \in 1..Len(s) PROVE (a \o b)[j] = s[j]
      <3>1. CASE j <= k
        BY <2>1, <2>3, <3>1
      <3>2. CASE j > k
        <4>1. (a \o b)[j] = b[j - k] /\ j - k \in 1..(Len(s) - k) /\ k + (j - k) = j
          BY <2>1, <2>3, <3>2
        <4> QED
          BY <2>2, <4>1
      <3>3. j <= k \/ j > k
        BY <2>3
      <3> QED
        BY <3>1, <3>2, <3>3, Zenon
    <2>6. a \o b = s
      BY <2>4, <2>5, SeqEqual
    <2> QED
      BY <2>6 DEF a, b
  <1>3. Len(SubSeq(s, k + 1, Len(s))) = Len(s) - k
    OBVIOUS
  <1>4. ASSUME k < Len(s)
        PROVE  /\ SubSeq(s, 1, k + 1) = Append(SubSeq(s, 1, k), s[k + 1])
               /\ s[k + 1] \in S
               /\ Head(SubSeq(s, k + 1, Len(s))) = s[k + 1]
               /\ Tail(SubSeq(s, k + 1, Len(s))) = SubSeq(s, (k + 1) + 1, Len(s))
    <2>1. SubSeq(s, 1, k + 1) = Append(SubSeq(s, 1, k), s[k + 1])
      BY <1>4
    <2>2. s[k + 1] \in S /\ Head(SubSeq(s, k + 1, Len(s))) = s[k + 1]
      BY <1>4
    <2>3. Tail(SubSeq(s, k + 1, Len(s))) = SubSeq(s, (k + 1) + 1, Len(s))
      BY <1>4
    <2> QED
      BY <2>1, <2>2, <2>3
  <1> QED
    BY <1>1, <1>2, <1>3, <1>4

(* The source yields its next item.                                        *)
LEMMA SourceStep ==
  ASSUME Typed, Built, Control, Sourced, Answered, NEW W, NEW D, Streamed(W, D),
         NEW i \in 1..last, ResumeL(i)
  PROVE  Drawn
  <1>1. last \in Nat /\ last > 1 /\ last \in 1..last /\ 1 \in 1..last /\ last # 1
    <2>1. last \in Nat /\ last > 1
      BY DEF Typed, last
    <2> QED
      BY <2>1
  <1> DEFINE v == Head(gens[1].left)
  <1> DEFINE g == [gens[1] EXCEPT !.left = Tail(@)]
  <1> DEFINE r == [g EXCEPT !.val = v, !.completed = done(g)]
  <1>2. i = 1 /\ task = 1 /\ inner = FALSE /\ gens[1].class = "L"
    <2>1. i # 1 => i \in 2..last
      BY <1>1
    <2>2. i # 1 => gens[i].class # "L"
      BY <2>1, Zenon DEF Built, Fits
    <2> QED
      BY <2>2 DEF ResumeL, At, Typed
  <1>3. gens[1] \in GeneratorRecord /\ gens[1].left \in Seq(Item) /\ gens[1].left # <<>>
    BY <1>1, <1>2, RecordIs DEF Control, GeneratorRecord
  <1>4. v \in Item /\ Tail(gens[1].left) \in Seq(Item)
        /\ Len(Tail(gens[1].left)) = Len(gens[1].left) - 1 /\ Len(gens[1].left) > 0
        /\ Len(gens[1].left) \in Nat
    BY <1>3
  <1>5. Yield(1, g, v)
    BY <1>2 DEF ResumeL
  <1>6. g.class = "L" /\ g.left = Tail(gens[1].left) /\ g \in GeneratorRecord
    BY <1>2, <1>3, <1>4 DEF GeneratorRecord
  <1>7. done(g) = (Tail(gens[1].left) = <<>>)
    BY <1>6, Zenon DEF done
  <1>8. /\ gens' = [gens EXCEPT ![1] = r] /\ UNCHANGED <<items, inner, asked>>
        /\ task' = 2 /\ out' = out
    BY <1>1, <1>5 DEF Yield
  <1>9. /\ r \in GeneratorRecord /\ r.op = gens[1].op /\ r.class = gens[1].class
        /\ r.left = Tail(gens[1].left) /\ r.val = v
        /\ r.completed <=> Tail(gens[1].left) = <<>>
    <2>1. done(g) \in BOOLEAN
      BY <1>7
    <2>2. g.op = gens[1].op /\ g.class = gens[1].class
      BY <1>3 DEF GeneratorRecord
    <2> HIDE DEF g, v
    <2>3. /\ r \in GeneratorRecord /\ r.op = g.op /\ r.class = g.class
          /\ r.left = g.left /\ r.val = v /\ r.completed = done(g)
      BY <1>4, <1>6, <2>1 DEF GeneratorRecord
    <2> QED
      BY <1>6, <1>7, <2>2, <2>3
  <1> HIDE DEF v, g, r
  <1>10. Becomes(1, r)
    BY <1>1, <1>8, <1>9, Replaced
  <1>11. /\ gens' \in Seq(GeneratorRecord) /\ last' = last /\ gens'[1] = r
         /\ \A j \in 1..last : j # 1 => gens'[j] = gens[j]
    BY <1>10 DEF Becomes
  <1>12. /\ Built'
         /\ \A j \in 1..last : /\ Plain(j)' <=> Plain(j)
                               /\ gens'[j].op = gens[j].op /\ gens'[j].class = gens[j].class
    BY <1>1, <1>8, <1>9, <1>10, BuiltStays, Zenon
  <1>13. Typed'
    BY <1>1, <1>8, <1>11 DEF Typed
  <1>14. Control'
    <2>1. ASSUME NEW j \in 2..last PROVE Placed(j)'
      <3>1. j \in 1..last /\ j # 1 /\ Placed(j) /\ j > task
        BY <1>1, <1>2 DEF Control
      <3>2. gens'[j] = gens[j] /\ gens[j].state \in Awaiting
        BY <1>2, <1>11, <3>1 DEF Placed
      <3> QED
        BY <1>1, <1>8, <3>1, <3>2 DEF Placed, Awaiting
    <2>2. gens'[1].completed <=> gens'[1].left = <<>>
      BY <1>9, <1>11
    <2>3. task' = 2 /\ inner' = FALSE
      BY <1>2, <1>8
    <2> QED
      BY <1>11, <2>1, <2>2, <2>3 DEF Control
  <1>15. Taken \in 0..Len(items) /\ Taken < Len(items) /\ Taken' = Taken + 1 /\ items \in Seq(Item)
    <2>1. Len(items) \in Nat /\ items \in Seq(Item) /\ Len(gens[1].left) <= Len(items)
      <3>1. items \in Seq(Item)
        BY Zenon DEF Typed
      <3>2. Len(gens[1].left) <= Len(items)
        BY Zenon DEF Sourced
      <3> QED
        BY <3>1, <3>2
    <2>2. items' = items /\ gens'[1].left = Tail(gens[1].left)
      BY <1>8, <1>9, <1>11
    <2>3. /\ Taken = Len(items) - Len(gens[1].left)
          /\ Taken' = Len(items) - Len(Tail(gens[1].left))
      BY <2>2 DEF Taken
    <2>4. \A n, m \in Nat : m <= n /\ m > 0 =>
            /\ n - m \in 0..n /\ n - m < n
            /\ n - (m - 1) = (n - m) + 1
      OBVIOUS
    <2>5. /\ Len(items) - Len(gens[1].left) \in 0..Len(items)
          /\ Len(items) - Len(gens[1].left) < Len(items)
          /\ Len(items) - (Len(gens[1].left) - 1) = (Len(items) - Len(gens[1].left)) + 1
      BY <1>4, <2>1, <2>4, Zenon
    <2>6. Taken' = Len(items) - (Len(gens[1].left) - 1)
      BY <1>4, <2>3
    <2> QED
      BY <2>1, <2>3, <2>5, <2>6, Zenon
  <1>16. /\ v = items[Taken + 1] /\ SubSeq(items, 1, Taken) \in Seq(Item)
         /\ SubSeq(items, 1, Taken + 1) = Append(SubSeq(items, 1, Taken), v)
         /\ Tail(gens[1].left) = SubSeq(items, (Taken + 1) + 1, Len(items))
    <2>1. gens[1].left = SubSeq(items, Taken + 1, Len(items))
      BY DEF Sourced
    <2> HIDE DEF Taken
    <2> QED
      BY <1>15, <2>1, Cut DEF v
  <1>17. Sourced'
    <2>1. Len(gens'[1].left) <= Len(items)
      <3>1. Len(items) \in Nat /\ Len(gens[1].left) <= Len(items)
        <4>1. items \in Seq(Item)
          BY Zenon DEF Typed
        <4>2. Len(gens[1].left) <= Len(items)
          BY Zenon DEF Sourced
        <4> QED
          BY <4>1, <4>2
      <3>2. gens'[1].left = Tail(gens[1].left)
        BY <1>9, <1>11
      <3> QED
        BY <1>4, <3>1, <3>2
    <2> QED
      BY <1>8, <1>9, <1>11, <1>15, <1>16, <2>1 DEF Sourced
  <1>18. Answered'
    <2>1. gens'[last] = gens[last] /\ task' # 0 /\ task # 0
      BY <1>1, <1>2, <1>8, <1>11
    <2> QED
      BY <1>8, <1>11, <2>1 DEF Answered
  <1>19. PICK W2 : W2 = [W EXCEPT ![1] = W[1] \o Thing(v)]
    OBVIOUS
  <1>20. Streamed(W2, D)'
    <2>1. W \in [1..last -> Seq(Values)] /\ D \in [1..last -> Seq(Values)]
      BY DEF Streamed
    <2>2. /\ W2 \in [1..last -> Seq(Values)] /\ W2[1] = W[1] \o Thing(v)
          /\ \A j \in 1..last : j # 1 => W2[j] = W[j]
      <3>1. Thing(v) \in Seq(Values)
        BY <1>4, ThingIs, Zenon
      <3>2. W[1] \o Thing(v) \in Seq(Values)
        BY <1>1, <2>1, <3>1
      <3> QED
        BY <1>1, <1>19, <2>1, <3>2
    <2>3. (W2[1] = Things(SubSeq(items, 1, Taken)))'
      <3>1. W[1] = Things(SubSeq(items, 1, Taken))
        BY DEF Streamed
      <3>2. Things(Append(SubSeq(items, 1, Taken), v)) = Things(SubSeq(items, 1,
      Taken)) \o Thing(v)
        BY <1>4, <1>16, ThingsAre, Zenon
      <3> HIDE DEF Taken
      <3> QED
        BY <1>8, <1>15, <1>16, <2>2, <3>1, <3>2
    <2>4. W2[last] = Things(out')
      BY <1>1, <1>8, <2>2 DEF Streamed
    <2>5. ASSUME NEW j \in 2..last PROVE Passed(j, W2, D)'
      <3>1. j \in 1..last /\ j - 1 \in 1..last /\ Placed(j) /\ Passed(j, W, D) /\ j # 1
        <4>1. j \in 1..last /\ j - 1 \in 1..last /\ j # 1
          BY <1>1
        <4> QED
          BY <4>1 DEF Control, Streamed
      <3>2. gens'[j] = gens[j] /\ W2[j] = W[j]
        BY <1>11, <2>2, <3>1
      <3>3. CASE j = 2
        <4>1. gens'[j-1] = r /\ W2[j-1] = W[1] \o Thing(v) /\ j - 1 = 1
          BY <1>11, <2>2, <3>3
        <4>2. gens[j].state \in Awaiting /\ task' = j /\ task # j
          BY <1>1, <1>2, <1>8, <3>1, <3>3 DEF Placed
        <4>3. ~Pending(j) /\ Pending(j)'
          BY <3>2, <4>2 DEF Pending, Awaiting
        <4>4. Offered(j)' = Thing(v) /\ Offered(j) = <<>>
          BY <1>9, <4>1, <4>3 DEF Offered
        <4>5. W2[j-1] = D[j] \o Offered(j)'
          <5>1. W[1] = D[j] \o <<>> /\ D[j] \in Seq(Values)
            BY <2>1, <3>1, <4>1, <4>4 DEF Passed
          <5> QED
            BY <4>1, <4>4, <5>1
        <4>6. Made(gens[j], inner, D[j], W2[j])'
          <5>1. inner' = inner
            BY <1>8
          <5> QED
            BY <3>1, <3>2, <5>1 DEF Passed
        <4>7. Plain(1) => v \in Values
          <5>1. Plain(1) => Nothing \notin {items[k] : k \in DOMAIN items}
            BY <1>2 DEF Plain
          <5>2. Taken + 1 \in DOMAIN items
            BY <1>15
          <5>3. v \in {items[k] : k \in DOMAIN items}
            BY <1>16, <5>2
          <5> QED
            BY <1>4, <5>1, <5>3 DEF Item
        <4>8. Plain(j - 1)' => gens'[j-1].val \in Values
          <5>1. Plain(1)' <=> Plain(1)
            BY <1>1, <1>12
          <5>2. gens'[j-1].val = v
            BY <1>9, <4>1
          <5>3. \A k \in 1..last : k = 1 => (Plain(k)' <=> Plain(1))
            BY <1>12
          <5> QED
            BY <3>1, <4>1, <4>7, <5>2, <5>3
        <4> QED
          BY <4>5, <4>6, <4>8 DEF Passed
      <3>4. CASE j # 2
        <4>1. gens'[j-1] = gens[j-1] /\ W2[j-1] = W[j-1]
          <5>1. j - 1 # 1
            BY <1>1, <3>4
          <5> QED
            BY <1>11, <2>2, <3>1, <5>1
        <4>2. task # j /\ task' # j /\ inner' \in BOOLEAN
          BY <1>2, <1>8, <3>1, <3>4 DEF Typed
        <4>3. Plain(j - 1)' <=> Plain(j - 1)
          BY <1>12, <3>1
        <4> QED
          BY <3>1, <3>2, <4>1, <4>2, <4>3, PassedStays
      <3> QED
        BY <3>3, <3>4
    <2> QED
      BY <1>11, <2>1, <2>2, <2>3, <2>4, <2>5 DEF Streamed
  <1>21. IInv'
    BY <1>12, <1>13, <1>14, <1>17, <1>18, <1>20 DEF IInv
  <1>22. Len(gens'[1].left) = Len(gens[1].left) - 1
    BY <1>4, <1>9, <1>11
  <1> QED
    BY <1>2, <1>8, <1>11, <1>12, <1>21, <1>22 DEF Drawn

(* The client asks for a value: no generator is resumed or done.           *)
LEMMA DemandStep ==
  ASSUME Typed, Built, Control, Sourced, Answered, NEW W, NEW D, Streamed(W, D), Demand
  PROVE  IInv'
  <1>1. last \in Nat /\ last > 1 /\ last \in 2..last /\ last \in 1..last /\ last' = last
    BY DEF Typed, last, Demand
  <1>2. /\ task = 0 /\ ~gens[last].completed /\ task' = last /\ asked' = asked + 1
        /\ UNCHANGED <<items, gens, inner, out>>
    BY DEF Demand
  <1>3. ~inner
    BY <1>2 DEF Control
  <1>4. Typed' /\ Built' /\ Sourced' /\ Answered'
    <2>1. Typed'
      BY <1>1, <1>2 DEF Typed
    <2>2. Built'
      BY <1>2 DEF Built, last, Plain
    <2>3. Sourced' /\ Answered'
      <3>1. asked' = Len(out') + 1
        BY <1>2 DEF Answered, Typed
      <3>2. Sourced'
        BY <1>2 DEF Sourced, Taken
      <3>3. task' # 0
        BY <1>1, <1>2
      <3> QED
        BY <1>1, <1>2, <3>1, <3>2, <3>3 DEF Answered
    <2> QED
      BY <2>1, <2>2, <2>3
  <1>5. Control'
    <2>1. ASSUME NEW j \in 2..last PROVE Placed(j)'
      BY <1>1, <1>2 DEF Control, Placed
    <2> QED
      BY <1>1, <1>2, <1>3, <2>1 DEF Control
  <1>6. Streamed(W, D)'
    <2>1. ASSUME NEW j \in 2..last PROVE Passed(j, W, D)'
      <3>1. Placed(j) /\ Passed(j, W, D)
        BY DEF Control, Streamed
      <3>2. gens[j].state \notin Awaiting
        BY <1>2, <3>1 DEF Placed, Rest, Awaiting
      <3>3. Pending(j)' <=> Pending(j)
        BY <1>2, <3>2 DEF Pending
      <3>4. Offered(j)' = Offered(j)
        BY <1>2, <3>3 DEF Offered
      <3>5. Plain(j - 1)' <=> Plain(j - 1)
        BY <1>2 DEF Plain
      <3> QED
        BY <1>2, <3>1, <3>3, <3>4, <3>5 DEF Passed
    <2> QED
      BY <1>1, <1>2, <2>1 DEF Streamed, Taken
  <1> QED
    BY <1>4, <1>5, <1>6 DEF IInv

(* A generator other than the source: its operation and class, and where   *)
(* it is.                                                                  *)
LEMMA BuiltIs ==
  ASSUME Typed, Built, Control, NEW i \in 2..last
  PROVE  /\ i \in 1..last /\ i - 1 \in 1..last
         /\ gens[i] \in GeneratorRecord /\ gens[i-1] \in GeneratorRecord
         /\ gens[i].class \in {"0", "MM"} => gens[i].op \in {"then", "thenMaybe"}
         /\ gens[i].class = "F" => gens[i].op = "thenFuture"
         /\ gens[i].class \in {"X", "XM"} => gens[i].op = "explode"
         /\ gens[i].class = "IM" <=> gens[i].op = "implode"
         /\ gens[i].class \in {"0", "F", "X"} => Plain(i - 1)
         /\ gens[i].op \in Operations /\ gens[i].class # "L" /\ gens[i].left \in Seq(Values)
  <1>1. i \in 1..last /\ i - 1 \in 1..last /\ last \in Nat /\ i # 1
    BY DEF Typed, last
  <1>2. gens[i] \in GeneratorRecord /\ gens[i-1] \in GeneratorRecord
    BY <1>1, RecordIs
  <1>3. Fits(gens[i]) /\ (gens[i].class \in {"0", "F", "X"} => Plain(i - 1))
    BY Zenon DEF Built
  <1>4. Placed(i)
    BY DEF Control
  <1>5. /\ gens[i].class \in {"0", "MM"} => gens[i].op \in {"then", "thenMaybe"}
        /\ gens[i].class = "F" => gens[i].op = "thenFuture"
        /\ gens[i].class \in {"X", "XM"} => gens[i].op = "explode"
        /\ gens[i].class = "IM" => gens[i].op = "implode"
        /\ gens[i].class # "L"
    BY <1>3, Zenon DEF Fits
  <1>6. gens[i].class \in {"0", "MM", "F", "X", "XM", "IM"}
    BY <1>2, <1>5 DEF GeneratorRecord
  <1> QED
    BY <1>1, <1>2, <1>3, <1>4, <1>5, <1>6 DEF Placed, Operations

(* A generator that awaits its precursor, when resumed, is offered what    *)
(* that has yielded: what it will have taken with it.                      *)
LEMMA OfferedIs ==
  ASSUME Typed, Built, Control, NEW W, NEW D, Streamed(W, D),
         NEW i \in 2..last, task = i, gens[i].state \in Awaiting
  PROVE  /\ W[i] \in Seq(Values) /\ W[i-1] \in Seq(Values) /\ D[i] \in Seq(Values)
         /\ Precursor(i) \in Item
         /\ Plain(i - 1) => Precursor(i) \in Values
         /\ gens[i].op # "implode" =>
              Flat(Pieces(gens[i].op), W[i-1]) =
                W[i] \o (IF Precursor(i) = Nothing THEN <<>> ELSE Pieces(gens[i].op)[Precursor(i)])
         /\ gens[i].op = "implode" =>
              /\ W[i] = <<>> /\ Imploded(W[i-1]) \in Values
              /\ Imploded(W[i-1]) = IF Precursor(i) = Nothing THEN gens[i].acc
                                    ELSE Step[<<gens[i].acc, Precursor(i)>>]
  <1> DEFINE u == Precursor(i)
  <1> DEFINE op == gens[i].op
  <1>1. /\ i \in 1..last /\ i - 1 \in 1..last /\ op \in Operations
        /\ gens[i-1] \in GeneratorRecord
    BY BuiltIs, Zenon
  <1>2. u \in Item
    BY <1>1 DEF Precursor, GeneratorRecord
  <1>3. W[i] \in Seq(Values) /\ W[i-1] \in Seq(Values) /\ D[i] \in Seq(Values)
    BY <1>1 DEF Streamed
  <1>4. Passed(i, W, D) /\ Pending(i)
    BY DEF Streamed, Pending
  <1>5. W[i-1] = D[i] \o Thing(u) /\ (Plain(i - 1) => u \in Values)
    BY <1>4 DEF Passed, Offered, Precursor
  <1>6. Made(gens[i], inner, D[i], W[i])
    BY <1>4 DEF Passed
  <1>7. gens[i].state \notin {"A1", "A1r", "Ar", "Fi"}
    BY DEF Awaiting
  <1>8. Held(gens[i], inner) = <<>>
    BY <1>7 DEF Held
  <1>9. op # "implode" => Flat(Pieces(op), D[i]) = W[i] \o <<>>
    BY <1>6, <1>8 DEF Made
  <1>10. op = "implode" => gens[i].acc = Imploded(D[i]) /\ W[i] = <<>>
    BY <1>6, <1>7 DEF Made
  <1> HIDE DEF u, op
  <1>11. ASSUME op # "implode"
         PROVE  Flat(Pieces(op), W[i-1]) = W[i] \o (IF u = Nothing THEN <<>> ELSE Pieces(op)[u])
    <2>1. op \in Operations \ {"implode"}
      BY <1>1, <1>11
    <2>2. Flat(Pieces(op), D[i] \o Thing(u)) =
            Flat(Pieces(op), D[i]) \o (IF u = Nothing THEN <<>> ELSE Pieces(op)[u])
      BY <1>2, <1>3, <2>1, Taking
    <2>3. Flat(Pieces(op), D[i]) = W[i]
      BY <1>3, <1>9, <1>11
    <2> QED
      BY <1>5, <2>2, <2>3
  <1>12. ASSUME op = "implode"
         PROVE  /\ Imploded(W[i-1]) \in Values
                /\ Imploded(W[i-1]) = IF u = Nothing THEN gens[i].acc ELSE Step[<<gens[i].acc, u>>]
    <2>1. Imploded(D[i] \o Thing(u)) =
            IF u = Nothing THEN Imploded(D[i]) ELSE Step[<<Imploded(D[i]), u>>]
      BY <1>2, <1>3, TakingIn
    <2>2. Imploded(W[i-1]) \in Values
      BY <1>2, <1>3, TakingIn
    <2> QED
      BY <1>5, <1>10, <1>12, <2>1, <2>2
  <1> QED
    BY <1>2, <1>3, <1>5, <1>10, <1>11, <1>12 DEF u, op

(* One that is resumed in the middle of an explosion or of a future has    *)
(* taken all there is.                                                     *)
LEMMA TakenAll ==
  ASSUME Typed, Built, Control, NEW W, NEW D, Streamed(W, D),
         NEW i \in 2..last, task = i, gens[i].state \in {"A1", "A1r", "Ar"}
  PROVE  /\ W[i] \in Seq(Values) /\ W[i-1] \in Seq(Values) /\ W[i-1] = D[i]
         /\ Made(gens[i], inner, W[i-1], W[i])
  <1>1. i \in 1..last /\ i - 1 \in 1..last
    BY BuiltIs, Zenon
  <1>3. W[i] \in Seq(Values) /\ W[i-1] \in Seq(Values) /\ D[i] \in Seq(Values)
    BY <1>1 DEF Streamed
  <1>4. Passed(i, W, D) /\ ~Pending(i)
    BY DEF Streamed, Pending, Awaiting
  <1>5. W[i-1] = D[i] \o <<>> /\ Made(gens[i], inner, D[i], W[i])
    BY <1>4 DEF Passed, Offered
  <1>6. W[i-1] = D[i]
    BY <1>3, <1>5
  <1> QED
    BY <1>3, <1>5, <1>6

(* A generator that starts to await its precursor.                         *)
LEMMA StartStep ==
  ASSUME Typed, Built, Control, Sourced, Answered, NEW W, NEW D, Streamed(W, D),
         NEW i \in 2..last, task = i, inner = FALSE, NEW to \in Awaiting, Start(i, to)
  PROVE  Kept
  <1> DEFINE g == [gens[i] EXCEPT !.state = to]
  <1>1. /\ i \in 1..last /\ i - 1 \in 1..last
        /\ gens[i] \in GeneratorRecord /\ gens[i].left \in Seq(Values)
    BY BuiltIs, Zenon
  <1>2. gens[i].state = "I" /\ Await(i, g)
    BY DEF Start
  <1>3. /\ g \in GeneratorRecord /\ g.op = gens[i].op /\ g.class = gens[i].class
        /\ g.left = gens[i].left /\ g.completed = gens[i].completed /\ g.state = to
        /\ g.acc = gens[i].acc
    BY <1>1 DEF GeneratorRecord, Awaiting
  <1> HIDE DEF g
  <1>4. /\ gens' = [gens EXCEPT ![i] = g] /\ UNCHANGED <<items, inner, asked, out>>
        /\ task' = IF gens[i-1].completed THEN i ELSE i - 1
    BY <1>2 DEF Await
  <1>5. Passed(i, W, D) /\ W[i] \in Seq(Values) /\ D[i] \in Seq(Values)
    BY <1>1 DEF Streamed
  <1>6. Made(g, FALSE, D[i], W[i])
    <2>1. Made(gens[i], FALSE, D[i], W[i])
      BY <1>5 DEF Passed
    <2>2. Held(g, FALSE) = <<>> /\ Held(gens[i], FALSE) = <<>>
      BY <1>2, <1>3 DEF Held, Awaiting
    <2>3. g.state # "Fi" /\ gens[i].state # "Fi"
      BY <1>2, <1>3 DEF Awaiting
    <2> QED
      BY <1>3, <2>1, <2>2, <2>3 DEF Made
  <1>7. CASE gens[i-1].completed
    <2>1. Pending(i)
      BY <1>2, <1>7 DEF Pending
    <2>2. W[i-1] = D[i] \o Thing(gens[i-1].val) /\ (Plain(i - 1) => gens[i-1].val \in Values)
      BY <1>5, <2>1 DEF Passed, Offered
    <2>3. task' = i /\ inner' = FALSE
      BY <1>4, <1>7
    <2> QED
      BY <1>3, <1>1, <1>4, <1>5, <1>6, <2>2, <2>3, WorkStep DEF Awaiting
  <1>8. CASE ~gens[i-1].completed
    <2>1. ~Pending(i)
      BY <1>2, <1>8 DEF Pending, Awaiting
    <2>2. W[i-1] = D[i]
      BY <1>5, <2>1 DEF Passed, Offered
    <2>3. task' = i - 1 /\ task' # i /\ inner' = FALSE
      BY <1>1, <1>4, <1>8
    <2> QED
      BY <1>3, <1>1, <1>4, <1>5, <1>6, <1>8, <2>2, <2>3, WorkStep DEF Awaiting
  <1> QED
    BY <1>7, <1>8

(* A generator that goes on to await its precursor's next value.           *)
LEMMA SkipStep ==
  ASSUME Typed, Built, Control, Sourced, Answered, NEW W, NEW D, Streamed(W, D),
         NEW i \in 2..last, task = i, inner = FALSE, gens[i].state \in Awaiting,
         ~gens[i-1].completed, NEW a \in Values, NEW g, g = [gens[i] EXCEPT !.acc = a],
         Await(i, g), Made(g, FALSE, W[i-1], W[i])
  PROVE  Kept
  <1>1. /\ i \in 1..last /\ i - 1 \in 1..last
        /\ gens[i] \in GeneratorRecord /\ gens[i].left \in Seq(Values)
    BY BuiltIs, Zenon
  <1>3. /\ g \in GeneratorRecord /\ g.op = gens[i].op /\ g.class = gens[i].class
        /\ g.left = gens[i].left /\ g.completed = gens[i].completed
        /\ g.state = gens[i].state
    BY <1>1 DEF GeneratorRecord
  <1>4. /\ gens' = [gens EXCEPT ![i] = g] /\ UNCHANGED <<items, inner, asked, out>>
        /\ task' = i - 1
    BY DEF Await
  <1>5. W[i-1] \in Seq(Values)
    BY <1>1 DEF Streamed
  <1>6. task' # i /\ inner' = FALSE /\ g.state # "A1" /\ g.state \in Awaiting
    BY <1>1, <1>3, <1>4 DEF Awaiting
  <1> QED
    BY <1>1, <1>3, <1>4, <1>5, <1>6, WorkStep

(* gens[i] yields v, is in state s after it, and still holds l: if v and l *)
(* are the rest of what is made of all it was offered, the invariant is    *)
(* kept.                                                                   *)
LEMMA PassOn ==
  ASSUME Typed, Built, Control, Sourced, Answered, NEW W, NEW D, Streamed(W, D),
         NEW i \in 2..last, task = i, inner = FALSE, gens[i].op # "implode",
         NEW s \in Rest, NEW l \in Seq(Values), NEW v \in Item,
         NEW g \in GeneratorRecord, Yield(i, g, v),
         g.op = gens[i].op, g.class = gens[i].class, g.state = s, g.left = l,
         s = "Fi" => PrecursorDone(i), s = "I" => ~PrecursorDone(i),
         s \in {"A1r", "Ar"} <=> l # <<>>,
         Plain(i) => v \in Values,
         g.class \in MaybeClasses /\ v = Nothing => s = "Fi",
         Flat(Pieces(g.op), W[i-1]) = (W[i] \o Thing(v)) \o l
  PROVE  Kept
  <1>1. Held(g, FALSE) = l
    BY DEF Held, Rest
  <1>2. Made(g, FALSE, W[i-1], W[i] \o Thing(v))
    BY <1>1 DEF Made
  <1> QED
    BY <1>2, YieldStep DEF PrecursorDone

(* The same if there is nothing left to hold.                              *)
LEMMA PassOnLast ==
  ASSUME Typed, Built, Control, Sourced, Answered, NEW W, NEW D, Streamed(W, D),
         NEW i \in 2..last, task = i, inner = FALSE, gens[i].op # "implode",
         NEW s, s = IF PrecursorDone(i) THEN "Fi" ELSE "I", NEW v \in Item,
         NEW g \in GeneratorRecord, Yield(i, g, v),
         g.op = gens[i].op, g.class = gens[i].class, g.state = s, g.left \in Seq(Values),
         Plain(i) => v \in Values,
         g.class \in MaybeClasses /\ v = Nothing => PrecursorDone(i),
         Flat(Pieces(g.op), W[i-1]) = W[i] \o Thing(v)
  PROVE  Kept
  <1>1. Held(g, FALSE) = <<>> /\ s \in Rest /\ s \notin {"A1r", "Ar"}
    BY DEF Held, Rest
  <1>2. i \in 1..last /\ W[i] \in Seq(Values) /\ Thing(v) \in Seq(Values)
    <2>1. i \in 1..last
      BY BuiltIs, Zenon
    <2> QED
      BY <2>1, ThingIs DEF Streamed
  <1>3. (W[i] \o Thing(v)) \o <<>> = W[i] \o Thing(v)
    BY <1>2
  <1>4. Made(g, FALSE, W[i-1], W[i] \o Thing(v))
    BY <1>1, <1>3 DEF Made
  <1> QED
    BY <1>1, <1>4, YieldStep DEF PrecursorDone

(* OpDirectGenerator0 (engine.hpp:46-78) yields one value for one.         *)
LEMMA Step0 ==
  ASSUME Typed, Built, Control, Sourced, Answered, NEW W, NEW D, Streamed(W, D),
         NEW i \in 2..last, Resume0(i)
  PROVE  Kept
  <1>1. task = i /\ inner = FALSE /\ gens[i].class = "0"
    BY DEF Resume0, At, Typed
  <1>2. /\ gens[i] \in GeneratorRecord /\ gens[i].op \in {"then", "thenMaybe"} /\ Plain(i - 1)
        /\ gens[i].left \in Seq(Values) /\ i \in Nat /\ i > 1
    BY <1>1, BuiltIs DEF Typed
  <1>3. CASE Start(i, "A")
    BY <1>1, <1>3, StartStep DEF Awaiting
  <1> DEFINE s == IF PrecursorDone(i) THEN "Fi" ELSE "I"
  <1> DEFINE g == To(i, s)
  <1> DEFINE v == Applied(i, Precursor(i))
  <1>4. CASE In(i, "A") /\ Yield(i, g, v)
    <2>1. gens[i].state \in Awaiting
      BY <1>4 DEF In, Awaiting
    <2>2. /\ g \in GeneratorRecord /\ g.op = gens[i].op /\ g.class = gens[i].class
          /\ g.state = s /\ g.left = gens[i].left
      BY <1>2 DEF GeneratorRecord, To, Rest
    <2>3. Precursor(i) \in Values
      BY <1>1, <1>2, <2>1, OfferedIs
    <2>4. Flat(Pieces(gens[i].op), W[i-1]) =
            W[i] \o (IF Precursor(i) = Nothing THEN <<>> ELSE Pieces(gens[i].op)[Precursor(i)])
      BY <1>1, <1>2, <2>1, OfferedIs
    <2>5. Pieces(gens[i].op)[Precursor(i)] = Thing(v) /\ Precursor(i) # Nothing
      <3>1. gens[i].op \in Operations \ {"implode"}
        BY <1>2 DEF Operations
      <3> QED
        BY <1>2, <2>3, <3>1, PiecesAre, FunctionsAssumption DEF Applied
    <2>6. v \in Item /\ (gens[i].op = "then" => v \in Values)
      BY <2>3, FunctionsAssumption DEF Applied, Item
    <2>7. Plain(i) => gens[i].op = "then"
      BY <1>1, <1>2 DEF Plain
    <2>8. g.class \notin MaybeClasses
      BY <1>1, <2>2 DEF MaybeClasses
    <2> HIDE DEF s, g, v
    <2> QED
      BY <1>1, <1>2, <1>4, <2>2, <2>4, <2>5, <2>6, <2>7, <2>8, PassOnLast DEF s
  <1> QED
    BY <1>3, <1>4 DEF Resume0

(* OpDirectGeneratorMM (engine.hpp:80-131) passes over what came to        *)
(* nothing, or ends with it.                                               *)
LEMMA StepMM ==
  ASSUME Typed, Built, Control, Sourced, Answered, NEW W, NEW D, Streamed(W, D),
         NEW i \in 2..last, ResumeMM(i)
  PROVE  Kept
  <1> DEFINE r == IF Precursor(i) = Nothing THEN Nothing ELSE Applied(i, Precursor(i))
  <1>1. task = i /\ inner = FALSE /\ gens[i].class = "MM"
    BY DEF ResumeMM, At, Typed
  <1>2. /\ gens[i] \in GeneratorRecord /\ gens[i].op \in {"then", "thenMaybe"}
        /\ gens[i].left \in Seq(Values) /\ i \in Nat /\ i > 1
    BY <1>1, BuiltIs DEF Typed
  <1>3. CASE Start(i, "A")
    BY <1>1, <1>3, StartStep DEF Awaiting
  <1>4. ASSUME In(i, "A")
        PROVE  /\ gens[i].state \in Awaiting /\ r \in Item
               /\ Flat(Pieces(gens[i].op), W[i-1]) = W[i] \o Thing(r)
    <2>1. gens[i].state \in Awaiting
      BY <1>4 DEF In, Awaiting
    <2>2. Precursor(i) \in Item
      BY <1>1, <2>1, OfferedIs
    <2>3. Flat(Pieces(gens[i].op), W[i-1]) =
            W[i] \o (IF Precursor(i) = Nothing THEN <<>> ELSE Pieces(gens[i].op)[Precursor(i)])
      BY <1>1, <1>2, <2>1, OfferedIs
    <2>4. r \in Item
      BY <2>2, FunctionsAssumption DEF Applied, Item
    <2>5. (IF Precursor(i) = Nothing THEN <<>> ELSE Pieces(gens[i].op)[Precursor(i)]) = Thing(r)
      <3>1. gens[i].op \in Operations \ {"implode"}
        BY <1>2 DEF Operations
      <3>2. CASE Precursor(i) = Nothing
        BY <3>2, ThingIs
      <3>3. CASE Precursor(i) # Nothing
        <4>1. Precursor(i) \in Values
          BY <2>2, <3>3 DEF Item
        <4> QED
          BY <1>2, <3>1, <3>3, <4>1, PiecesAre DEF Applied
      <3> QED
        BY <3>2, <3>3
    <2> QED
      BY <2>1, <2>3, <2>4, <2>5
  <1>5. ~Plain(i)
    BY <1>1, <1>2 DEF Plain
  <1>6. ASSUME In(i, "A"), NEW s, s = (IF PrecursorDone(i) THEN "Fi" ELSE "I"),
               Yield(i, To(i, s), r), r = Nothing => PrecursorDone(i)
        PROVE  Kept
    <2> DEFINE g == To(i, s)
    <2>1. /\ g \in GeneratorRecord /\ g.op = gens[i].op /\ g.class = gens[i].class
          /\ g.state = s /\ g.left = gens[i].left
      BY <1>2, <1>6 DEF GeneratorRecord, To, Rest
    <2> HIDE DEF g, r
    <2>2. Yield(i, g, r)
      BY <1>6 DEF g
    <2>3. gens[i].op # "implode"
      BY <1>2
    <2> QED
      BY <1>1, <1>2, <1>4, <1>5, <1>6, <2>1, <2>2, <2>3, PassOnLast
  <1>7. CASE In(i, "A") /\ PrecursorDone(i) /\ Yield(i, To(i, "Fi"), r)
    <2> HIDE DEF r
    <2> QED
      BY <1>6, <1>7
  <1>8. CASE In(i, "A") /\ ~PrecursorDone(i) /\ r # Nothing /\ Yield(i, To(i, "I"), r)
    <2> HIDE DEF r
    <2> QED
      BY <1>6, <1>8
  <1>9. CASE In(i, "A") /\ ~PrecursorDone(i) /\ r = Nothing /\ Await(i, gens[i])
    <2>1. gens[i] = [gens[i] EXCEPT !.acc = gens[i].acc] /\ gens[i].acc \in Values
      BY <1>2 DEF GeneratorRecord
    <2>2. gens[i].state \in Awaiting /\ Flat(Pieces(gens[i].op), W[i-1]) = W[i] \o <<>>
      BY <1>4, <1>9, ThingIs
    <2>3. Made(gens[i], FALSE, W[i-1], W[i])
      BY <1>2, <2>2 DEF Made, Held, Awaiting
    <2>4. ~gens[i-1].completed
      BY <1>9 DEF PrecursorDone
    <2> QED
      BY <1>1, <1>9, <2>1, <2>2, <2>3, <2>4, SkipStep
  <1> QED
    BY <1>3, <1>7, <1>8, <1>9 DEF ResumeMM

(* The futures that the user's function returns: not empty, and the rest   *)
(* of a completed one is empty.                                            *)
LEMMA InnerIs ==
  \A u \in Values : /\ Inner[u] \in Seq(Values) /\ Inner[u] # <<>>
                    /\ u \in Ready => Inner[u][1] \in Values /\ <<Inner[u][1]>> = Inner[u]
  <1> TAKE u \in Values
  <1>1. Inner[u] \in Seq(Values) /\ Inner[u] # <<>>
    BY FunctionsAssumption
  <1>2. ASSUME u \in Ready PROVE Len(Inner[u]) = 1
    BY <1>2, FunctionsAssumption
  <1>3. ASSUME NEW s \in Seq(Values), Len(s) = 1 PROVE s[1] \in Values /\ <<s[1]>> = s
    BY <1>3
  <1> QED
    BY <1>1, <1>2, <1>3

(* A generator that has f(u) in *nxt awaits it.                            *)
LEMMA AwaitInnerStep ==
  ASSUME Typed, Built, Control, Sourced, Answered, NEW W, NEW D, Streamed(W, D),
         NEW i \in 2..last, task = i, inner = FALSE, gens[i].state \in Awaiting,
         Precursor(i) \in Values, gens[i].op # "implode",
         Pieces(gens[i].op)[Precursor(i)] = Inner[Precursor(i)],
         AwaitInner(i, Precursor(i))
  PROVE  Kept
  <1> DEFINE u == Precursor(i)
  <1> DEFINE g == [To(i, "A1") EXCEPT
                     !.left = IF u \in Ready THEN <<>> ELSE Inner[u],
                     !.nval = IF u \in Ready THEN Inner[u][1] ELSE Nothing]
  <1>1. /\ i \in 1..last /\ i - 1 \in 1..last
        /\ gens[i] \in GeneratorRecord /\ gens[i].left \in Seq(Values)
    BY BuiltIs, Zenon
  <1>2. /\ Inner[u] \in Seq(Values) /\ Inner[u] # <<>>
        /\ u \in Ready => Inner[u][1] \in Values /\ <<Inner[u][1]>> = Inner[u]
    BY InnerIs
  <1>3. AwaitNxt(i, g)
    BY DEF AwaitInner
  <1>4. To(i, "A1") \in GeneratorRecord /\ To(i, "A1").op = gens[i].op
        /\ To(i, "A1").class = gens[i].class /\ To(i, "A1").completed = gens[i].completed
        /\ To(i, "A1").state = "A1"
    BY <1>1 DEF To, GeneratorRecord
  <1>5. /\ g \in GeneratorRecord /\ g.op = gens[i].op /\ g.class = gens[i].class
        /\ g.completed = gens[i].completed /\ g.state = "A1"
        /\ g.left = IF u \in Ready THEN <<>> ELSE Inner[u]
        /\ g.nval = IF u \in Ready THEN Inner[u][1] ELSE Nothing
    <2> DEFINE l == IF u \in Ready THEN <<>> ELSE Inner[u]
    <2> DEFINE n == IF u \in Ready THEN Inner[u][1] ELSE Nothing
    <2>1. l \in Seq(Item) /\ n \in Item
      BY <1>2 DEF Item
    <2> DEFINE h == To(i, "A1")
    <2>2. g = [h EXCEPT !.left = l, !.nval = n]
      OBVIOUS
    <2> HIDE DEF l, n, h, u, g
    <2>3. /\ g \in GeneratorRecord /\ g.op = h.op /\ g.class = h.class
          /\ g.completed = h.completed /\ g.state = h.state /\ g.left = l /\ g.nval = n
      BY <1>4, <2>1, <2>2 DEF GeneratorRecord, h
    <2> QED
      BY <1>4, <2>3 DEF l, n, h, u
  <1> HIDE DEF g
  <1>6. /\ gens' = [gens EXCEPT ![i] = g] /\ UNCHANGED <<items, task, asked, out>>
        /\ inner' = (g.left # <<>>)
    BY <1>3 DEF AwaitNxt
  <1>7. W[i] \in Seq(Values) /\ W[i-1] \in Seq(Values)
        /\ Flat(Pieces(gens[i].op), W[i-1]) = W[i] \o Inner[u]
    <2>1. u # Nothing
      BY FunctionsAssumption
    <2> QED
      BY <2>1, OfferedIs
  <1>8. Held(g, inner') = Inner[u] /\ (inner' \/ g.nval \in Values) /\ inner' \in BOOLEAN
    <2>1. CASE u \in Ready
      <3>1. g.left = <<>> /\ g.nval = Inner[u][1] /\ inner' = FALSE
        BY <1>5, <1>6, <2>1
      <3>2. Held(g, FALSE) = <<Inner[u][1]>> \o <<>>
        BY <1>5, <3>1 DEF Held
      <3>3. <<Inner[u][1]>> \o <<>> = Inner[u]
        BY <1>2, <2>1
      <3> QED
        BY <1>2, <2>1, <3>1, <3>2, <3>3
    <2>2. CASE u \notin Ready
      <3>1. g.left = Inner[u] /\ inner' = TRUE
        BY <1>2, <1>5, <1>6, <2>2
      <3>2. Held(g, TRUE) = Inner[u]
        BY <1>5, <3>1 DEF Held
      <3> QED
        BY <3>1, <3>2
    <2> QED
      BY <2>1, <2>2
  <1>9. Made(g, inner', W[i-1], W[i])
    BY <1>5, <1>7, <1>8 DEF Made
  <1>10. g.left \in Seq(Values) /\ g.state \notin Awaiting /\ task' = i
    BY <1>2, <1>5, <1>6 DEF Awaiting
  <1>11. inner' => g.state = "A1" /\ g.left # <<>>
    BY <1>5, <1>6
  <1> HIDE DEF u
  <1> QED
    BY <1>5, <1>6, <1>7, <1>8, <1>9, <1>10, <1>11, WorkStep

(* State A1r: it awaits *nxt again.                                        *)
LEMMA MoreStep ==
  ASSUME Typed, Built, Control, Sourced, Answered, NEW W, NEW D, Streamed(W, D),
         NEW i \in 2..last, task = i, inner = FALSE, gens[i].op # "implode", MoreOfNxt(i)
  PROVE  Kept
  <1> DEFINE g == To(i, "A1")
  <1>1. /\ i \in 1..last /\ i - 1 \in 1..last
        /\ gens[i] \in GeneratorRecord /\ gens[i].left \in Seq(Values)
    BY BuiltIs, Zenon
  <1>2. gens[i].state = "A1r" /\ AwaitNxt(i, g)
    BY DEF MoreOfNxt, In
  <1>3. gens[i].left # <<>>
    BY <1>2 DEF Control, Placed
  <1>4. /\ g \in GeneratorRecord /\ g.op = gens[i].op /\ g.class = gens[i].class
        /\ g.completed = gens[i].completed /\ g.state = "A1" /\ g.left = gens[i].left
    BY <1>1 DEF To, GeneratorRecord
  <1> HIDE DEF g
  <1>5. /\ gens' = [gens EXCEPT ![i] = g] /\ UNCHANGED <<items, task, asked, out>>
        /\ inner' = TRUE
    BY <1>2, <1>3, <1>4 DEF AwaitNxt
  <1>6. W[i-1] \in Seq(Values) /\ Made(gens[i], FALSE, W[i-1], W[i])
    BY <1>2, TakenAll
  <1>7. Held(g, TRUE) = gens[i].left /\ Held(gens[i], FALSE) = gens[i].left
    BY <1>2, <1>4 DEF Held
  <1>8. Made(g, TRUE, W[i-1], W[i])
    BY <1>4, <1>6, <1>7 DEF Made
  <1>9. g.left \in Seq(Values) /\ g.state \notin Awaiting /\ task' = i
    BY <1>1, <1>4, <1>5 DEF Awaiting
  <1> QED
    BY <1>3, <1>4, <1>5, <1>6, <1>8, <1>9, WorkStep

(* *nxt yields.                                                            *)
LEMMA NxtStep ==
  ASSUME Typed, Built, Control, Sourced, Answered, NEW W, NEW D, Streamed(W, D),
         NEW i \in 1..last, ResumeNxt(i)
  PROVE  Kept
  <1> DEFINE g == [gens[i] EXCEPT !.nval = Head(gens[i].left), !.left = Tail(@)]
  <1>1. task = i /\ inner /\ inner' = FALSE /\ UNCHANGED <<items, task, asked, out>>
    BY DEF ResumeNxt
  <1>2. i \in 2..last /\ gens[i].state = "A1" /\ gens[i].left # <<>>
    BY <1>1 DEF Control, Typed
  <1>3. gens[i] \in GeneratorRecord /\ gens[i].left \in Seq(Values)
    BY <1>2, BuiltIs, Zenon
  <1> DEFINE v == Head(gens[i].left)
  <1> DEFINE l == Tail(gens[i].left)
  <1>4. v \in Values /\ l \in Seq(Values) /\ <<v>> \o l = gens[i].left
    BY <1>2, <1>3
  <1>5. gens' = [gens EXCEPT ![i] = [gens[i] EXCEPT !.nval = v, !.left = l]]
    BY <1>3 DEF ResumeNxt
  <1>6. PICK h : h = [gens[i] EXCEPT !.nval = v, !.left = l]
    OBVIOUS
  <1>7. l \in Seq(Item) /\ v \in Item
    BY <1>4 DEF Item
  <1> HIDE DEF v, l, g
  <1>8. /\ h \in GeneratorRecord /\ h.op = gens[i].op /\ h.class = gens[i].class
        /\ h.completed = gens[i].completed /\ h.state = "A1" /\ h.left = l /\ h.nval = v
        /\ h.acc = gens[i].acc
    BY <1>2, <1>3, <1>6, <1>7 DEF GeneratorRecord
  <1>9. W[i-1] \in Seq(Values) /\ Made(gens[i], inner, W[i-1], W[i])
    BY <1>1, <1>2, TakenAll
  <1>10. Held(h, FALSE) = <<v>> \o l /\ Held(gens[i], inner) = gens[i].left
    BY <1>1, <1>2, <1>8 DEF Held
  <1>11. Made(h, FALSE, W[i-1], W[i])
    BY <1>2, <1>4, <1>8, <1>9, <1>10 DEF Made
  <1>12. h.state \notin Awaiting
    BY <1>8 DEF Awaiting
  <1>13. gens' = [gens EXCEPT ![i] = h]
    BY <1>5, <1>6
  <1> QED
    BY <1>1, <1>2, <1>4, <1>8, <1>9, <1>11, <1>12, <1>13, WorkStep

(* State A1: it yields what *nxt has yielded.                              *)
LEMMA YieldNxtStep ==
  ASSUME Typed, Built, Control, Sourced, Answered, NEW W, NEW D, Streamed(W, D),
         NEW i \in 2..last, task = i, inner = FALSE, gens[i].op # "implode", YieldNxt(i)
  PROVE  Kept
  <1> DEFINE l == gens[i].left
  <1> DEFINE v == gens[i].nval
  <1> DEFINE s == IF l # <<>> THEN "A1r" ELSE IF PrecursorDone(i) THEN "Fi" ELSE "I"
  <1> DEFINE g == To(i, s)
  <1>1. /\ i \in 1..last /\ i - 1 \in 1..last
        /\ gens[i] \in GeneratorRecord /\ l \in Seq(Values)
    BY BuiltIs, Zenon
  <1>2. gens[i].state = "A1" /\ Yield(i, g, v)
    BY DEF YieldNxt, In
  <1>3. v \in Values
    BY <1>2 DEF Control, Placed
  <1>4. /\ g \in GeneratorRecord /\ g.op = gens[i].op /\ g.class = gens[i].class
        /\ g.completed = gens[i].completed /\ g.state = s /\ g.left = l
    BY <1>1 DEF To, GeneratorRecord, Rest
  <1>5. /\ W[i-1] \in Seq(Values) /\ W[i] \in Seq(Values)
        /\ Made(gens[i], FALSE, W[i-1], W[i])
    BY <1>2, TakenAll
  <1>6. Held(gens[i], FALSE) = <<v>> \o l
    BY <1>2 DEF Held
  <1>7. Thing(v) = <<v>> /\ v # Nothing /\ v \in Item
    BY <1>3, ThingIs DEF Item
  <1>8. Flat(Pieces(g.op), W[i-1]) = (W[i] \o Thing(v)) \o l
    <2>1. Flat(Pieces(g.op), W[i-1]) = W[i] \o (<<v>> \o l)
      BY <1>4, <1>5, <1>6 DEF Made
    <2> HIDE DEF g, s, l, v
    <2>2. W[i] \o (<<v>> \o l) = (W[i] \o <<v>>) \o l
      <3>1. \A a, b, c \in Seq(Values) : a \o (b \o c) = (a \o b) \o c
        OBVIOUS
      <3>2. <<v>> \in Seq(Values)
        BY <1>3
      <3> QED
        BY <1>1, <1>5, <3>1, <3>2, Zenon
    <2> QED
      BY <1>7, <2>1, <2>2
  <1>9. /\ s \in Rest /\ (s = "Fi" => PrecursorDone(i)) /\ (s = "I" => ~PrecursorDone(i))
        /\ s \in {"A1r", "Ar"} <=> l # <<>>
    BY DEF Rest
  <1> HIDE DEF g, s, l, v
  <1> QED
    BY <1>1, <1>2, <1>3, <1>4, <1>7, <1>8, <1>9, PassOn

(* OpDirectGeneratorF: all of one future, then the next of the precursor.  *)
LEMMA StepF ==
  ASSUME Typed, Built, Control, Sourced, Answered, NEW W, NEW D, Streamed(W, D),
         NEW i \in 2..last, ResumeF(i)
  PROVE  Kept
  <1>1. task = i /\ inner = FALSE /\ gens[i].class = "F"
    BY DEF ResumeF, At, Typed
  <1>2. gens[i].op = "thenFuture" /\ Plain(i - 1)
    BY <1>1, BuiltIs
  <1>3. CASE Start(i, "A0")
    BY <1>1, <1>3, StartStep DEF Awaiting
  <1>4. CASE In(i, "A0") /\ AwaitInner(i, Precursor(i))
    <2>1. gens[i].state \in Awaiting
      BY <1>4 DEF In, Awaiting
    <2>2. Precursor(i) \in Values
      BY <1>1, <1>2, <2>1, OfferedIs
    <2>3. Pieces(gens[i].op)[Precursor(i)] = Inner[Precursor(i)]
      BY <1>2, <2>2, PiecesAre DEF Operations
    <2> QED
      BY <1>1, <1>2, <1>4, <2>1, <2>2, <2>3, AwaitInnerStep
  <1>5. CASE MoreOfNxt(i)
    BY <1>1, <1>2, <1>5, MoreStep
  <1>6. CASE YieldNxt(i)
    BY <1>1, <1>2, <1>6, YieldNxtStep
  <1> QED
    BY <1>3, <1>4, <1>5, <1>6 DEF ResumeF

(* Skip: what came to nothing adds nothing, and ends the generator if it   *)
(* is the last.                                                            *)
LEMMA SkipsStep ==
  ASSUME Typed, Built, Control, Sourced, Answered, NEW W, NEW D, Streamed(W, D),
         NEW i \in 2..last, task = i, inner = FALSE, gens[i].state \in Awaiting,
         gens[i].op # "implode", ~Plain(i), Skip(i),
         (IF Precursor(i) = Nothing THEN <<>> ELSE Pieces(gens[i].op)[Precursor(i)]) = <<>>
  PROVE  Kept
  <1>1. /\ i \in 1..last /\ i - 1 \in 1..last
        /\ gens[i] \in GeneratorRecord /\ gens[i].left \in Seq(Values)
    BY BuiltIs, Zenon
  <1>2. W[i] \in Seq(Values) /\ Flat(Pieces(gens[i].op), W[i-1]) = W[i] \o <<>>
    BY OfferedIs
  <1>3. CASE PrecursorDone(i) /\ Yield(i, To(i, "Fi"), Nothing)
    <2> DEFINE g == To(i, "Fi")
    <2>1. /\ g \in GeneratorRecord /\ g.op = gens[i].op /\ g.class = gens[i].class
          /\ g.state = "Fi" /\ g.left = gens[i].left
      BY <1>1 DEF GeneratorRecord, To, Rest
    <2>2. Nothing \in Item /\ Thing(Nothing) = <<>>
      BY ThingIs DEF Item
    <2> HIDE DEF g
    <2>3. Yield(i, g, Nothing)
      BY <1>3 DEF g
    <2> QED
      BY <1>1, <1>2, <1>3, <2>1, <2>2, <2>3, PassOnLast
  <1>4. CASE ~PrecursorDone(i) /\ Await(i, gens[i])
    <2>1. gens[i] = [gens[i] EXCEPT !.acc = gens[i].acc] /\ gens[i].acc \in Values
      BY <1>1 DEF GeneratorRecord
    <2>2. Made(gens[i], FALSE, W[i-1], W[i])
      BY <1>2 DEF Made, Held, Awaiting
    <2>3. ~gens[i-1].completed
      BY <1>4 DEF PrecursorDone
    <2> QED
      BY <1>4, <2>1, <2>2, <2>3, SkipStep
  <1> QED
    BY <1>3, <1>4 DEF Skip

(* A sequence, taken apart at its head.                                    *)
LEMMA HeadTail ==
  ASSUME NEW S, NEW im \in Seq(S), im # <<>>
  PROVE  /\ Head(im) \in S /\ Tail(im) \in Seq(S) /\ <<Head(im)>> \o Tail(im) = im
         /\ Len(im) > 1 <=> Tail(im) # <<>>
  <1> DEFINE h == Head(im)
  <1> DEFINE l == Tail(im)
  <1> DEFINE r == <<h>> \o l
  <1>1. /\ h \in S /\ l \in Seq(S) /\ Len(l) = Len(im) - 1
        /\ \A i \in 1..Len(l) : l[i] = im[i+1]
    BY HeadTailProperties
  <1>2. Len(im) \in Nat /\ Len(im) > 0 /\ h = im[1] /\ im \in Seq(S)
    OBVIOUS
  <1> HIDE DEF h, l
  <1>3. <<h>> \in Seq(S) /\ Len(<<h>>) = 1 /\ <<h>>[1] = h
    BY <1>1
  <1>4. /\ r \in Seq(S) /\ Len(r) = Len(im) /\ r[1] = h
        /\ \A i \in 2..Len(im) : r[i] = l[i-1]
    BY <1>1, <1>2, <1>3
  <1> HIDE DEF r
  <1>5. \A i \in 1..Len(im) : r[i] = im[i]
    BY <1>1, <1>2, <1>4
  <1>6. r = im
    <2> HIDE <1>1
    <2> QED
      BY <1>2, <1>4, <1>5
  <1>7. l = <<>> <=> Len(l) = 0
    BY <1>1
  <1>8. Len(im) > 1 <=> l # <<>>
    BY <1>1, <1>2, <1>7
  <1> QED
    BY <1>1, <1>6, <1>8 DEF h, l, r

(* Concatenation is associative.                                           *)
LEMMA Associates ==
  \A S : \A a, b, c \in Seq(S) : a \o (b \o c) = (a \o b) \o c
  OBVIOUS

(* State Ar: the next element of an explosion, of which im are to come.    *)
LEMMA ElementStep ==
  ASSUME Typed, Built, Control, Sourced, Answered, NEW W, NEW D, Streamed(W, D),
         NEW i \in 2..last, task = i, inner = FALSE, gens[i].op # "implode",
         NEW im \in Seq(Values), im # <<>>, YieldElement(i, im),
         W[i] \in Seq(Values), Flat(Pieces(gens[i].op), W[i-1]) = W[i] \o im
  PROVE  Kept
  <1> DEFINE l == Tail(im)
  <1> DEFINE v == Head(im)
  <1> DEFINE s == IF Len(im) > 1 THEN "Ar" ELSE IF PrecursorDone(i) THEN "Fi" ELSE "I"
  <1> DEFINE g == [To(i, s) EXCEPT !.left = l]
  <1>1. /\ i \in 1..last /\ i - 1 \in 1..last /\ gens[i] \in GeneratorRecord
    BY BuiltIs, Zenon
  <1>2. Yield(i, g, v)
    BY DEF YieldElement
  <1>3. v \in Values /\ l \in Seq(Values) /\ <<v>> \o l = im /\ (Len(im) > 1 <=> l # <<>>)
    BY HeadTail, Zenon
  <1>4. /\ s \in Rest /\ (s = "Fi" => PrecursorDone(i)) /\ (s = "I" => ~PrecursorDone(i))
        /\ s \in {"A1r", "Ar"} <=> Len(im) > 1
    BY DEF Rest
  <1>5. /\ g \in GeneratorRecord /\ g.op = gens[i].op /\ g.class = gens[i].class
        /\ g.state = s /\ g.left = l
    <2>1. l \in Seq(Item)
      BY <1>3 DEF Item
    <2>2. /\ To(i, s) \in GeneratorRecord /\ To(i, s).op = gens[i].op
          /\ To(i, s).class = gens[i].class /\ To(i, s).state = s
      <3> HIDE DEF s, l, v
      <3> QED
        BY <1>1, <1>4 DEF To, GeneratorRecord
    <2>3. PICK h : h = To(i, s)
      OBVIOUS
    <2>4. g = [h EXCEPT !.left = l]
      BY <2>3
    <2> HIDE DEF g, s, l, v
    <2> QED
      BY <2>1, <2>2, <2>3, <2>4 DEF GeneratorRecord
  <1>6. Thing(v) = <<v>> /\ v # Nothing /\ v \in Item
    BY <1>3, ThingIs DEF Item
  <1> HIDE DEF g, s, l, v
  <1>7. Flat(Pieces(g.op), W[i-1]) = (W[i] \o Thing(v)) \o l
    <2>1. <<v>> \in Seq(Values)
      BY <1>3
    <2>2. W[i] \in Seq(Values) /\ l \in Seq(Values)
      BY <1>3
    <2>3. PICK a, w : a = W[i] /\ w = <<v>>
      OBVIOUS
    <2>4. a \o (w \o l) = (a \o w) \o l
      <3>1. a \in Seq(Values) /\ w \in Seq(Values) /\ l \in Seq(Values)
        BY <2>1, <2>2, <2>3, Zenon
      <3>2. PICK c : c = l
        OBVIOUS
      <3>3. c \in Seq(Values)
        BY <3>1, <3>2
      <3>4. a \o (w \o c) = (a \o w) \o c
        BY ONLY <3>1, <3>3, Associates, SMTT(60)
      <3> QED
        BY <3>2, <3>4
    <2>5. w \o l = im
      BY <1>3, <2>3
    <2>6. Flat(Pieces(g.op), W[i-1]) = a \o im /\ Thing(v) = w
      BY <1>5, <1>6, <2>3
    <2> QED
      BY <2>3, <2>4, <2>5, <2>6
  <1> QED
    BY <1>2, <1>3, <1>4, <1>5, <1>6, <1>7, PassOn

(* OpExplodingGenerator: the elements of one explosion, then the next.     *)
LEMMA StepX ==
  ASSUME Typed, Built, Control, Sourced, Answered, NEW W, NEW D, Streamed(W, D),
         NEW i \in 2..last, ResumeX(i)
  PROVE  Kept
  <1> DEFINE im == Explosion[Precursor(i)]
  <1>1. task = i /\ inner = FALSE /\ gens[i].class = "X"
    BY DEF ResumeX, At, Typed
  <1>2. gens[i].op = "explode" /\ i \in Nat /\ i > 1 /\ Plain(i - 1) /\ gens[i].left \in Seq(Values)
    BY <1>1, BuiltIs DEF Typed
  <1>3. CASE Start(i, "A0")
    BY <1>1, <1>3, StartStep DEF Awaiting
  <1>4. ASSUME In(i, "A0")
        PROVE  /\ gens[i].state \in Awaiting /\ im \in Seq(Values) /\ W[i] \in Seq(Values)
               /\ (IF Precursor(i) = Nothing THEN <<>> ELSE Pieces(gens[i].op)[Precursor(i)]) = im
               /\ Flat(Pieces(gens[i].op), W[i-1]) = W[i] \o im
    <2>1. gens[i].state \in Awaiting
      BY <1>4 DEF In, Awaiting
    <2>2. Precursor(i) \in Values /\ W[i] \in Seq(Values)
      BY <1>1, <1>2, <2>1, OfferedIs
    <2>3. Pieces(gens[i].op)[Precursor(i)] = im
      BY <1>2, <2>2, PiecesAre DEF Operations
    <2>4. im \in Seq(Values) /\ Precursor(i) # Nothing
      BY <2>2, FunctionsAssumption
    <2>5. Flat(Pieces(gens[i].op), W[i-1]) =
            W[i] \o (IF Precursor(i) = Nothing THEN <<>> ELSE Pieces(gens[i].op)[Precursor(i)])
      BY <1>1, <1>2, <2>1, OfferedIs
    <2> QED
      BY <2>1, <2>2, <2>3, <2>4, <2>5
  <1>5. ~Plain(i)
    BY <1>1, <1>2 DEF Plain
  <1>6. CASE In(i, "A0") /\ im = <<>> /\ Skip(i)
    BY <1>1, <1>2, <1>4, <1>5, <1>6, SkipsStep
  <1>7. CASE In(i, "A0") /\ im # <<>> /\ YieldElement(i, im)
    <2> HIDE DEF im
    <2> QED
      BY <1>1, <1>2, <1>4, <1>7, ElementStep
  <1>8. CASE In(i, "Ar") /\ YieldElement(i, gens[i].left)
    <2>1. gens[i].state = "Ar" /\ gens[i].left # <<>>
      BY <1>8 DEF In, Control, Placed
    <2>2. W[i] \in Seq(Values) /\ Made(gens[i], FALSE, W[i-1], W[i])
      BY <1>1, <2>1, TakenAll
    <2>3. Flat(Pieces(gens[i].op), W[i-1]) = W[i] \o gens[i].left
      BY <1>2, <2>1, <2>2 DEF Made, Held
    <2> QED
      BY <1>1, <1>2, <1>8, <2>1, <2>2, <2>3, ElementStep
  <1> QED
    BY <1>3, <1>6, <1>7, <1>8 DEF ResumeX

(* OpExplodingGeneratorM: the same with Nothing among the values.          *)
LEMMA StepXM ==
  ASSUME Typed, Built, Control, Sourced, Answered, NEW W, NEW D, Streamed(W, D),
         NEW i \in 2..last, ResumeXM(i)
  PROVE  Kept
  <1> DEFINE im == IF Precursor(i) = Nothing THEN <<>> ELSE Explosion[Precursor(i)]
  <1>1. task = i /\ inner = FALSE /\ gens[i].class = "XM"
    BY DEF ResumeXM, At, Typed
  <1>2. gens[i].op = "explode" /\ i \in Nat /\ i > 1 /\ gens[i].left \in Seq(Values)
    BY <1>1, BuiltIs DEF Typed
  <1>3. CASE Start(i, "A0")
    BY <1>1, <1>3, StartStep DEF Awaiting
  <1>4. ASSUME In(i, "A0")
        PROVE  /\ gens[i].state \in Awaiting /\ im \in Seq(Values) /\ W[i] \in Seq(Values)
               /\ (IF Precursor(i) = Nothing THEN <<>> ELSE Pieces(gens[i].op)[Precursor(i)]) = im
               /\ Flat(Pieces(gens[i].op), W[i-1]) = W[i] \o im
    <2>1. gens[i].state \in Awaiting
      BY <1>4 DEF In, Awaiting
    <2>2. Precursor(i) \in Item /\ W[i] \in Seq(Values)
      BY <1>1, <1>2, <2>1, OfferedIs
    <2>3. Precursor(i) \in Values => Pieces(gens[i].op)[Precursor(i)] = Explosion[Precursor(i)]
      BY <1>2, <2>2, PiecesAre DEF Operations
    <2>5. Precursor(i) \in Values => Explosion[Precursor(i)] \in Seq(Values)
      BY FunctionsAssumption
    <2>6. Flat(Pieces(gens[i].op), W[i-1]) =
            W[i] \o (IF Precursor(i) = Nothing THEN <<>> ELSE Pieces(gens[i].op)[Precursor(i)])
      BY <1>1, <1>2, <2>1, OfferedIs
    <2>7. (IF Precursor(i) = Nothing THEN <<>> ELSE Pieces(gens[i].op)[Precursor(i)]) = im
      BY <2>2, <2>3 DEF Item
    <2>8. im \in Seq(Values)
      BY <2>2, <2>5 DEF Item
    <2> QED
      BY <2>1, <2>2, <2>6, <2>7, <2>8
  <1>5. ~Plain(i)
    BY <1>1, <1>2 DEF Plain
  <1>6. CASE In(i, "A0") /\ im = <<>> /\ Skip(i)
    BY <1>1, <1>2, <1>4, <1>5, <1>6, SkipsStep
  <1>7. CASE In(i, "A0") /\ im # <<>> /\ YieldElement(i, im)
    <2> HIDE DEF im
    <2> QED
      BY <1>1, <1>2, <1>4, <1>7, ElementStep
  <1>8. CASE In(i, "Ar") /\ YieldElement(i, gens[i].left)
    <2>1. gens[i].state = "Ar" /\ gens[i].left # <<>>
      BY <1>8 DEF In, Control, Placed
    <2>2. W[i] \in Seq(Values) /\ Made(gens[i], FALSE, W[i-1], W[i])
      BY <1>1, <2>1, TakenAll
    <2>3. Flat(Pieces(gens[i].op), W[i-1]) = W[i] \o gens[i].left
      BY <1>2, <2>1, <2>2 DEF Made, Held
    <2> QED
      BY <1>1, <1>2, <1>8, <2>1, <2>2, <2>3, ElementStep
  <1> QED
    BY <1>3, <1>6, <1>7, <1>8 DEF ResumeXM

(* OpImplodeGeneratorM: accumulates, and yields at its end only.           *)
LEMMA StepIM ==
  ASSUME Typed, Built, Control, Sourced, Answered, NEW W, NEW D, Streamed(W, D),
         NEW i \in 2..last, ResumeIM(i)
  PROVE  Kept
  <1> DEFINE acc == IF Precursor(i) = Nothing THEN gens[i].acc
                    ELSE Step[<<gens[i].acc, Precursor(i)>>]
  <1>1. task = i /\ inner = FALSE /\ gens[i].class = "IM"
    BY DEF ResumeIM, At, Typed
  <1>2. gens[i].op = "implode" /\ gens[i].left \in Seq(Values) /\ gens[i] \in GeneratorRecord
    BY <1>1, BuiltIs
  <1>3. CASE Start(i, "A")
    BY <1>1, <1>3, StartStep DEF Awaiting
  <1>4. ASSUME In(i, "A")
        PROVE  /\ gens[i].state \in Awaiting /\ W[i] = <<>>
               /\ acc \in Values /\ acc = Imploded(W[i-1])
    <2>1. gens[i].state \in Awaiting
      BY <1>4 DEF In, Awaiting
    <2> QED
      BY <1>1, <1>2, <2>1, OfferedIs
  <1> HIDE DEF acc
  <1>5. CASE In(i, "A") /\ PrecursorDone(i) /\ Yield(i, [To(i, "Fi") EXCEPT !.acc = acc], acc)
    <2> DEFINE g == [To(i, "Fi") EXCEPT !.acc = acc]
    <2>1. PICK h : h = To(i, "Fi")
      OBVIOUS
    <2>2. /\ h \in GeneratorRecord /\ h.op = gens[i].op /\ h.class = gens[i].class
          /\ h.state = "Fi" /\ h.left = gens[i].left
      BY <1>2, <2>1 DEF To, GeneratorRecord, Rest
    <2>3. g = [h EXCEPT !.acc = acc]
      BY <2>1
    <2> HIDE DEF g
    <2>4. /\ g \in GeneratorRecord /\ g.op = gens[i].op /\ g.class = gens[i].class
          /\ g.state = "Fi" /\ g.left = gens[i].left /\ g.acc = acc
      BY <1>4, <1>5, <2>2, <2>3 DEF GeneratorRecord
    <2>5. acc \in Values /\ acc = Imploded(W[i-1]) /\ W[i] = <<>>
      BY <1>4, <1>5
    <2>6. acc \in Item /\ Thing(acc) = <<acc>>
      BY <2>5, ThingIs DEF Item
    <2>7. W[i] \o Thing(acc) = <<acc>>
      <3>1. <<>> \o <<acc>> = <<acc>>
        BY <2>5
      <3> QED
        BY <2>5, <2>6, <3>1
    <2>8. Made(g, FALSE, W[i-1], W[i] \o Thing(acc))
      BY <1>2, <2>4, <2>5, <2>7 DEF Made
    <2>9. g.class \notin MaybeClasses
      BY <1>1, <2>4 DEF MaybeClasses
    <2>10. Yield(i, g, acc) /\ gens[i-1].completed
      BY <1>5 DEF g, PrecursorDone
    <2> QED
      BY <1>1, <1>2, <2>4, <2>5, <2>6, <2>8, <2>9, <2>10, YieldStep DEF Rest
  <1>6. CASE In(i, "A") /\ ~PrecursorDone(i) /\ Await(i, [gens[i] EXCEPT !.acc = acc])
    <2>1. PICK g : g = [gens[i] EXCEPT !.acc = acc]
      OBVIOUS
    <2>2. acc \in Values /\ acc = Imploded(W[i-1]) /\ W[i] = <<>> /\ gens[i].state \in Awaiting
      BY <1>4, <1>6
    <2>3. g.op = "implode" /\ g.state = gens[i].state /\ g.acc = acc
      BY <1>2, <2>1 DEF GeneratorRecord
    <2>4. Made(g, FALSE, W[i-1], W[i])
      BY <2>2, <2>3 DEF Made, Awaiting
    <2>5. Await(i, g) /\ ~gens[i-1].completed
      BY <1>6, <2>1 DEF PrecursorDone
    <2> QED
      BY <1>1, <2>1, <2>2, <2>4, <2>5, SkipStep
  <1> QED
    BY <1>3, <1>5, <1>6 DEF ResumeIM, acc

(* Whichever generator is resumed, the invariant is kept; it is the        *)
(* source, or the source stays as it is.                                   *)
LEMMA ResumeStep ==
  ASSUME Typed, Built, Control, Sourced, Answered, NEW W, NEW D, Streamed(W, D), Resume
  PROVE  Kept \/ Drawn
  <1>0. last \in Nat /\ last > 1 /\ DOMAIN gens = 1..last
    BY DEF Typed, last
  <1>1. PICK i \in 1..last :
          \/ ResumeL(i) \/ Resume0(i) \/ ResumeMM(i) \/ ResumeF(i)
          \/ ResumeX(i) \/ ResumeXM(i) \/ ResumeIM(i) \/ ResumeNxt(i)
    BY <1>0, Zenon DEF Resume
  <1>2. gens[1].class = "L"
    BY DEF Built
  <1>3. i # 1 => i \in 2..last
    BY <1>0
  <1>4. CASE ResumeL(i)
    BY <1>4, SourceStep, Zenon
  <1>5. CASE Resume0(i)
    <2>1. i \in 2..last
      BY <1>2, <1>3, <1>5 DEF Resume0, At
    <2> QED
      BY <1>5, <2>1, Step0, Zenon
  <1>6. CASE ResumeMM(i)
    <2>1. i \in 2..last
      BY <1>2, <1>3, <1>6 DEF ResumeMM, At
    <2> QED
      BY <1>6, <2>1, StepMM, Zenon
  <1>7. CASE ResumeF(i)
    <2>1. i \in 2..last
      BY <1>2, <1>3, <1>7 DEF ResumeF, At
    <2> QED
      BY <1>7, <2>1, StepF, Zenon
  <1>9. CASE ResumeX(i)
    <2>1. i \in 2..last
      BY <1>2, <1>3, <1>9 DEF ResumeX, At
    <2> QED
      BY <1>9, <2>1, StepX, Zenon
  <1>10. CASE ResumeXM(i)
    <2>1. i \in 2..last
      BY <1>2, <1>3, <1>10 DEF ResumeXM, At
    <2> QED
      BY <1>10, <2>1, StepXM, Zenon
  <1>11. CASE ResumeIM(i)
    <2>1. i \in 2..last
      BY <1>2, <1>3, <1>11 DEF ResumeIM, At
    <2> QED
      BY <1>11, <2>1, StepIM, Zenon
  <1>12. CASE ResumeNxt(i)
    <2>1. i \in 2..last
      BY <1>3, <1>12 DEF ResumeNxt, Control
    <2> QED
      BY <1>12, <2>1, NxtStep, Zenon
  <1> QED
    BY <1>1, <1>4, <1>5, <1>6, <1>7, <1>9, <1>10, <1>11, <1>12

(* Every step keeps the invariant.                                         *)
LEMMA StepInv == IInv /\ [Next]_vars => IInv'
  <1> SUFFICES ASSUME IInv, [Next]_vars PROVE IInv'
    OBVIOUS
  <1>1. Typed /\ Built /\ Control /\ Sourced /\ Answered
    BY DEF IInv
  <1>2. PICK W, D : Streamed(W, D)
    BY DEF IInv
  <1>3. CASE Demand
    BY <1>1, <1>2, <1>3, DemandStep
  <1>4. CASE Resume
    BY <1>1, <1>2, <1>4, ResumeStep DEF Kept, Drawn
  <1>5. CASE UNCHANGED vars
    <2>1. /\ UNCHANGED <<items, gens, task, inner, asked, out>>
      BY <1>5 DEF vars
    <2>2. Typed' /\ Sourced' /\ Answered'
      BY <1>1, <2>1 DEF Typed, Sourced, Answered, last, Taken
    <2>3. Built'
      BY <1>1, <2>1 DEF Built, last, Plain
    <2>4. \A j : Placed(j)' <=> Placed(j)
      BY <2>1 DEF Placed
    <2>5. Control'
      BY <1>1, <2>1, <2>4 DEF Control, last
    <2>6. Streamed(W, D)'
      BY <1>2, <2>1 DEF Streamed, Passed, Offered, Pending, Plain, Taken, last
    <2> QED
      BY <2>2, <2>3, <2>5, <2>6 DEF IInv
  <1> QED
    BY <1>3, <1>4, <1>5 DEF Next

(* A function that is defined by recursion from 1 to m ...                 *)
Recursive(V, b, m, op, f) ==
  /\ f \in [1..m -> V] /\ f[1] = b
  /\ \A i \in 2..m : f[i] = op[<<f[i-1], i>>]

(* ... and it exists.                                                      *)
LEMMA Recursion ==
  ASSUME NEW V, NEW b \in V, NEW m \in Nat, m > 0, NEW op \in [V \X (2..m) -> V]
  PROVE  \E f : Recursive(V, b, m, op, f)
  <1> DEFINE n == m - 1
  <1> DEFINE up == [p \in V \X (1..n) |-> op[<<p[1], p[2] + 1>>]]
  <1>1. n \in Nat /\ n + 1 = m /\ \A i \in 1..n : i + 1 \in 2..m
    OBVIOUS
  <1>2. \A a \in V, i \in 2..m : op[<<a, i>>] \in V
    OBVIOUS
  <1> HIDE DEF n
  <1>3. up \in [V \X (1..n) -> V]
    BY <1>1, <1>2
  <1>4. \A a \in V, i \in 1..n : up[<<a, i>>] = op[<<a, i + 1>>]
    OBVIOUS
  <1> HIDE DEF up
  <1>5. PICK g : Unrolled(V, b, n, up, g)
    BY <1>1, <1>3, Unroll, Zenon
  <1>6. g \in [0..n -> V] /\ g[0] = b /\ \A i \in 1..n : g[i] = up[<<g[i-1], i>>]
    BY <1>5 DEF Unrolled
  <1> DEFINE f == [i \in 1..m |-> g[i-1]]
  <1>7. \A i \in 1..m : i - 1 \in 0..n /\ g[i-1] \in V
    BY <1>1, <1>6
  <1>8. f \in [1..m -> V]
    BY <1>7
  <1>9. f[1] = b
    BY <1>1, <1>6
  <1>10. ASSUME NEW i \in 2..m PROVE f[i] = op[<<f[i-1], i>>]
    <2>1. i - 1 \in 1..n /\ (i - 1) - 1 \in 0..n /\ (i - 1) + 1 = i /\ i \in 1..m /\ i - 1 \in 1..m
      BY <1>1
    <2>2. f[i] = g[i-1] /\ f[i-1] = g[(i-1)-1] /\ g[(i-1)-1] \in V
      BY <1>6, <2>1
    <2>3. g[i-1] = up[<<g[(i-1)-1], i - 1>>]
      BY <1>6, <2>1
    <2>4. g[i-1] = op[<<g[(i-1)-1], i>>]
      BY <1>4, <2>1, <2>2, <2>3
    <2> QED
      BY <2>2, <2>4
  <1> HIDE DEF f
  <1>11. Recursive(V, b, m, op, f)
    BY <1>8, <1>9, <1>10 DEF Recursive
  <1> QED
    BY <1>11

(* The types that the overloads tell apart: V and V?.                      *)
Kinds == {"plain", "maybe"}

(* The types along a pipeline: each is what the operation makes of the one *)
(* before.                                                                 *)
LEMMA TypesAre ==
  ASSUME NEW ops \in Seq(Operations), NEW type \in Kinds
  PROVE  /\ Types(ops, type)[1] = type
         /\ \A i \in DOMAIN ops :
              /\ Types(ops, type)[i] \in Kinds
              /\ Types(ops, type)[i+1] = YieldType(ops[i], Types(ops, type)[i])
  <1> DEFINE n == Len(ops)
  <1> DEFINE m == n + 1
  <1> DEFINE op == [p \in Kinds \X (2..m) |-> YieldType(ops[p[2]-1], p[1])]
  <1>1. n \in Nat /\ m \in Nat /\ m > 0 /\ m = n + 1 /\ DOMAIN ops = 1..n
    OBVIOUS
  <1>2. op \in [Kinds \X (2..m) -> Kinds]
    BY DEF YieldType, Kinds
  <1>3. \A a \in Kinds, i \in 2..m : op[<<a, i>>] = YieldType(ops[i-1], a)
    OBVIOUS
  <1> HIDE DEF op
  <1>4. PICK f : Recursive(Kinds, type, m, op, f)
    BY <1>1, <1>2, Recursion, Zenon
  <1>5. f \in [1..m -> Kinds] /\ f[1] = type /\ \A i \in 2..m : f[i] = op[<<f[i-1], i>>]
    BY <1>4 DEF Recursive
  <1> DEFINE Is(h) ==
        h = [i \in 1..m |-> IF i = 1 THEN type ELSE YieldType(ops[i-1], h[i-1])]
  <1>6. Is(f)
    <2> HIDE DEF m
    <2>1. \A i \in 2..m : i - 1 \in 1..m /\ f[i-1] \in Kinds
      BY <1>1, <1>5
    <2>2. \A i \in 2..m : f[i] = YieldType(ops[i-1], f[i-1])
      BY <1>3, <1>5, <2>1
    <2>3. \A i \in 1..m : f[i] = IF i = 1 THEN type ELSE YieldType(ops[i-1], f[i-1])
      <3>1. \A i \in 1..m : i = 1 \/ (i # 1 /\ i \in 2..m)
        BY <1>1
      <3> QED
        BY <1>5, <2>2, <3>1, Zenon
    <2>4. f = [i \in 1..m |-> f[i]]
      BY <1>5
    <2> QED
      BY <2>3, <2>4
  <1>7. Types(ops, type) = (CHOOSE h : Is(h))
    BY DEF Types
  <1>8. Is(CHOOSE h : Is(h))
    BY <1>6
  <1> DEFINE h == CHOOSE g : Is(g)
  <1>9. h = [i \in 1..m |-> IF i = 1 THEN type ELSE YieldType(ops[i-1], h[i-1])]
    BY <1>8
  <1> HIDE DEF h, Is, n
  <1>10. \A i \in 1..m : h[i] = IF i = 1 THEN type ELSE YieldType(ops[i-1], h[i-1])
    BY <1>9
  <1> DEFINE T == {i \in Nat : i + 1 \in 1..m => h[i+1] \in Kinds}
  <1>11. 0 \in T
    BY <1>1, <1>10
  <1>12. ASSUME NEW i \in Nat, i \in T PROVE i + 1 \in T
    <2> SUFFICES ASSUME (i + 1) + 1 \in 1..m PROVE h[(i + 1) + 1] \in Kinds
      OBVIOUS
    <2> DEFINE k == (i + 1) + 1
    <2>1. i + 1 \in 1..m /\ k # 1 /\ k - 1 = i + 1 /\ k \in 1..m
      BY <1>1
    <2> HIDE DEF k
    <2>2. h[k] = YieldType(ops[k-1], h[i+1])
      BY <1>10, <2>1
    <2>3. h[i+1] \in Kinds
      BY <1>12, <2>1
    <2> QED
      BY <2>2, <2>3 DEF k, YieldType, Kinds
  <1>13. \A i \in Nat : i \in T
    <2> HIDE DEF T
    <2> QED
      BY <1>11, <1>12, Induct
  <1>14. ASSUME NEW i \in 1..n
         PROVE  h[i] \in Kinds /\ h[i+1] = YieldType(ops[i], h[i])
    <2>1. i - 1 \in Nat /\ (i - 1) + 1 = i /\ i \in 1..m /\ i + 1 \in 1..m
          /\ i + 1 # 1 /\ (i + 1) - 1 = i
      BY <1>1
    <2>2. h[i] \in Kinds
      BY <1>13, <2>1
    <2>3. h[i+1] = YieldType(ops[i], h[i])
      <3> DEFINE k == i + 1
      <3>1. k \in 1..m /\ k # 1 /\ k - 1 = i
        BY <2>1
      <3> HIDE DEF k
      <3>2. h[k] = YieldType(ops[k-1], h[k-1])
        BY <1>10, <3>1
      <3> QED
        BY <3>1, <3>2 DEF k
    <2> QED
      BY <2>2, <2>3
  <1>15. h[1] = type
    BY <1>1, <1>10
  <1>16. Types(ops, type) = h
    BY <1>7 DEF h
  <1> QED
    BY <1>1, <1>14, <1>15, <1>16, Zenon

(* f[i] is what the operations up to ops[i] promise of the items s.        *)
Promises(ops, s, ended, f) ==
  /\ f \in [DOMAIN ops -> Seq(Values)] /\ f[1] = Things(s)
  /\ \A i \in 2..Len(ops) : f[i] = Transformed(ops[i], f[i-1], ended)

(* What an operation makes of a stream of values is one again.             *)
LEMMA TransformedIs ==
  ASSUME NEW op \in Operations, NEW s \in Seq(Values), NEW ended
  PROVE  Transformed(op, s, ended) \in Seq(Values)
  <1>1. CASE op # "implode"
    <2>1. Cuts(Pieces(op), Values, Values)
      BY <1>1, PiecesAre
    <2>2. Flat(Pieces(op), s) \in Seq(Values)
      BY <2>1, FlatType, Zenon
    <2> QED
      BY <1>1, <2>2 DEF Transformed
  <1>2. CASE op = "implode"
    <2>1. Imploded(s) \in Values
      BY Implodes
    <2> QED
      BY <1>2, <2>1 DEF Transformed
  <1> QED
    BY <1>1, <1>2

(* What Through is applied to: a source and n - 1 operations.              *)
Pipeline(ops, n) ==
  /\ n \in Nat /\ n > 0 /\ DOMAIN ops = 1..n /\ Len(ops) = n
  /\ \A i \in 2..n : ops[i] \in Operations

(* Through(ops, s, ended) is what the last operation promises.             *)
LEMMA ThroughIs ==
  \A ops, n, ended : \A s \in Seq(Item) :
    Pipeline(ops, n) => \E f : Promises(ops, s, ended, f) /\ Through(ops, s, ended) = f[n]
  <1> SUFFICES ASSUME NEW ops, NEW n, NEW ended, NEW s \in Seq(Item), Pipeline(ops, n)
               PROVE  \E f : Promises(ops, s, ended, f) /\ Through(ops, s, ended) = f[n]
    OBVIOUS
  <1>0. /\ n \in Nat /\ n > 0 /\ DOMAIN ops = 1..n /\ Len(ops) = n
        /\ \A i \in 2..n : ops[i] \in Operations
    BY DEF Pipeline
  <1> USE <1>0
  <1> DEFINE V == Seq(Values)
  <1> DEFINE op == [p \in V \X (2..n) |-> Transformed(ops[p[2]], p[1], ended)]
  <1>1. Things(s) \in V
    BY ThingsAre
  <1>2. ASSUME NEW a \in V, NEW i \in 2..n PROVE Transformed(ops[i], a, ended) \in V
    <2>1. ops[i] \in Operations
      OBVIOUS
    <2> QED
      BY <2>1, TransformedIs, Zenon
  <1> HIDE DEF V
  <1>3. op \in [V \X (2..n) -> V]
    BY <1>2
  <1>4. \A a \in V, i \in 2..n : op[<<a, i>>] = Transformed(ops[i], a, ended)
    OBVIOUS
  <1> HIDE DEF op
  <1>5. PICK f : Recursive(V, Things(s), n, op, f)
    BY <1>1, <1>3, Recursion, Zenon
  <1>6. f \in [1..n -> V] /\ f[1] = Things(s) /\ \A i \in 2..n : f[i] = op[<<f[i-1], i>>]
    BY <1>5 DEF Recursive
  <1> DEFINE Is(h) ==
        h = [i \in DOMAIN ops |-> IF i = 1 THEN Things(s)
                                  ELSE Transformed(ops[i], h[i-1], ended)]
  <1>7. Is(f)
    <2>1. \A i \in 2..n : i - 1 \in 1..n /\ f[i-1] \in V
      BY <1>6
    <2>2. \A i \in 2..n : f[i] = Transformed(ops[i], f[i-1], ended)
      BY <1>4, <1>6, <2>1
    <2>3. \A i \in 1..n : f[i] = IF i = 1 THEN Things(s) ELSE Transformed(ops[i], f[i-1], ended)
      <3>1. \A i \in 1..n : i = 1 \/ (i # 1 /\ i \in 2..n)
        OBVIOUS
      <3> QED
        BY <1>6, <2>2, <3>1, Zenon
    <2>4. f = [i \in 1..n |-> f[i]]
      BY <1>6
    <2> QED
      BY <2>3, <2>4
  <1>8. Through(ops, s, ended) = (CHOOSE h : Is(h))[n]
    BY DEF Through
  <1>9. Is(CHOOSE h : Is(h))
    BY <1>7
  <1> DEFINE h == CHOOSE g : Is(g)
  <1>10. h = [i \in 1..n |-> IF i = 1 THEN Things(s) ELSE Transformed(ops[i], h[i-1], ended)]
    BY <1>9
  <1> HIDE DEF h, Is
  <1>11. \A i \in 1..n : h[i] = IF i = 1 THEN Things(s) ELSE Transformed(ops[i], h[i-1], ended)
    BY <1>10
  <1> DEFINE T == {i \in Nat : i + 1 \in 1..n => h[i+1] \in V}
  <1>12. 0 \in T
    BY <1>1, <1>11
  <1>13. ASSUME NEW i \in Nat, i \in T PROVE i + 1 \in T
    <2> SUFFICES ASSUME (i + 1) + 1 \in 1..n PROVE h[(i + 1) + 1] \in V
      OBVIOUS
    <2> DEFINE k == (i + 1) + 1
    <2>1. i + 1 \in 1..n /\ k # 1 /\ k - 1 = i + 1 /\ k \in 2..n /\ k \in 1..n
      OBVIOUS
    <2> HIDE DEF k
    <2>2. h[k] = Transformed(ops[k], h[i+1], ended)
      BY <1>11, <2>1
    <2>3. h[i+1] \in V
      BY <1>13, <2>1
    <2> QED
      BY <1>2, <2>1, <2>2, <2>3 DEF k
  <1>14. \A i \in Nat : i \in T
    <2> HIDE DEF T
    <2> QED
      BY <1>12, <1>13, Induct
  <1>15. ASSUME NEW i \in 1..n PROVE h[i] \in V
    <2>1. i - 1 \in Nat /\ (i - 1) + 1 = i
      OBVIOUS
    <2> QED
      BY <1>14, <2>1
  <1>16. h \in [1..n -> V]
    BY <1>10, <1>15
  <1>17. h[1] = Things(s) /\ \A i \in 2..n : h[i] = Transformed(ops[i], h[i-1], ended)
    <2>1. 1 \in 1..n /\ \A i \in 2..n : i \in 1..n /\ i # 1
      OBVIOUS
    <2> QED
      BY <1>11, <2>1, Zenon
  <1>18. Promises(ops, s, ended, h)
    BY <1>16, <1>17 DEF Promises, V
  <1>19. Through(ops, s, ended) = h[n]
    BY <1>8 DEF h
  <1> QED
    BY <1>18, <1>19

(* The overload that each operation takes for V and for V?.                *)
LEMMA ClassIs ==
  /\ \A type \in Kinds : ClassOf("implode", type) = "IM"
  /\ ClassOf("thenFuture", "plain") = "F"
  /\ ClassOf("explode", "plain") = "X" /\ ClassOf("explode", "maybe") = "XM"
  /\ \A op \in {"then", "thenMaybe"} : ClassOf(op, "plain") = "0" /\ ClassOf(op, "maybe") = "MM"
  <1>1. ASSUME NEW type PROVE ClassOf("implode", type) = "IM"
    BY Zenon DEF ClassOf
  <1>2. ASSUME NEW type PROVE ClassOf("explode", type) = Explode(type)
    BY Zenon DEF ClassOf
  <1>3. \A op, type : op # "explode" /\ op # "implode" => ClassOf(op, type) = Then(op, type)
    BY Zenon DEF ClassOf
  <1> QED
    BY <1>1, <1>2, <1>3 DEF Explode, Then

(* One element before a sequence.                                          *)
LEMMA ConsIs ==
  ASSUME NEW S, NEW a \in Seq(S), Len(a) = 1, NEW r \in Seq(S)
  PROVE  /\ Len(a \o r) = Len(r) + 1 /\ DOMAIN (a \o r) = 1..(Len(r) + 1) /\ (a \o r)[1] = a[1]
         /\ \A j \in 1..Len(r) : (a \o r)[j + 1] = r[j]
  <1>1. /\ a \o r \in Seq(S) /\ Len(a \o r) = Len(a) + Len(r)
        /\ \A i \in 1..Len(a)+Len(r) : (a \o r)[i] = IF i <= Len(a) THEN a[i] ELSE r[i - Len(a)]
    BY ConcatProperties
  <1>2. PICK b : b = a \o r
    OBVIOUS
  <1>3. /\ b \in Seq(S) /\ Len(b) = 1 + Len(r) /\ Len(r) \in Nat
        /\ \A i \in 1..(1 + Len(r)) : b[i] = IF i <= 1 THEN a[i] ELSE r[i - 1]
    BY <1>1, <1>2
  <1>4. b[1] = a[1]
    BY <1>3
  <1>5. ASSUME NEW j \in 1..Len(r) PROVE b[j + 1] = r[j]
    <2>1. j + 1 \in 1..(1 + Len(r)) /\ ~(j + 1 <= 1) /\ (j + 1) - 1 = j
      BY <1>3
    <2> QED
      BY <1>3, <2>1
  <1>6. Len(b) = Len(r) + 1 /\ DOMAIN b = 1..(Len(r) + 1)
    BY <1>3
  <1> QED
    BY <1>2, <1>4, <1>5, <1>6

(* A pipeline is the source with an operator for each operation.           *)
LEMMA PipelineIs ==
  ASSUME NEW ops \in Seq(Operations), NEW type, NEW src,
         gens = <<src>> \o Operators(ops, type)
  PROVE  /\ last = Len(ops) + 1 /\ gens = [j \in 1..last |-> gens[j]] /\ gens[1] = src
         /\ \A j \in 1..Len(ops) :
              gens[j + 1] = Operator(ops[j], ClassOf(ops[j], Types(ops, type)[j]))
  <1> DEFINE n == Len(ops)
  <1> DEFINE r == [j \in 1..n |-> Operator(ops[j], ClassOf(ops[j], Types(ops, type)[j]))]
  <1> DEFINE S == {src} \cup {r[j] : j \in 1..n}
  <1>1. n \in Nat /\ DOMAIN ops = 1..n
    OBVIOUS
  <1>2. Operators(ops, type) = r
    BY <1>1 DEF Operators
  <1>3. \A j \in 1..n : r[j] = Operator(ops[j], ClassOf(ops[j], Types(ops,
  type)[j])) /\ r[j] \in S
    OBVIOUS
  <1>4. r = [j \in 1..n |-> r[j]]
    OBVIOUS
  <1>5. src \in S
    OBVIOUS
  <1> HIDE DEF r, S, n
  <1>6. r \in Seq(S) /\ Len(r) = n
    BY <1>1, <1>3, <1>4
  <1>7. <<src>> \in Seq(S) /\ Len(<<src>>) = 1 /\ <<src>>[1] = src
    BY <1>5
  <1>8. PICK a : a = <<src>>
    OBVIOUS
  <1>9. PICK b : b = a \o r
    OBVIOUS
  <1>10. a \in Seq(S) /\ Len(a) = 1 /\ a[1] = src /\ gens = b
    BY <1>2, <1>7, <1>8, <1>9
  <1>11. /\ Len(b) = Len(r) + 1 /\ DOMAIN b = 1..(Len(r) + 1) /\ b[1] = a[1]
         /\ \A j \in 1..Len(r) : b[j + 1] = r[j]
    <2>1. /\ Len(a \o r) = Len(r) + 1 /\ DOMAIN (a \o r) = 1..(Len(r) + 1) /\ (a \o r)[1] = a[1]
          /\ \A j \in 1..Len(r) : (a \o r)[j + 1] = r[j]
      BY <1>6, <1>10, ConsIs
    <2> QED
      BY <1>9, <2>1, Zenon
  <1>12. /\ Len(gens) = n + 1 /\ DOMAIN gens = 1..(n + 1) /\ gens[1] = src
         /\ \A j \in 1..n : gens[j + 1] = r[j]
    BY <1>6, <1>10, <1>11, Zenon
  <1>13. b = [j \in 1..(n + 1) |-> b[j]]
    <2>1. b \in Seq(S)
      BY <1>6, <1>9, <1>10
    <2> QED
      BY <1>6, <1>11, <2>1
  <1>14. gens = [j \in 1..(n + 1) |-> gens[j]]
    BY <1>10, <1>13
  <1> QED
    BY <1>3, <1>12, <1>14, Zenon DEF last, n

(* What is typed V yields no Nothing: a source of values, or a generator   *)
(* of a class that has no end of its own.                                  *)
LEMMA PlainIs ==
  ASSUME NEW ops \in Seq(Operations), NEW type \in Kinds, NEW src,
         gens = <<src>> \o Operators(ops, type), type \in SourceTypes(items),
         items \in Seq(Item),
         Compiles(ops, type), NEW i \in 1..Len(ops), Types(ops, type)[i] = "plain"
  PROVE  Plain(i)
  <1>1. Types(ops, type)[1] = type
    BY TypesAre, Zenon
  <1>2. CASE i = 1
    <2>1. type # "maybe"
      BY <1>1, <1>2
    <2>2. ~Contains(items, Nothing)
      BY <2>1 DEF SourceTypes
    <2>3. Nothing \notin {items[k] : k \in DOMAIN items}
      BY <2>2 DEF Contains
    <2> QED
      BY <1>2, <2>3 DEF Plain
  <1>3. CASE i # 1
    <2> DEFINE j == i - 1
    <2>1. j \in DOMAIN ops /\ j + 1 = i /\ j \in 1..Len(ops)
      BY <1>3
    <2> HIDE DEF j
    <2>2. Types(ops, type)[i] = YieldType(ops[j], Types(ops, type)[j])
          /\ Types(ops, type)[j] \in Kinds
      BY <2>1, TypesAre
    <2>3. ops[j] \in Operations
      BY <2>1
    <2>4. /\ ops[j] \notin {"explode", "thenMaybe"}
          /\ ops[j] = "implode" \/ Types(ops, type)[j] = "plain"
      BY <2>2 DEF YieldType
    <2>5. gens[i] = Operator(ops[j], ClassOf(ops[j], Types(ops, type)[j]))
      BY <2>1, PipelineIs
    <2>6. PICK c : c = ClassOf(ops[j], Types(ops, type)[j])
      OBVIOUS
    <2>10. gens[i].op = ops[j] /\ gens[i].class = c
      <3>1. PICK o : o = ops[j]
        OBVIOUS
      <3>2. PICK g : g = gens[i]
        OBVIOUS
      <3>3. g = Operator(o, c)
        BY <2>5, <2>6, <3>1, <3>2, Zenon
      <3>4. g.op = o /\ g.class = c
        BY <3>3 DEF Operator
      <3> QED
        BY <3>1, <3>2, <3>4
    <2>7. Types(ops, type)[j] \in Kinds /\ (Types(ops, type)[j] # "plain" => ops[j] = "implode")
      BY <2>2, <2>4
    <2>8. ops[j] \in {"then", "thenFuture", "implode"}
      BY <2>3, <2>4 DEF Operations
    <2>9. CASE ops[j] = "implode"
      <3>1. c = "IM"
        BY <2>6, <2>7, <2>9, ClassIs
      <3> QED
        BY <2>10, <3>1 DEF Plain
    <2>11. ASSUME ops[j] # "implode" PROVE Types(ops, type)[j] = "plain"
      BY <2>7, <2>11
    <2>12. CASE ops[j] = "then"
      <3>1. c = "0"
        BY <2>6, <2>11, <2>12, ClassIs
      <3> QED
        BY <2>10, <2>12, <3>1 DEF Plain
    <2>13. CASE ops[j] = "thenFuture"
      <3>1. c = "F"
        BY <2>6, <2>11, <2>13, ClassIs
      <3> QED
        BY <2>10, <3>1 DEF Plain
    <2> QED
      BY <2>8, <2>9, <2>12, <2>13
  <1> QED
    BY <1>2, <1>3

(* The class that the overloads choose fits the operation, and one without *)
(* M is chosen for V only.                                                 *)
LEMMA ClassFits ==
  ASSUME NEW op \in Operations, NEW type \in Kinds, NEW g,
         g.op = op, g.class = ClassOf(op, type), op = "thenFuture" => type = "plain"
  PROVE  /\ Fits(g) /\ g.class \in {"0", "MM", "F", "X", "XM", "IM"}
         /\ g.class \in {"0", "F", "X"} => type = "plain"
  <1>1. /\ g.class \in {"0", "MM"} /\ g.op \in {"then", "thenMaybe"} => Fits(g)
        /\ g.class = "F" /\ g.op = "thenFuture" => Fits(g)
        /\ g.class \in {"X", "XM"} /\ g.op = "explode" => Fits(g)
        /\ g.class = "IM" /\ g.op = "implode" => Fits(g)
    <2>1. g.class \in {"0", "MM"} => Fits(g) = (g.op \in {"then", "thenMaybe"})
      BY Zenon DEF Fits
    <2>2. g.class = "F" => Fits(g) = (g.op = "thenFuture")
      BY Zenon DEF Fits
    <2>4. g.class \in {"X", "XM"} => Fits(g) = (g.op = "explode")
      BY Zenon DEF Fits
    <2>5. g.class = "IM" => Fits(g) = (g.op = "implode")
      BY Zenon DEF Fits
    <2> QED
      BY <2>1, <2>2, <2>4, <2>5
  <1>2. CASE op = "implode"
    <2>1. g.class = "IM"
      BY <1>2, ClassIs
    <2> QED
      BY <1>1, <1>2, <2>1
  <1>3. CASE op = "explode"
    <2>1. g.class = IF type = "plain" THEN "X" ELSE "XM"
      BY <1>3, ClassIs DEF Kinds
    <2> QED
      BY <1>1, <1>3, <2>1
  <1>5. CASE op = "thenFuture"
    <2>1. g.class = "F" /\ type = "plain"
      BY <1>5, ClassIs
    <2> QED
      BY <1>1, <1>5, <2>1
  <1>6. CASE op \in {"then", "thenMaybe"}
    <2>1. g.class = IF type = "plain" THEN "0" ELSE "MM"
      BY <1>6, ClassIs DEF Kinds
    <2> QED
      BY <1>1, <1>6, <2>1
  <1> QED
    BY <1>2, <1>3, <1>5, <1>6 DEF Operations

(* The source as it is when the pipeline is built: a lambdagen of all the  *)
(* items, or an outside future completed with one.                         *)
Begins(src) ==
  /\ src \in GeneratorRecord /\ src.class = "L" /\ src.state = "I"
  /\ \/ src.left = items /\ ~src.completed
     \/ src.left = <<>> /\ src.completed /\ src.val = items[1] /\ Len(items) = 1

(* Both of the sources that Init allows begin like that.                   *)
LEMMA BeginsIs ==
  ASSUME items \in Seq(Item)
  PROVE  /\ Begins(Lambdagen(items))
         /\ Len(items) = 1 => Begins(CompletedFuture(items))
  <1> DEFINE o == Operator("source", "L")
  <1>1. /\ o \in GeneratorRecord /\ o.class = "L" /\ o.state = "I" /\ o.completed = FALSE
        /\ o.left = <<>>
    BY FunctionsAssumption DEF Operator, GeneratorRecord, Rest, Item
  <1> HIDE DEF o
  <1>2. Begins([o EXCEPT !.left = items])
    <2>1. PICK g : g = [o EXCEPT !.left = items]
      OBVIOUS
    <2>2. /\ g \in GeneratorRecord /\ g.class = "L" /\ g.state = "I" /\ g.completed = FALSE
          /\ g.left = items
      BY <1>1, <2>1 DEF GeneratorRecord
    <2> QED
      BY <2>1, <2>2 DEF Begins
  <1>3. ASSUME Len(items) = 1
        PROVE  Begins([o EXCEPT !.completed = TRUE, !.val = items[1]])
    <2>1. PICK g : g = [o EXCEPT !.completed = TRUE, !.val = items[1]]
      OBVIOUS
    <2>2. items[1] \in Item
      BY <1>3
    <2>3. /\ g \in GeneratorRecord /\ g.class = "L" /\ g.state = "I" /\ g.completed = TRUE
          /\ g.left = <<>> /\ g.val = items[1]
      BY <1>1, <2>1, <2>2 DEF GeneratorRecord
    <2> QED
      BY <1>3, <2>1, <2>3 DEF Begins
  <1> QED
    BY <1>2, <1>3 DEF o, Lambdagen, CompletedFuture

(* A pipeline that was just built satisfies the invariant.                 *)
LEMMA InitInv == Init => IInv
  <1> SUFFICES ASSUME Init PROVE IInv
    OBVIOUS
  <1>1. /\ items \in Seq(Item) /\ items # <<>>
        /\ task = 0 /\ inner = FALSE /\ asked = 0 /\ out = <<>>
    BY PipelinesAssumption DEF Init, Item
  <1>2. PICK type, ops, src : /\ type \in SourceTypes(items) /\ ops \in Pipelines
                              /\ Compiles(ops, type) /\ Begins(src)
                              /\ gens = <<src>> \o Operators(ops, type)
    BY <1>1, BeginsIs, Zenon DEF Init
  <1>3. type \in Kinds /\ ops \in Seq(Operations) /\ ops # <<>>
    BY <1>2, PipelinesAssumption DEF SourceTypes, Kinds
  <1> DEFINE n == Len(ops)
  <1>4. n \in Nat /\ n > 0 /\ DOMAIN ops = 1..n
    BY <1>3
  <1>5. /\ last = n + 1 /\ gens = [j \in 1..last |-> gens[j]] /\ gens[1] = src
        /\ \A j \in 1..n : gens[j + 1] = Operator(ops[j], ClassOf(ops[j], Types(ops, type)[j]))
    BY <1>2, <1>3, PipelineIs
  <1> HIDE DEF n
  <1>6. last \in Nat /\ last > 1 /\ 1 \in 1..last
    BY <1>4, <1>5
  <1>7. ASSUME NEW i \in 2..last
        PROVE  /\ gens[i] \in GeneratorRecord /\ gens[i].state = "I" /\ gens[i].completed = FALSE
               /\ gens[i].left = <<>> /\ gens[i].acc = Empty
               /\ gens[i].op \in Operations /\ Fits(gens[i])
               /\ gens[i].class \in {"0", "F", "X"} => Plain(i - 1)
    <2>1. PICK j : j = i - 1
      OBVIOUS
    <2>2. j \in 1..n /\ i = j + 1
      BY <1>4, <1>5, <2>1
    <2>3. ops[j] \in Operations /\ Types(ops, type)[j] \in Kinds
      BY <1>3, <1>4, <2>2, TypesAre
    <2>4. PICK o, c, t : /\ o = ops[j] /\ t = Types(ops, type)[j] /\ c = ClassOf(o, t)
      OBVIOUS
    <2>5. PICK g : g = gens[i]
      OBVIOUS
    <2>6. g = Operator(o, c)
      BY <1>5, <2>2, <2>4, <2>5, Zenon
    <2>7. /\ g.op = o /\ g.class = c /\ g.state = "I" /\ g.completed = FALSE
          /\ g.left = <<>> /\ g.acc = Empty
      BY <2>6 DEF Operator
    <2>8. o \in Operations /\ t \in Kinds
      BY <2>3, <2>4
    <2>9. /\ Fits(g) /\ c \in {"0", "MM", "F", "X", "XM", "IM"}
          /\ c \in {"0", "F", "X"} => t = "plain"
      <3>1. g.class = ClassOf(o, t) /\ g.op = o
        BY <2>4, <2>7
      <3>2. /\ Fits(g) /\ g.class \in {"0", "MM", "F", "X", "XM", "IM"}
            /\ g.class \in {"0", "F", "X"} => t = "plain"
        <4>1. o = "thenFuture" => t = "plain"
          <5>1. j \in DOMAIN ops
            BY <1>3, <2>2 DEF n
          <5> QED
            BY <1>2, <2>4, <5>1 DEF Compiles
        <4> QED
          BY <2>8, <3>1, <4>1, ClassFits
      <3> QED
        BY <2>7, <3>2
    <2>10. g \in GeneratorRecord
      BY <2>6, <2>8, <2>9, FunctionsAssumption DEF Operator, GeneratorRecord, Rest, Item
    <2>11. t = "plain" => Plain(j)
      <3>1. j \in 1..Len(ops)
        BY <2>2 DEF n
      <3> QED
        BY <1>1, <1>2, <1>3, <2>4, <3>1, PlainIs
    <2> QED
      BY <2>1, <2>5, <2>7, <2>8, <2>9, <2>10, <2>11
  <1>8. Begins(gens[1])
    BY <1>2, <1>5
  <1>9. Typed
    <2>1. \A j \in 1..last : j = 1 \/ j \in 2..last
      BY <1>6
    <2>2. \A j \in 1..last : gens[j] \in GeneratorRecord
      BY <1>7, <1>8, <2>1 DEF Begins
    <2>3. gens \in Seq(GeneratorRecord)
      BY <1>5, <1>6, <2>2
    <2>4. <<>> \in Seq(Item) /\ 0 \in Nat /\ 0 \in 0..last
      BY <1>6
    <2>5. items \in Seq(Item) /\ out \in Seq(Item) /\ asked \in Nat /\ task \in 0..last
      BY <1>1, <2>4, Zenon
    <2> QED
      BY <1>1, <1>6, <2>3, <2>5 DEF Typed
  <1>10. Built
    BY <1>7, <1>8 DEF Built, Begins
  <1>11. Control
    <2>1. ASSUME NEW i \in 2..last PROVE Placed(i)
      <3>1. gens[i].state = "I" /\ gens[i].completed = FALSE /\ gens[i].left = <<>>
        BY <1>7
      <3>2. <<>> \in Seq(Values) /\ i # 0
        OBVIOUS
      <3> QED
        BY <1>1, <3>1, <3>2, Zenon DEF Placed, Rest, Awaiting
    <2>2. gens[1].completed <=> gens[1].left = <<>>
      BY <1>1, <1>8 DEF Begins
    <2> QED
      BY <1>1, <2>1, <2>2 DEF Control
  <1>12. /\ Len(gens[1].left) <= Len(items)
         /\ gens[1].left = SubSeq(items, Taken + 1, Len(items))
         /\ Things(SubSeq(items, 1, Taken)) = IF gens[1].completed THEN Thing(gens[1].val) ELSE <<>>
    <2>1. PICK l, k : l = gens[1].left /\ k = Taken
      OBVIOUS
    <2>2. k = Len(items) - Len(l)
      BY <2>1 DEF Taken
    <2>3. CASE l = items /\ ~gens[1].completed
      <3>1. k = 0 /\ Len(l) <= Len(items)
        BY <1>1, <2>2, <2>3
      <3>2. SubSeq(items, 1, Len(items)) = items /\ SubSeq(items, 1, 0) = <<>>
        BY <1>1
      <3>3. l = SubSeq(items, k + 1, Len(items)) /\ SubSeq(items, 1, k) = <<>>
        BY <2>3, <3>1, <3>2
      <3>4. Things(SubSeq(items, 1, k)) = <<>>
        BY <3>3, ThingsAre
      <3> QED
        BY <2>1, <2>3, <3>1, <3>3, <3>4, Zenon
    <2>4. CASE l = <<>> /\ gens[1].completed /\ gens[1].val = items[1] /\ Len(items) = 1
      <3>1. k = 1 /\ Len(l) <= Len(items)
        BY <1>1, <2>2, <2>4
      <3>2. SubSeq(items, 2, 1) = <<>>
        BY <1>1
      <3>3. items[1] \in Item /\ <<>> \in Seq(Item)
        BY <1>1, <2>4
      <3>4. SubSeq(items, 1, 1) = Append(<<>>, items[1])
        <4>1. SubSeq(items, 1, 0 + 1) = Append(SubSeq(items, 1, 0), items[0 + 1])
          BY <1>1, <2>4, Cut
        <4>2. SubSeq(items, 1, 0) = <<>>
          BY <1>1
        <4>3. 0 + 1 = 1
          OBVIOUS
        <4> QED
          BY <4>1, <4>2, <4>3, Zenon
      <3>5. Things(Append(<<>>, items[1])) = Things(<<>>) \o Thing(items[1])
        BY <3>3, ThingsAre
      <3>6. Things(<<>>) = <<>> /\ Thing(items[1]) \in Seq(Values)
        BY <3>3, ThingsAre, ThingIs
      <3>7. <<>> \o Thing(items[1]) = Thing(items[1])
        BY <3>6
      <3>8. Things(SubSeq(items, 1, k)) = Thing(gens[1].val)
        BY <2>4, <3>1, <3>4, <3>5, <3>6, <3>7
      <3>9. l = SubSeq(items, k + 1, Len(items))
        BY <2>4, <3>1, <3>2
      <3> QED
        BY <2>1, <2>4, <3>1, <3>8, <3>9, Zenon
    <2> QED
      BY <1>8, <2>1, <2>3, <2>4 DEF Begins
  <1>13. Sourced
    BY <1>12 DEF Sourced
  <1>14. Answered
    BY <1>1 DEF Answered
  <1> DEFINE t1 == Things(SubSeq(items, 1, Taken))
  <1> DEFINE W == [i \in 1..last |-> IF i = 1 THEN t1 ELSE <<>>]
  <1> DEFINE D == [i \in 1..last |-> <<>>]
  <1>15. gens[1].val \in Item /\ Thing(gens[1].val) \in Seq(Values) /\ t1 \in Seq(Values)
    <2>1. gens[1].val \in Item
      BY <1>8 DEF Begins, GeneratorRecord
    <2>2. Thing(gens[1].val) \in Seq(Values)
      BY <2>1, ThingIs
    <2>3. <<>> \in Seq(Values)
      OBVIOUS
    <2> QED
      BY <1>12, <2>1, <2>2, <2>3
  <1>16. /\ W \in [1..last -> Seq(Values)] /\ D \in [1..last -> Seq(Values)]
         /\ W[1] = t1 /\ \A i \in 2..last : W[i] = <<>> /\ D[i] = <<>>
    <2> HIDE DEF t1
    <2>1. <<>> \in Seq(Values) /\ t1 \in Seq(Values)
      BY <1>15
    <2> QED
      BY <1>6, <2>1
  <1> HIDE DEF W, D
  <1>17. ASSUME NEW i \in 2..last PROVE Passed(i, W, D)
    <2>1. W[i] = <<>> /\ D[i] = <<>>
      BY <1>16
    <2>2. Made(gens[i], inner, D[i], W[i])
      <3>1. Flat(Pieces(gens[i].op), <<>>) = <<>> /\ Imploded(<<>>) = Empty
        BY FlatEmpty, ImplodeEmpty, Zenon
      <3>2. Held(gens[i], inner) = <<>>
        BY <1>7 DEF Held
      <3>3. <<>> \o <<>> = <<>>
        OBVIOUS
      <3> QED
        BY <1>7, <2>1, <3>1, <3>2, <3>3 DEF Made
    <2>3. CASE i = 2
      <3>1. Pending(2) <=> gens[1].completed
        <4>1. gens[2].state = "I" /\ 2 - 1 = 1 /\ task # 2
          <5>1. 2 \in 2..last /\ 2 - 1 = 1 /\ 0 # 2
            BY <1>6
          <5> QED
            BY <1>1, <1>7, <5>1, Zenon
        <4> QED
          BY <4>1, Zenon DEF Pending
      <3>2. W[1] = Offered(2)
        BY <1>12, <1>16, <3>1 DEF Offered
      <3>3. Offered(2) \in Seq(Values)
        BY <1>15, <1>16, <3>2
      <3>4. W[1] = <<>> \o Offered(2)
        BY <3>2, <3>3
      <3>5. ASSUME Pending(2), Plain(1) PROVE gens[1].val \in Values
        <4>1. gens[1].val = items[1] /\ Len(items) = 1
          BY <1>8, <3>1, <3>5 DEF Begins
        <4>2. Nothing \notin {items[k] : k \in DOMAIN items}
          BY <1>8, <3>5 DEF Plain, Begins
        <4>3. items[1] # Nothing
          BY <1>1, <4>1, <4>2
        <4> QED
          BY <1>15, <4>1, <4>3 DEF Item
      <3> QED
        BY <2>1, <2>2, <2>3, <3>4, <3>5 DEF Passed
    <2>4. CASE i # 2
      <3>1. i - 1 \in 2..last
        BY <1>6, <2>4
      <3>2. ~Pending(i)
        <4>1. gens[i-1].completed = FALSE /\ i # 0
          <5>1. i # 0
            OBVIOUS
          <5> QED
            BY <1>7, <3>1, <5>1, Zenon
        <4> QED
          BY <1>1, <4>1, Zenon DEF Pending
      <3>3. W[i-1] = <<>> /\ <<>> \o <<>> = <<>>
        BY <1>16, <3>1
      <3> QED
        BY <2>1, <2>2, <3>2, <3>3 DEF Passed, Offered
    <2> QED
      BY <2>3, <2>4
  <1>18. Streamed(W, D)
    <2>1. W[last] = Things(out)
      BY <1>1, <1>6, <1>16, ThingsAre
    <2> QED
      BY <1>16, <1>17, <2>1 DEF Streamed
  <1> QED
    BY <1>9, <1>10, <1>11, <1>13, <1>14, <1>18 DEF IInv

(* For every choice of functions, pipelines and sources: what each         *)
(* generator has taken and yielded is what its operation makes of the one  *)
(* before, wherever the engine is.                                         *)
THEOREM Invariance == Spec => []IInv
  <1> QED
    BY InitInv, StepInv, PTL DEF Spec

(* "case State::Fi: //Never" (engine.hpp:68, 167, 443): the engine resumes *)
(* no generator, and no future in *nxt, that is done.                      *)
THEOREM NeverResumed == Spec => []NeverResumedWhenDone
  <1>1. IInv => NeverResumedWhenDone
    <2> SUFFICES ASSUME IInv, task # 0
                 PROVE  IF inner THEN gens[task].left # <<>> ELSE ~done(gens[task])
      BY DEF NeverResumedWhenDone
    <2>1. Typed /\ Built /\ Control
      BY DEF IInv
    <2>2. task \in 1..last
      BY <2>1 DEF Typed
    <2>3. CASE inner
      BY <2>1, <2>3 DEF Control
    <2>4. CASE ~inner /\ task = 1
      <3>1. gens[1].class = "L" /\ gens[1].left # <<>>
        BY <2>1, <2>4 DEF Built, Control
      <3>2. done(gens[1]) = (gens[1].left = <<>>)
        BY <3>1, Zenon DEF done
      <3> QED
        BY <2>4, <3>1, <3>2
    <2>5. CASE ~inner /\ task # 1
      <3>1. task \in 2..last
        BY <2>2, <2>5
      <3>2. gens[task].state # "Fi"
        BY <2>1, <3>1 DEF Control, Placed
      <3>3. gens[task].class # "L" /\ gens[task].class # "C"
        BY <2>1, <3>1, Zenon DEF Built, Fits
      <3>4. done(gens[task]) = (gens[task].state = "Fi")
        BY <3>3, Zenon DEF done
      <3> QED
        BY <2>5, <3>2, <3>4
    <2> QED
      BY <2>3, <2>4, <2>5
  <1> QED
    BY <1>1, Invariance, PTL

(* Operators on V? yield Nothing only as their last value, when they are   *)
(* Completed (engine.hpp:80, 179, 293, 337).                               *)
THEOREM NothingEnds == Spec => []NothingOnlyEnds
  <1>1. IInv => NothingOnlyEnds
    BY DEF IInv, Answered, NothingOnlyEnds
  <1> QED
    BY <1>1, Invariance, PTL

(* A stream is a prefix of itself with what is to come.                    *)
LEMMA PrefixIs ==
  ASSUME NEW S, NEW s \in Seq(S), NEW r \in Seq(S)
  PROVE  IsPrefix(s, s \o r)
  <1> DEFINE t == s \o r
  <1> DEFINE k == Len(s)
  <1>1. k \in Nat /\ Len(r) \in Nat /\ t \in Seq(S) /\ Len(t) = k + Len(r)
        /\ \A i \in 1..k : t[i] = s[i]
    OBVIOUS
  <1> HIDE DEF t
  <1>2. SubSeq(s, 1, k) = s
    OBVIOUS
  <1>3. SubSeq(t, 1, k) = s
    BY <1>1
  <1> QED
    BY <1>1, <1>2, <1>3 DEF IsPrefix, t

(* The operations of the pipeline, ...                                     *)
Ops == [i \in DOMAIN gens |-> gens[i].op]

(* ... which are what Through is applied to.                               *)
LEMMA OpsAre ==
  ASSUME Typed, Built, Control
  PROVE  /\ Pipeline(Ops, last) /\ last \in Nat /\ last > 0
         /\ \A i \in 2..last : Ops[i] = gens[i].op
  <1>1. last \in Nat /\ last > 0 /\ DOMAIN gens = 1..last
    BY DEF Typed, last
  <1>2. \A i \in 2..last : gens[i].op \in Operations /\ i \in 1..last
    BY <1>1, BuiltIs
  <1> QED
    BY <1>1, <1>2 DEF Ops, Pipeline

(* z is w and a rest, which is empty if nothing of h, x and y is there.    *)
Rests(w, h, x, y, z) ==
  \E r \in Seq(Values) : /\ z = w \o r
                         /\ (h = <<>> /\ x = <<>> /\ y = <<>>) => r = <<>>

(* Four parts regrouped into the first and the rest.                       *)
LEMMA Regroups ==
  \A S : \A w, h, x, y, z \in Seq(S) :
     z = ((w \o h) \o x) \o y =>
       \E r \in Seq(S) : /\ z = w \o r
                         /\ (h = <<>> /\ x = <<>> /\ y = <<>>) => r = <<>>
  <1> TAKE S
  <1>0. \A a, b, c \in Seq(S) : a \o (b \o c) = (a \o b) \o c
    OBVIOUS
  <1> TAKE w, h, x, y, z \in Seq(S)
  <1> HAVE z = ((w \o h) \o x) \o y
  <1>1. PICK u, v : u = w \o h /\ v = x \o y
    OBVIOUS
  <1>2. u \in Seq(S) /\ v \in Seq(S)
    BY <1>1
  <1>3. u \o (x \o y) = (u \o x) \o y
    <2>1. \A a \in Seq(S) : a \o (x \o y) = (a \o x) \o y
      BY <1>0
    <2> QED
      BY <1>2, <2>1, Zenon
  <1>4. w \o (h \o v) = (w \o h) \o v
    BY <1>0, <1>2
  <1>5. z = w \o (h \o v)
    BY <1>1, <1>3, <1>4, Zenon
  <1>6. (h = <<>> /\ x = <<>> /\ y = <<>>) => h \o v = <<>>
    BY <1>1
  <1>7. h \o v \in Seq(S)
    BY <1>2
  <1> QED
    BY <1>5, <1>6, <1>7

(* w is a part of f, and all of it if c holds.                             *)
Partly(w, f, c) == \E r \in Seq(Values) : f = w \o r /\ (c => r = <<>>)

(* If what gens[i-1] yielded is a part of what was promised to gens[i],    *)
(* then so is what gens[i] yielded of what it promises.                    *)
LEMMA PartlyMade ==
  ASSUME Typed, Built, Control, NEW W, NEW D, Streamed(W, D), NEW i \in 2..last,
         NEW f, Partly(W[i-1], f, gens[i-1].completed)
  PROVE  Partly(W[i], Transformed(gens[i].op, f, TRUE), gens[i].completed)
  <1> DEFINE op == gens[i].op
  <1> DEFINE held == Held(gens[i], inner)
  <1> DEFINE o == Offered(i)
  <1>1. i \in 1..last /\ i - 1 \in 1..last /\ op \in Operations /\ Placed(i)
    BY BuiltIs, Zenon DEF Control
  <1>2. W[i] \in Seq(Values) /\ W[i-1] \in Seq(Values) /\ D[i] \in Seq(Values)
    BY <1>1 DEF Streamed
  <1>3. W[i-1] = D[i] \o o /\ Made(gens[i], inner, D[i], W[i])
    BY DEF Streamed, Passed
  <1>4. PICK r \in Seq(Values) : f = W[i-1] \o r /\ (gens[i-1].completed => r = <<>>)
    BY DEF Partly
  <1>5. o \in Seq(Values)
    <2>1. gens[i-1].val \in Item
      BY <1>1, RecordIs DEF GeneratorRecord
    <2>2. Thing(gens[i-1].val) \in Seq(Values)
      BY <2>1, ThingIs
    <2> QED
      BY <2>2 DEF Offered
  <1>6. gens[i].completed => o = <<>> /\ held = <<>> /\ r = <<>> /\ gens[i].state = "Fi"
    <2>1. gens[i].completed => gens[i].state = "Fi" /\ gens[i-1].completed
      BY <1>1 DEF Placed
    <2>2. gens[i].state = "Fi" => ~Pending(i) /\ held = <<>>
      BY DEF Pending, Awaiting, Held
    <2> QED
      BY <1>4, <2>1, <2>2 DEF Offered
  <1>7. CASE op # "implode"
    <2> DEFINE F(s) == Flat(Pieces(op), s)
    <2>1. Cuts(Pieces(op), Values, Values)
      BY <1>1, <1>7, PiecesAre
    <2>2. \A s \in Seq(Values) : F(s) \in Seq(Values)
      BY <2>1, FlatType, Zenon
    <2>3. Splits(Pieces(op), Values)
      BY <2>1, FlatConcat, Zenon
    <2>4. \A s, t \in Seq(Values) : F(s \o t) = F(s) \o F(t)
      BY <2>3 DEF Splits
    <2>5. F(D[i]) = W[i] \o held
      BY <1>3, <1>7 DEF Made
    <2>6. F(<<>>) = <<>>
      BY FlatEmpty, Zenon
    <2>7. Transformed(op, f, TRUE) = F(f)
      BY <1>7 DEF Transformed
    <2> HIDE DEF F, op, held, o
    <2>8. PICK d, w, h : d = D[i] /\ w = W[i] /\ h = held
      OBVIOUS
    <2>9. h \in Seq(Values)
      BY <1>1, <2>8 DEF held, Held, Placed
    <2>10. /\ d \in Seq(Values) /\ w \in Seq(Values) /\ o \in Seq(Values) /\ r \in Seq(Values)
           /\ F(d) = w \o h /\ f = (d \o o) \o r
      BY <1>2, <1>3, <1>4, <1>5, <2>5, <2>8
    <2>11. d \o o \in Seq(Values)
      BY <2>10
    <2>12. F(f) = (F(d) \o F(o)) \o F(r) /\ F(o) \in Seq(Values) /\ F(r) \in Seq(Values)
      BY <2>2, <2>4, <2>10, <2>11, Zenon
    <2>13. PICK x, y : x = F(o) /\ y = F(r)
      OBVIOUS
    <2>14. x \in Seq(Values) /\ y \in Seq(Values) /\ F(f) = ((w \o h) \o x) \o y
      BY <2>10, <2>12, <2>13
    <2>15. PICK z : z = ((w \o h) \o x) \o y /\ F(f) = z
      BY <2>14
    <2>16. z \in Seq(Values)
      BY <2>9, <2>10, <2>14, <2>15
    <2>17. PICK q \in Seq(Values) : /\ z = w \o q
                                    /\ (h = <<>> /\ x = <<>> /\ y = <<>>) => q = <<>>
      <3>1. /\ w \in Seq(Values) /\ h \in Seq(Values) /\ x \in Seq(Values)
            /\ y \in Seq(Values) /\ z \in Seq(Values) /\ z = ((w \o h) \o x) \o y
        BY <2>9, <2>10, <2>14, <2>15, <2>16
      <3>2. \A a, b, c, k, e \in Seq(Values) : e = ((a \o b) \o c) \o k => Rests(a, b, c, k, e)
        BY Regroups, Zenon DEF Rests
      <3>3. Rests(w, h, x, y, z)
        BY <3>1, <3>2
      <3> QED
        BY <3>3 DEF Rests
    <2>18. gens[i].completed => q = <<>>
      <3> SUFFICES ASSUME gens[i].completed PROVE q = <<>>
        OBVIOUS
      <3>1. o = <<>> /\ held = <<>> /\ r = <<>>
        BY <1>6
      <3>2. h = <<>>
        BY <2>8, <3>1
      <3>3. x = <<>>
        BY <2>6, <2>13, <3>1
      <3>4. y = <<>>
        BY <2>6, <2>13, <3>1
      <3> QED
        BY <2>17, <3>2, <3>3, <3>4
    <2>19. F(f) = w \o q
      BY <2>15, <2>17
    <2> QED
      BY <2>7, <2>8, <2>18, <2>19 DEF Partly, op
  <1>8. CASE op = "implode"
    <2>1. gens[i].acc = Imploded(D[i])
          /\ W[i] = IF gens[i].state = "Fi" THEN <<gens[i].acc>> ELSE <<>>
      BY <1>3, <1>8 DEF Made
    <2>2. Transformed(op, f, TRUE) = <<Imploded(f)>>
      BY <1>8 DEF Transformed
    <2>3. f \in Seq(Values)
      BY <1>2, <1>4
    <2>4. Imploded(f) \in Values
      BY <2>3, Implodes
    <2>5. CASE gens[i].completed
      <3>1. f = D[i]
        BY <1>2, <1>3, <1>4, <1>6, <2>5
      <3>2. W[i] = <<Imploded(f)>>
        BY <1>6, <2>1, <2>5, <3>1
      <3>3. <<Imploded(f)>> = <<Imploded(f)>> \o <<>> /\ <<>> \in Seq(Values)
        BY <2>4
      <3> QED
        BY <2>2, <3>2, <3>3 DEF Partly
    <2>6. CASE ~gens[i].completed
      <3>1. W[i] = <<>>
        BY <1>1, <2>1, <2>6 DEF Placed
      <3>2. <<Imploded(f)>> = <<>> \o <<Imploded(f)>> /\ <<Imploded(f)>> \in Seq(Values)
        BY <2>4
      <3> QED
        BY <2>2, <2>6, <3>1, <3>2 DEF Partly
    <2> QED
      BY <2>5, <2>6
  <1> QED
    BY <1>7, <1>8

(* engine.hpp:27-34: for every pipeline and source, what the client is     *)
(* given is a prefix of what the operations promise, in order, and all of  *)
(* it when the pipeline is Completed.                                      *)
THEOREM YieldsRight == Spec => []YieldsWhatIsPromised
  <1>1. IInv => YieldsWhatIsPromised
    <2> SUFFICES ASSUME IInv PROVE YieldsWhatIsPromised
      OBVIOUS
    <2>1. Typed /\ Built /\ Control /\ Sourced
      BY DEF IInv
    <2>2. PICK W, D : Streamed(W, D)
      BY DEF IInv
    <2>3. /\ Pipeline(Ops, last) /\ last \in Nat /\ last > 0
          /\ \A i \in 2..last : Ops[i] = gens[i].op
      BY <2>1, OpsAre
    <2>4. items \in Seq(Item) /\ out \in Seq(Item)
      BY <2>1 DEF Typed
    <2>5. PICK f : Promises(Ops, items, TRUE, f) /\ Through(Ops, items, TRUE) = f[last]
      <3>1. PICK e : e = TRUE
        OBVIOUS
      <3>2. \E f : Promises(Ops, items, e, f) /\ Through(Ops, items, e) = f[last]
        BY <2>3, <2>4, ThroughIs
      <3> QED
        BY <3>1, <3>2
    <2>6. f[1] = Things(items) /\ \A i \in 2..last : f[i] = Transformed(gens[i].op, f[i-1], TRUE)
      BY <2>3, <2>5 DEF Promises, Pipeline
    <2> DEFINE T == {k \in Nat : k + 1 \in 1..last =>
                                   Partly(W[k+1], f[k+1], gens[k+1].completed)}
    <2>7. 0 \in T
      <3>1. Partly(W[1], f[1], gens[1].completed)
        <4>1. gens[1].left \in Seq(Item) /\ (gens[1].completed => gens[1].left = <<>>)
          BY <2>1, <2>3, RecordIs DEF Control, GeneratorRecord
        <4>2. Taken \in 0..Len(items)
          BY <2>1, <2>4, <4>1 DEF Sourced, Taken
        <4>3. /\ SubSeq(items, 1, Taken) \in Seq(Item)
              /\ SubSeq(items, 1, Taken) \o gens[1].left = items
          BY <2>1, <2>4, <4>2, Cut DEF Sourced
        <4>4. /\ Things(items) = Things(SubSeq(items, 1, Taken)) \o Things(gens[1].left)
              /\ Things(gens[1].left) \in Seq(Values)
          BY <4>1, <4>3, ThingsAre
        <4>5. gens[1].completed => Things(gens[1].left) = <<>>
          BY <4>1, ThingsAre
        <4> QED
          BY <2>2, <2>6, <4>4, <4>5 DEF Partly, Streamed
      <3> QED
        BY <3>1
    <2>8. ASSUME NEW k \in Nat, k \in T PROVE k + 1 \in T
      <3> SUFFICES ASSUME (k + 1) + 1 \in 1..last
                   PROVE  Partly(W[(k + 1) + 1], f[(k + 1) + 1], gens[(k + 1) + 1].completed)
        OBVIOUS
      <3>1. PICK i : i = (k + 1) + 1
        OBVIOUS
      <3>2. i \in 2..last /\ i - 1 = k + 1 /\ k + 1 \in 1..last
        BY <2>3, <3>1
      <3>3. Partly(W[i-1], f[i-1], gens[i-1].completed)
        BY <2>8, <3>2
      <3>4. Partly(W[i], f[i], gens[i].completed)
        BY <2>1, <2>2, <2>6, <3>2, <3>3, PartlyMade
      <3> QED
        BY <3>1, <3>4
    <2>9. \A k \in Nat : k \in T
      <3> HIDE DEF T
      <3> QED
        BY <2>7, <2>8, Induct
    <2>10. Partly(W[last], f[last], gens[last].completed)
      <3>1. last - 1 \in Nat /\ (last - 1) + 1 = last /\ last \in 1..last
        BY <2>3
      <3> QED
        BY <2>9, <3>1
    <2>11. PICK r \in Seq(Values) : /\ f[last] = Things(out) \o r
                                    /\ gens[last].completed => r = <<>>
      BY <2>2, <2>10 DEF Partly, Streamed
    <2>12. Things(out) \in Seq(Values)
      BY <2>4, ThingsAre
    <2>13. IsPrefix(Things(out), f[last])
      BY <2>11, <2>12, PrefixIs
    <2>14. gens[last].completed => Things(out) = f[last]
      BY <2>11, <2>12
    <2>15. Promised(items, TRUE) = f[last]
      BY <2>5 DEF Promised, Ops
    <2> QED
      BY <2>13, <2>14, <2>15 DEF YieldsWhatIsPromised
  <1> QED
    BY <1>1, Invariance, PTL

(* There are no more things than items.                                    *)
LEMMA FewThings ==
  ASSUME NEW r \in Seq(Item)
  PROVE  Len(Things(r)) \in Nat /\ Len(Things(r)) <= Len(r)
  <1> DEFINE T == {n \in Nat : \A s \in Seq(Item) : Len(s) = n => Len(Things(s)) <= n}
  <1>1. 0 \in T
    <2>1. ASSUME NEW s \in Seq(Item), Len(s) = 0 PROVE Len(Things(s)) <= 0
      <3>1. s = <<>>
        BY <2>1
      <3>2. Things(s) = <<>>
        BY <3>1, ThingsAre
      <3> QED
        BY <3>2
    <2> QED
      BY <2>1
  <1>2. ASSUME NEW n \in Nat, n \in T PROVE n + 1 \in T
    <2>1. ASSUME NEW s \in Seq(Item), Len(s) = n + 1 PROVE Len(Things(s)) <= n + 1
      <3>1. PICK a, v : a = SubSeq(s, 1, n) /\ v = s[n + 1]
        OBVIOUS
      <3>2. n \in 0..Len(s) /\ n < Len(s)
        BY <2>1
      <3>3. a \in Seq(Item) /\ v \in Item /\ SubSeq(s, 1, n + 1) = Append(a, v)
        BY <3>1, <3>2, Cut
      <3>4. SubSeq(s, 1, n + 1) = s /\ Len(a) = n
        BY <2>1, <3>1
      <3>5. Things(s) = Things(a) \o Thing(v) /\ Things(a) \in Seq(Values)
        <4>1. Things(Append(a, v)) = Things(a) \o Thing(v) /\ Things(a) \in Seq(Values)
          BY <3>3, ThingsAre, Zenon
        <4> QED
          BY <3>3, <3>4, <4>1
      <3>6. Thing(v) \in Seq(Values) /\ Len(Thing(v)) <= 1
        BY <3>3, ThingIs DEF Thing
      <3>7. Len(Things(a)) <= n
        BY <1>2, <3>3, <3>4
      <3>8. Len(Things(s)) = Len(Things(a)) + Len(Thing(v))
        BY <3>5, <3>6
      <3> QED
        BY <3>5, <3>6, <3>7, <3>8
    <2> QED
      BY <2>1
  <1>3. \A n \in Nat : n \in T
    <2> HIDE DEF T
    <2> QED
      BY <1>1, <1>2, Induct
  <1>4. Things(r) \in Seq(Values)
    BY ThingsAre
  <1> QED
    BY <1>3, <1>4

(* What the operations promise of s when more may come.                    *)
Sooner(ops, s) == Through(ops, s, FALSE)

(* When the source is resumed, everything that can be made of what it has  *)
(* yielded is with the client already.                                     *)
LEMMA AllDelivered ==
  ASSUME Typed, Built, Control, Sourced, NEW W, NEW D, Streamed(W, D), task = 1
  PROVE  Sooner(Ops, SubSeq(items, 1, Taken)) = Things(out)
  <1> DEFINE s == SubSeq(items, 1, Taken)
  <1>1. /\ Pipeline(Ops, last) /\ last \in Nat /\ last > 0
        /\ \A i \in 2..last : Ops[i] = gens[i].op
    BY OpsAre
  <1>2. s \in Seq(Item)
    <2>1. items \in Seq(Item)
      BY DEF Typed
    <2>2. gens[1].left \in Seq(Item)
      BY <1>1, RecordIs DEF GeneratorRecord
    <2>3. Taken \in 0..Len(items)
      BY <2>1, <2>2 DEF Sourced, Taken
    <2> QED
      BY <2>1, <2>3, Cut
  <1> HIDE DEF s
  <1>3. PICK f : Promises(Ops, s, FALSE, f) /\ Through(Ops, s, FALSE) = f[last]
    <2>1. PICK e : e = FALSE
      OBVIOUS
    <2>2. \A z \in Seq(Item) : \E f : Promises(Ops, z, e, f) /\ Through(Ops, z, e) = f[last]
      BY <1>1, ThroughIs
    <2> QED
      BY <1>2, <2>1, <2>2
  <1>4. f[1] = Things(s) /\ \A i \in 2..last : f[i] = Transformed(gens[i].op, f[i-1], FALSE)
    BY <1>1, <1>3 DEF Promises, Pipeline
  <1>5. ASSUME NEW i \in 2..last PROVE W[i] = Transformed(gens[i].op, W[i-1], FALSE)
    <2>1. gens[i].state \in Awaiting /\ i # 1
      BY DEF Control, Placed
    <2>2. ~Pending(i)
      BY <2>1 DEF Pending, Awaiting
    <2>3. /\ W[i] \in Seq(Values) /\ D[i] \in Seq(Values) /\ W[i-1] = D[i] \o <<>>
          /\ Made(gens[i], inner, D[i], W[i])
      <3>1. i \in 1..last /\ W \in [1..last -> Seq(Values)] /\ D \in [1..last -> Seq(Values)]
        BY <1>1 DEF Streamed
      <3>2. W[i-1] = D[i] \o <<>> /\ Made(gens[i], inner, D[i], W[i])
        BY <2>2 DEF Streamed, Passed, Offered
      <3> QED
        BY <3>1, <3>2
    <2>4. W[i-1] = D[i]
      BY <2>3
    <2>5. Held(gens[i], inner) = <<>> /\ gens[i].state # "Fi"
      BY <2>1 DEF Held, Awaiting
    <2>6. CASE gens[i].op = "implode"
      BY <2>3, <2>5, <2>6 DEF Made, Transformed
    <2>7. CASE gens[i].op # "implode"
      <3>1. Flat(Pieces(gens[i].op), D[i]) = W[i] \o <<>>
        BY <2>3, <2>5, <2>7 DEF Made
      <3>2. W[i] \o <<>> = W[i]
        BY <2>3
      <3> QED
        BY <2>4, <2>7, <3>1, <3>2 DEF Transformed
    <2> QED
      BY <2>6, <2>7
  <1> DEFINE T == {k \in Nat : k + 1 \in 1..last => W[k+1] = f[k+1]}
  <1>6. 0 \in T
    BY <1>4 DEF Streamed, s
  <1>7. ASSUME NEW k \in Nat, k \in T PROVE k + 1 \in T
    <2> SUFFICES ASSUME (k + 1) + 1 \in 1..last PROVE W[(k + 1) + 1] = f[(k + 1) + 1]
      OBVIOUS
    <2>1. PICK i : i = (k + 1) + 1
      OBVIOUS
    <2>2. i \in 2..last /\ i - 1 = k + 1 /\ k + 1 \in 1..last
      BY <1>1, <2>1
    <2>3. W[i-1] = f[i-1]
      BY <1>7, <2>2
    <2> QED
      BY <1>4, <1>5, <2>1, <2>2, <2>3
  <1>8. \A k \in Nat : k \in T
    <2> HIDE DEF T
    <2> QED
      BY <1>6, <1>7, Induct
  <1>9. W[last] = f[last]
    <2>1. last - 1 \in Nat /\ (last - 1) + 1 = last /\ last \in 1..last
      BY <1>1
    <2> QED
      BY <1>8, <2>1
  <1> QED
    BY <1>3, <1>9 DEF Streamed, Sooner, s

(* Of no item nothing is promised before the end.                          *)
LEMMA NothingPromised ==
  ASSUME Typed, Built, Control
  PROVE  Sooner(Ops, <<>>) = <<>>
  <1>1. /\ Pipeline(Ops, last) /\ last \in Nat /\ last > 0
        /\ \A i \in 2..last : Ops[i] = gens[i].op
    BY OpsAre
  <1>2. <<>> \in Seq(Item)
    OBVIOUS
  <1>3. PICK f : Promises(Ops, <<>>, FALSE, f) /\ Through(Ops, <<>>, FALSE) = f[last]
    <2>1. PICK e : e = FALSE
      OBVIOUS
    <2>2. PICK z \in Seq(Item) : z = <<>>
      BY <1>2
    <2>3. \E f : Promises(Ops, z, e, f) /\ Through(Ops, z, e) = f[last]
      BY <1>1, ThroughIs
    <2> QED
      BY <2>1, <2>2, <2>3
  <1>4. f[1] = <<>> /\ \A i \in 2..last : f[i] = Transformed(gens[i].op, f[i-1], FALSE)
    BY <1>1, <1>3, ThingsAre DEF Promises, Pipeline
  <1>5. \A op : Transformed(op, <<>>, FALSE) = <<>>
    <2>1. \A op : Flat(Pieces(op), <<>>) = <<>>
      BY FlatEmpty, Zenon
    <2> QED
      BY <2>1 DEF Transformed
  <1> DEFINE T == {k \in Nat : k + 1 \in 1..last => f[k+1] = <<>>}
  <1>6. 0 \in T
    BY <1>4
  <1>7. ASSUME NEW k \in Nat, k \in T PROVE k + 1 \in T
    <2> SUFFICES ASSUME (k + 1) + 1 \in 1..last PROVE f[(k + 1) + 1] = <<>>
      OBVIOUS
    <2>1. PICK i : i = (k + 1) + 1
      OBVIOUS
    <2>2. i \in 2..last /\ i - 1 = k + 1 /\ k + 1 \in 1..last
      BY <1>1, <2>1
    <2>3. f[i-1] = <<>>
      BY <1>7, <2>2
    <2> QED
      BY <1>4, <1>5, <2>1, <2>2, <2>3
  <1>8. \A k \in Nat : k \in T
    <2> HIDE DEF T
    <2> QED
      BY <1>6, <1>7, Induct
  <1>9. f[last] = <<>>
    <2>1. last - 1 \in Nat /\ (last - 1) + 1 = last /\ last \in 1..last
      BY <1>1
    <2> QED
      BY <1>8, <2>1
  <1> QED
    BY <1>3, <1>9 DEF Sooner

(* How many values could be made without the item that was taken last.     *)
Before == Len(Sooner(Ops, SubSeq(items, 1, Taken - 1)))

(* engine.cpp:76, with what makes it inductive: nothing but a completed    *)
(* future has yielded before the client asks.                              *)
LazyInv ==
  /\ Len(out) <= asked /\ (asked = 0 => Taken <= 1)
  /\ asked > 0 /\ Taken > 0 => Before < asked

(* How much was taken, asked for and given.                                *)
LEMMA TakenIs ==
  ASSUME IInv
  PROVE  /\ Taken \in 0..Len(items) /\ Len(items) \in Nat /\ asked \in Nat
         /\ Len(out) \in Nat /\ Len(out) <= asked
         /\ gens[1].left \in Seq(Item) /\ Taken = Len(items) - Len(gens[1].left)
         /\ task # 0 => asked = Len(out) + 1
  <1>1. Typed /\ Sourced /\ Answered
    BY DEF IInv
  <1>2. 1 \in 1..last
    BY <1>1 DEF Typed, last
  <1>3. gens[1].left \in Seq(Item)
    BY <1>1, <1>2, RecordIs DEF GeneratorRecord
  <1>4. items \in Seq(Item) /\ out \in Seq(Item) /\ asked \in Nat
    BY <1>1 DEF Typed
  <1>5. asked = Len(out) \/ asked = Len(out) + 1
    BY <1>1, <1>4 DEF Answered
  <1>6. task # 0 => asked = Len(out) + 1
    BY <1>1 DEF Answered
  <1> QED
    BY <1>1, <1>3, <1>4, <1>5, <1>6 DEF Sourced, Taken

(* The operations of a pipeline stay what they are.                        *)
LEMMA OpsStay ==
  ASSUME Typed, Typed', last' = last, \A j \in 1..last : gens'[j].op = gens[j].op
  PROVE  Ops' = Ops
  <1>1. DOMAIN gens = 1..last /\ DOMAIN gens' = 1..last
    BY DEF Typed, last
  <1> QED
    BY <1>1 DEF Ops

(* engine.cpp:76 "#BeLazy": for every pipeline and source, the source is   *)
(* resumed only when what it has yielded is not enough for what was asked. *)
THEOREM RunsLazily == Spec => []Lazy
  <1>1. Init => LazyInv
    <2> SUFFICES ASSUME Init PROVE LazyInv
      OBVIOUS
    <2>1. IInv
      BY InitInv
    <2>2. Taken \in 0..Len(items) /\ asked = 0 /\ Len(out) <= asked
      BY <2>1, TakenIs DEF Init
    <2>3. Taken <= 1
      <3>1. PICK type, ops, src : gens = <<src>> \o Operators(ops, type)
                                  /\ Begins(src) /\ ops \in Seq(Operations)
        <4>1. items \in Seq(Item)
          BY <2>1 DEF IInv, Typed
        <4> QED
          BY <4>1, BeginsIs, PipelinesAssumption, Zenon DEF Init
      <3>2. Begins(gens[1])
        BY <3>1, PipelineIs
      <3>3. Len(items) \in Nat /\ Taken = Len(items) - Len(gens[1].left)
            /\ gens[1].left \in Seq(Item)
        BY <2>1, TakenIs
      <3>4. Len(<<>>) = 0 /\ Len(items) - Len(items) = 0
        BY <3>3
      <3>5. gens[1].left = items \/ (gens[1].left = <<>> /\ Len(items) = 1)
        BY <3>2 DEF Begins
      <3>6. PICK l : l = gens[1].left
        OBVIOUS
      <3>7. CASE l = items
        BY <3>3, <3>4, <3>6, <3>7
      <3>8. CASE l = <<>> /\ Len(items) = 1
        <4>1. Len(l) = 0
          BY <3>8
        <4> QED
          BY <3>3, <3>6, <3>8, <4>1
      <3> QED
        BY <3>5, <3>6, <3>7, <3>8
    <2> QED
      BY <2>2, <2>3 DEF LazyInv
  <1>2. IInv /\ LazyInv /\ [Next]_vars => LazyInv'
    <2> SUFFICES ASSUME IInv, LazyInv, [Next]_vars PROVE LazyInv'
      OBVIOUS
    <2>1. IInv'
      BY StepInv
    <2>2. /\ Taken \in 0..Len(items) /\ Len(items) \in Nat /\ asked \in Nat
          /\ Len(out) \in Nat /\ Len(out) <= asked
          /\ gens[1].left \in Seq(Item) /\ Taken = Len(items) - Len(gens[1].left)
          /\ task # 0 => asked = Len(out) + 1
      BY TakenIs
    <2>3. Len(out') <= asked' /\ Taken' = Len(items') - Len(gens'[1].left)
      <3>1. Answered' /\ Typed'
        BY <2>1 DEF IInv
      <3> QED
        BY <3>1 DEF Answered, Typed, Taken
    <2>4. Typed /\ Built /\ Control /\ Sourced /\ Answered /\ Typed'
      BY <2>1 DEF IInv
    <2>5. PICK W, D : Streamed(W, D)
      BY DEF IInv
    <2>7. CASE Demand
      <3>1. /\ asked' = asked + 1 /\ Taken' = Taken /\ items' = items /\ gens' = gens
        BY <2>7 DEF Demand, Taken
      <3>2. Ops' = Ops
        BY <3>1 DEF Ops
      <3>3. Before' = Before
        BY <3>1, <3>2 DEF Before
      <3>4. asked = 0 /\ Taken > 0 => Before = 0
        <4> SUFFICES ASSUME asked = 0, Taken > 0 PROVE Before = 0
          OBVIOUS
        <4>1. Taken - 1 = 0
          BY <2>2 DEF LazyInv
        <4>2. SubSeq(items, 1, Taken - 1) = <<>>
          BY <2>4, <4>1 DEF Typed
        <4>3. Sooner(Ops, <<>>) = <<>>
          BY <2>4, NothingPromised
        <4>4. Sooner(Ops, SubSeq(items, 1, Taken - 1)) = <<>>
          BY <4>2, <4>3, Zenon
        <4> QED
          BY <4>4 DEF Before
      <3>5. Taken > 0 => Before < asked + 1
        <4>1. CASE asked = 0
          BY <3>4, <4>1
        <4>2. CASE asked > 0 /\ Taken > 0
          <5>1. Before < asked
            BY <4>2 DEF LazyInv
          <5>2. Before \in Nat
            BY DEF Before
          <5> QED
            BY <2>2, <5>1, <5>2
        <4> QED
          BY <2>2, <4>1, <4>2
      <3> QED
        BY <2>2, <2>3, <3>1, <3>3, <3>5 DEF LazyInv
    <2>8. CASE Kept
      <3>1. asked' = asked /\ items' = items /\ Taken' = Taken /\ Ops' = Ops
        BY <2>4, <2>8, OpsStay DEF Kept, Taken
      <3>2. Before' = Before
        BY <3>1 DEF Before
      <3> QED
        BY <2>3, <3>1, <3>2 DEF LazyInv
    <2>9. CASE Drawn
      <3>1. asked' = asked /\ items' = items /\ Ops' = Ops /\ task = 1
            /\ Len(gens'[1].left) = Len(gens[1].left) - 1
        BY <2>4, <2>9, OpsStay DEF Drawn
      <3>2. Taken' - 1 = Taken /\ asked' # 0
        <4>1. asked # 0
          BY <2>2, <3>1
        <4>2. Len(gens[1].left) \in Nat
          BY <2>2
        <4> QED
          BY <2>2, <2>3, <3>1, <4>1, <4>2
      <3>3. Sooner(Ops, SubSeq(items, 1, Taken)) = Things(out)
        BY <2>4, <2>5, <3>1, AllDelivered
      <3>4. Len(Things(out)) \in Nat /\ Len(Things(out)) <= Len(out)
        BY <2>4, FewThings DEF Typed
      <3>5. Before' = Len(Things(out))
        <4>1. Before' = Len(Sooner(Ops', SubSeq(items', 1, Taken' - 1)))
          BY DEF Before
        <4>2. Before' = Len(Sooner(Ops, SubSeq(items, 1, Taken)))
          BY <3>1, <3>2, <4>1, Zenon
        <4> QED
          BY <3>3, <4>2, Zenon
      <3>6. Before' < asked'
        BY <2>2, <3>1, <3>4, <3>5
      <3> QED
        BY <2>3, <3>2, <3>6 DEF LazyInv
    <2>10. CASE UNCHANGED vars
      <3>1. asked' = asked /\ items' = items /\ Taken' = Taken /\ gens' = gens
        BY <2>10 DEF vars, Taken
      <3>2. Ops' = Ops
        BY <3>1 DEF Ops
      <3>3. Before' = Before
        BY <3>1, <3>2 DEF Before
      <3> QED
        BY <2>3, <3>1, <3>3 DEF LazyInv
    <2> QED
      BY <2>4, <2>5, <2>7, <2>8, <2>9, <2>10, ResumeStep DEF Next
  <1>3. LazyInv => Lazy
    <2>1. Before = Len(Promised(SubSeq(items, 1, Taken - 1), FALSE))
      BY Zenon DEF Before, Sooner, Promised, Ops
    <2> QED
      BY <2>1, Zenon DEF LazyInv, Lazy
  <1> QED
    BY <1>1, <1>2, <1>3, Invariance, PTL DEF Spec
==============================================================================
