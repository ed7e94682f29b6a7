----------------------------- MODULE FoldProofs -----------------------------
(***************************************************************************)
(* Recursion over sequences: what the folds and flattenings of the         *)
(* community modules compute, step by step, and induction on their steps.  *)
(***************************************************************************)
EXTENDS SequencesExt, SequenceTheorems, FiniteSetTheorems, WellFoundedInduction, TLAPS

-----------------------------------------------------------------------------
(* Induction, for a set instead of a predicate.                            *)

LEMMA Induction ==
  ASSUME NEW S, 0 \in S, \A n \in Nat : n \in S => n + 1 \in S
  PROVE  Nat \subseteq S
<1> DEFINE T == Nat \ S
           R == OpToRel(<, Nat)
<1> SUFFICES ASSUME T # {}
             PROVE  FALSE
  OBVIOUS
<1>1. IsWellFoundedOn(R, Nat)
  BY NatLessThanWellFounded
<1>2. \A y, t \in Nat : y < t => <<y, t>> \in R
  BY DEF OpToRel
<1> HIDE DEF R
<1>3. PICK t \in T : \A y \in T : <<y, t>> \notin R
  BY <1>1, WFMin
<1>4. t \in Nat \ {0} /\ t - 1 \in Nat
  <2>1. t \in Nat /\ t # 0
    BY 0 \in S
  <2> QED  BY <2>1
<1>5. t - 1 \notin T
  <2>1. t - 1 < t
    BY <1>4
  <2>2. <<t - 1, t>> \in R
    BY <1>2, <1>4, <2>1
  <2> QED  BY <1>3, <2>2
<1>6. (t - 1) + 1 \in S
  BY <1>4, <1>5
<1> QED  BY <1>4, <1>6

(* Induction up to a bound.                                                *)
LEMMA InductionUpTo ==
  ASSUME NEW N \in Nat, NEW S, 0 \in S,
         \A n \in 1..N : n - 1 \in S => n \in S
  PROVE  0..N \subseteq S
<1> DEFINE T == {n \in Nat : n =< N => n \in S}
<1>1. 0 \in T
  OBVIOUS
<1>2. ASSUME NEW n \in Nat, n \in T
      PROVE  n + 1 \in T
  <2>1. CASE n + 1 =< N
    <3>1. n + 1 \in 1..N /\ n =< N /\ (n + 1) - 1 = n
      BY <2>1
    <3>2. n \in S
      BY <1>2, <3>1
    <3> QED  BY <3>1, <3>2
  <2> QED  BY <2>1
<1> HIDE DEF T
<1>3. Nat \subseteq T
  BY <1>1, <1>2, Induction
<1> QED  BY <1>3 DEF T

LEMMA MaxOfInterval ==
  ASSUME NEW n \in Nat, NEW S \in SUBSET (1..n), S # {}
  PROVE  /\ Max(S) \in S
         /\ \A x \in S : x =< Max(S)
<1> DEFINE T == {m \in 0..n : S \cap (1..m) # {} =>
                   \E x \in S \cap (1..m) : \A y \in S \cap (1..m) : x >= y}
<1>1. 0 \in T
  OBVIOUS
<1>2. ASSUME NEW m \in 1..n, m - 1 \in T
      PROVE  m \in T
  <2>1. CASE m \in S
    <3>1. m \in S \cap (1..m) /\ \A y \in S \cap (1..m) : m >= y
      BY <2>1
    <3> QED  BY <3>1
  <2>2. CASE m \notin S
    <3>1. S \cap (1..m) = S \cap (1..(m - 1))
      BY <2>2
    <3> QED  BY <1>2, <3>1
  <2> QED  BY <2>1, <2>2
<1> HIDE DEF T
<1>3. n \in T
  BY <1>1, <1>2, InductionUpTo, 0..n \subseteq T
<1>4. S \cap (1..n) = S
  OBVIOUS
<1>5. \E x \in S : \A y \in S : x >= y
  BY <1>3, <1>4 DEF T
<1>6. Max(S) \in S /\ \A y \in S : Max(S) >= y
  BY <1>5 DEF Max
<1> QED  BY <1>6

LEMMA MinOfNaturals ==
  ASSUME NEW S \in SUBSET Nat, S # {}
  PROVE  /\ Min(S) \in S
         /\ \A x \in S : Min(S) =< x
<1> DEFINE R == OpToRel(<, Nat)
<1>1. IsWellFoundedOn(R, Nat)
  BY NatLessThanWellFounded
<1>2. \A y, t \in Nat : y < t => <<y, t>> \in R
  BY DEF OpToRel
<1> HIDE DEF R
<1>3. PICK t \in S : \A y \in S : <<y, t>> \notin R
  BY <1>1, WFMin
<1>4. ASSUME NEW y \in S
      PROVE  t =< y
  <2>1. ~(y < t) /\ y \in Nat /\ t \in Nat
    BY <1>2, <1>3
  <2> QED  BY <2>1
<1>5. \E x \in S : \A y \in S : x =< y
  BY <1>4
<1> QED  BY <1>5 DEF Min

-----------------------------------------------------------------------------
(* A fold over an interval of indexes, the largest first, is a recursion   *)
(* on sets of indexes.                                                     *)

(* The value of S is had from that of S without its largest element.       *)
Folds(h, n, base, G) ==
  h = [S \in SUBSET (1..n) |->
         IF S = {} THEN base ELSE G[<<h[S \ {Max(S)}], Max(S)>>]]

LEMMA FoldGrows ==
  ASSUME NEW n \in Nat, NEW V, NEW base \in V,
         NEW G \in [V \X (1..(n + 1)) -> V],
         NEW h \in [SUBSET (1..n) -> V], Folds(h, n, base, G)
  PROVE  \E g \in [SUBSET (1..(n + 1)) -> V] : Folds(g, n + 1, base, G)
<1> DEFINE m == n + 1
           g == [S \in SUBSET (1..m) |->
                   IF m \in S THEN G[<<h[S \ {m}], m>>] ELSE h[S]]
<1>m. m \in Nat /\ m \in 1..m
  OBVIOUS
<1>1. \A S \in SUBSET (1..m) : S \ {m} \in SUBSET (1..n)
  OBVIOUS
<1>2. g \in [SUBSET (1..m) -> V]
  <2>1. ASSUME NEW S \in SUBSET (1..m)
        PROVE  (IF m \in S THEN G[<<h[S \ {m}], m>>] ELSE h[S]) \in V
    <3>1. CASE m \in S
      BY <1>1, <1>m, <3>1
    <3>2. CASE m \notin S
      <4>1. S \in SUBSET (1..n)
        BY <1>1, <3>2
      <4> QED  BY <3>2, <4>1
    <3> QED  BY <3>1, <3>2
  <2> QED  BY <2>1
<1>3. ASSUME NEW S \in SUBSET (1..m), S # {}
      PROVE  g[S] = G[<<g[S \ {Max(S)}], Max(S)>>]
  <2>1. Max(S) \in S /\ \A x \in S : x =< Max(S)
    <3> HIDE DEF m
    <3> QED  BY <1>3, <1>m, MaxOfInterval
  <2>2. CASE m \in S
    <3>1. Max(S) = m
      <4>1. m =< Max(S)
        BY <2>1, <2>2
      <4>2. Max(S) \in 1..m
        BY <2>1
      <4> HIDE DEF m
      <4> QED  BY <1>m, <4>1, <4>2
    <3>2. g[S \ {m}] = h[S \ {m}]
      BY <1>1
    <3> QED  BY <2>2, <3>1, <3>2
  <2>3. CASE m \notin S
    <3>1. S \in SUBSET (1..n)
      BY <1>1, <2>3
    <3>a. S \ {Max(S)} \in SUBSET (1..n) /\ m \notin S \ {Max(S)}
      BY <3>1, <2>3
    <3>2. h[S] = G[<<h[S \ {Max(S)}], Max(S)>>]
      BY <1>3, <3>1 DEF Folds
    <3>3. g[S] = h[S] /\ g[S \ {Max(S)}] = h[S \ {Max(S)}]
      BY <2>3, <3>1, <3>a
    <3> QED  BY <3>2, <3>3
  <2> QED  BY <2>2, <2>3
<1>4. g[{}] = base
  <2>1. h[{}] = base
    BY DEF Folds
  <2> QED  BY <2>1
<1> HIDE DEF g
<1>5. g = [S \in SUBSET (1..m) |->
             IF S = {} THEN base ELSE G[<<g[S \ {Max(S)}], Max(S)>>]]
  BY <1>2, <1>3, <1>4
<1> QED  BY <1>2, <1>5 DEF Folds

Alike(V, n, G, H) == \A v \in V, i \in 1..n : G[<<v, i>>] = H[<<v, i>>]

LEMMA FoldOfSame ==
  ASSUME NEW n \in Nat, NEW V, NEW base \in V, NEW G, NEW H, Alike(V, n, G, H),
         NEW h \in [SUBSET (1..n) -> V], Folds(h, n, base, G)
  PROVE  Folds(h, n, base, H)
<1>1. ASSUME NEW S \in SUBSET (1..n), S # {}
      PROVE  G[<<h[S \ {Max(S)}], Max(S)>>] = H[<<h[S \ {Max(S)}], Max(S)>>]
  <2>1. Max(S) \in 1..n
    BY <1>1, MaxOfInterval
  <2>2. h[S \ {Max(S)}] \in V
    OBVIOUS
  <2> QED  BY <2>1, <2>2 DEF Alike
<1>2. \A S \in SUBSET (1..n) :
        (IF S = {} THEN base ELSE G[<<h[S \ {Max(S)}], Max(S)>>]) =
        (IF S = {} THEN base ELSE H[<<h[S \ {Max(S)}], Max(S)>>])
  BY <1>1
<1> QED  BY <1>2 DEF Folds

LEMMA FoldExists ==
  ASSUME NEW N \in Nat, NEW V, NEW base \in V, NEW G \in [V \X (1..N) -> V]
  PROVE  \E h \in [SUBSET (1..N) -> V] : Folds(h, N, base, G)
<1> DEFINE Has(n) == \E h \in [SUBSET (1..n) -> V] : Folds(h, n, base, G)
           T == {n \in 0..N : Has(n)}
<1>1. Has(0)
  <2> DEFINE h == [S \in SUBSET (1..0) |-> base]
  <2>1. h = [S \in SUBSET (1..0) |->
               IF S = {} THEN base ELSE G[<<h[S \ {Max(S)}], Max(S)>>]]
    <3>1. \A S \in SUBSET (1..0) : S = {}
      OBVIOUS
    <3> QED  BY <3>1
  <2> QED  BY <2>1 DEF Folds
<1>2. ASSUME NEW n \in 1..N, Has(n - 1)
      PROVE  Has(n)
  <2> DEFINE H == [x \in V \X (1..n) |-> G[x]]
  <2> DEFINE k == n - 1
  <2>1. H \in [V \X (1..(k + 1)) -> V] /\ k + 1 = n /\ k \in Nat
    OBVIOUS
  <2>2. PICK h \in [SUBSET (1..k) -> V] : Folds(h, k, base, G)
    BY <1>2
  <2>3. Alike(V, k, G, H) /\ Alike(V, n, H, G) /\ n \in Nat
    <3>1. \A v \in V, i \in 1..n : G[<<v, i>>] = H[<<v, i>>]
      OBVIOUS
    <3>2. \A i \in 1..k : i \in 1..n
      OBVIOUS
    <3> QED  BY <3>1, <3>2 DEF Alike
  <2> HIDE DEF H, k
  <2>4. Folds(h, k, base, H)
    BY <2>1, <2>2, <2>3, FoldOfSame
  <2>5. \E g \in [SUBSET (1..(k + 1)) -> V] : Folds(g, k + 1, base, H)
    BY <2>1, <2>2, <2>4, FoldGrows
  <2>6. PICK g \in [SUBSET (1..n) -> V] : Folds(g, n, base, H)
    BY <2>1, <2>5
  <2>7. Folds(g, n, base, G)
    BY <2>3, <2>6, FoldOfSame
  <2> QED  BY <2>7
<1> HIDE DEF Has
<1>3. 0 \in T /\ \A n \in 1..N : n - 1 \in T => n \in T
  BY <1>1, <1>2
<1> HIDE DEF T
<1>4. 0..N \subseteq T
  BY <1>3, InductionUpTo
<1>5. Has(N)
  BY <1>4 DEF T
<1> QED  BY <1>5 DEF Has

(* The values of a fold on the intervals 1..i are its steps.               *)
LEMMA IntervalTop ==
  ASSUME NEW n \in Nat, NEW i \in 1..n
  PROVE  /\ 1..i \in SUBSET (1..n)
         /\ 1..i # {}
         /\ Max(1..i) = i
         /\ (1..i) \ {i} = 1..(i - 1)
<1>1. 1..i \in SUBSET (1..n) /\ 1..i # {} /\ i \in 1..i /\ i \in Nat
  OBVIOUS
<1>2. Max(1..i) = i
  <2>1. 1..i \in SUBSET (1..i)
    OBVIOUS
  <2>2. Max(1..i) \in 1..i /\ \A x \in 1..i : x =< Max(1..i)
    BY <1>1, <2>1, MaxOfInterval
  <2> QED  BY <1>1, <2>2
<1>3. (1..i) \ {i} = 1..(i - 1)
  OBVIOUS
<1> QED  BY <1>1, <1>2, <1>3

(* A recursion on the numbers up to n.                                     *)
Steps(g, n, base, G) ==
  /\ g[0] = base
  /\ \A i \in 1..n : g[i] = G[<<g[i - 1], i>>]

LEMMA StepsExist ==
  ASSUME NEW n \in Nat, NEW V, NEW base \in V, NEW G \in [V \X (1..n) -> V]
  PROVE  \E g \in [0..n -> V] : Steps(g, n, base, G)
<1>1. PICK h \in [SUBSET (1..n) -> V] : Folds(h, n, base, G)
  BY FoldExists
<1> DEFINE g == [i \in 0..n |-> h[1..i]]
<1>2. g \in [0..n -> V]
  <2>1. \A i \in 0..n : 1..i \in SUBSET (1..n)
    OBVIOUS
  <2> QED  BY <2>1
<1>3. g[0] = base
  <2>1. 1..0 = {}
    OBVIOUS
  <2> QED  BY <1>1, <2>1 DEF Folds
<1>4. ASSUME NEW i \in 1..n
      PROVE  g[i] = G[<<g[i - 1], i>>]
  <2> DEFINE S == 1..i
  <2>1. S \in SUBSET (1..n) /\ S # {} /\ Max(S) = i /\ S \ {i} = 1..(i - 1)
    BY IntervalTop
  <2>2. h[S] = G[<<h[S \ {Max(S)}], Max(S)>>]
    <3> HIDE DEF S
    <3> QED  BY <1>1, <2>1 DEF Folds
  <2>3. h[1..i] = G[<<h[1..(i - 1)], i>>]
    BY <2>1, <2>2
  <2>4. i \in 0..n /\ i - 1 \in 0..n
    OBVIOUS
  <2> QED  BY <2>3, <2>4
<1> HIDE DEF g
<1>5. Steps(g, n, base, G)
  BY <1>3, <1>4 DEF Steps
<1> QED  BY <1>2, <1>5

(* What a fold over a sequence chooses: a recursion on the sets of its     *)
(* indexes that goes by G as long as it stays in V.                        *)
Follows(it, n, V, base, G) ==
  /\ it[{}] = base
  /\ \A S \in SUBSET (1..n) :
       S # {} /\ it[S \ {Max(S)}] \in V => it[S] = G[<<it[S \ {Max(S)}], Max(S)>>]

Unfolds(it, n, V, base, G) ==
  \E g \in [0..n -> V] : Steps(g, n, base, G) /\ it[1..n] = g[n]

LEMMA FoldSteps ==
  ASSUME NEW n \in Nat, NEW V, NEW base \in V, NEW G \in [V \X (1..n) -> V],
         NEW it, Follows(it, n, V, base, G)
  PROVE  Unfolds(it, n, V, base, G)
<1> DEFINE g == [i \in 0..n |-> it[1..i]]
<1>1. ASSUME NEW i \in 1..n, it[1..(i - 1)] \in V
      PROVE  it[1..i] = G[<<it[1..(i - 1)], i>>]
  <2> DEFINE S == 1..i
  <2>1. S \in SUBSET (1..n) /\ S # {} /\ Max(S) = i /\ S \ {i} = 1..(i - 1)
    BY IntervalTop
  <2>2. it[S \ {Max(S)}] \in V
    BY <1>1, <2>1
  <2>3. it[S] = G[<<it[S \ {Max(S)}], Max(S)>>]
    <3> HIDE DEF S
    <3> QED  BY <2>1, <2>2 DEF Follows
  <2> QED  BY <2>1, <2>3
<1>2. \A i \in 0..n : it[1..i] \in V
  <2> DEFINE T == {i \in 0..n : it[1..i] \in V}
  <2>1. 0 \in T
    <3>1. 1..0 = {} /\ 0 \in 0..n
      OBVIOUS
    <3> QED  BY <3>1 DEF Follows
  <2>2. ASSUME NEW i \in 1..n, i - 1 \in T
        PROVE  i \in T
    <3>1. it[1..(i - 1)] \in V
      BY <2>2
    <3>2. it[1..i] \in V
      BY <1>1, <3>1
    <3>3. i \in 0..n
      OBVIOUS
    <3> QED  BY <3>2, <3>3
  <2> HIDE DEF T
  <2>3. 0..n \subseteq T
    BY <2>1, <2>2, InductionUpTo
  <2> QED  BY <2>3 DEF T
<1>3. g \in [0..n -> V]
  BY <1>2
<1>4. Steps(g, n, base, G)
  <2>1. g[0] = base
    <3>1. 1..0 = {} /\ 0 \in 0..n
      OBVIOUS
    <3> QED  BY <3>1 DEF Follows
  <2>2. \A i \in 1..n : i \in 0..n /\ i - 1 \in 0..n
    OBVIOUS
  <2>3. \A i \in 1..n : g[i] = G[<<g[i - 1], i>>]
    BY <1>1, <1>2, <2>2
  <2> HIDE DEF g
  <2> QED  BY <2>1, <2>3 DEF Steps
<1>5. g[n] = it[1..n]
  OBVIOUS
<1> QED  BY <1>3, <1>4, <1>5 DEF Unfolds

-----------------------------------------------------------------------------
(* The last of a sequence and what comes before it.                        *)

LEMMA PrefixGrows ==
  ASSUME NEW A, NEW s \in Seq(A), NEW i \in 1..Len(s)
  PROVE  /\ SubSeq(s, 1, i - 1) \in Seq(A)
         /\ Len(SubSeq(s, 1, i - 1)) = i - 1
         /\ s[i] \in A
         /\ SubSeq(s, 1, i) = Append(SubSeq(s, 1, i - 1), s[i])
<1>1. SubSeq(s, 1, i - 1) \in Seq(A) /\ Len(SubSeq(s, 1, i - 1)) = i - 1
  <2>1. i - 1 \in Int /\ \A j \in 1..(i - 1) : s[j] \in A
    BY ElementOfSeq
  <2>2. i - 1 >= 0 /\ (i - 1) - 1 + 1 = i - 1
    OBVIOUS
  <2> QED  BY <2>1, <2>2, SubSeqProperties
<1>2. s[i] \in A
  BY ElementOfSeq
<1>3. SubSeq(s, 1, i) = SubSeq(s, 1, i - 1) \o <<s[i]>>
  BY SubSeqRecursiveSecond
<1> QED  BY <1>1, <1>2, <1>3, AppendIsConcat

LEMMA WholeSeq ==
  ASSUME NEW A, NEW s \in Seq(A)
  PROVE  SubSeq(s, 1, 0) = <<>> /\ SubSeq(s, 1, Len(s)) = s
BY SubSeqFull, SubSeqEmpty

-----------------------------------------------------------------------------
(* A sequence of sequences is flattened one after the other.               *)

Joins(g, ss) ==
  /\ g[0] = <<>>
  /\ \A i \in 1..Len(ss) : g[i] = g[i - 1] \o ss[i]

LEMMA FlattenSteps ==
  ASSUME NEW X, NEW ss \in Seq(Seq(X))
  PROVE  \E g \in [0..Len(ss) -> Seq(X)] :
            Joins(g, ss) /\ FlattenSeq(ss) = g[Len(ss)]
<1> DEFINE n == Len(ss)
           G == [x \in Seq(X) \X (1..n) |-> x[1] \o ss[x[2]]]
           R(f) == [i \in 1..n |-> IF i = 1 THEN ss[i] ELSE f[i - 1] \o ss[i]]
           fl == CHOOSE f : f = R(f)
<1>1. n \in Nat /\ \A i \in 1..n : ss[i] \in Seq(X)
  BY ElementOfSeq
<1>2. <<>> \in Seq(X) /\ \A v \in Seq(X) : <<>> \o v = v
  BY ConcatEmptySeq
<1>3. \A v, w \in Seq(X) : v \o w \in Seq(X)
  BY ConcatProperties
<1>4. G \in [Seq(X) \X (1..n) -> Seq(X)]
  BY <1>1, <1>3
<1> HIDE DEF n
<1>5. PICK g \in [0..n -> Seq(X)] : Steps(g, n, <<>>, G)
  <2> HIDE DEF G
  <2> QED  BY <1>1, <1>2, <1>4, StepsExist
<1>6. g[0] = <<>> /\ \A i \in 1..n : g[i] = g[i - 1] \o ss[i]
  <2>1. \A i \in 1..n : g[i - 1] \in Seq(X)
    BY <1>1
  <2> QED  BY <1>5, <2>1 DEF Steps
<1>7. \E f : f = R(f)
  <2> DEFINE f == [i \in 1..n |-> g[i]]
  <2>1. ASSUME NEW i \in 1..n
        PROVE  g[i] = IF i = 1 THEN ss[i] ELSE f[i - 1] \o ss[i]
    <3>1. CASE i = 1
      <4>1. g[1] = g[0] \o ss[1] /\ ss[1] \in Seq(X)
        <5>1. 1 \in 1..n /\ 1 - 1 = 0
          BY <3>1
        <5> QED  BY <1>1, <1>6, <5>1
      <4> QED  BY <1>2, <1>6, <3>1, <4>1
    <3>2. CASE i # 1
      <4>1. i - 1 \in 1..n
        BY <1>1, <3>2
      <4> QED  BY <1>6, <3>2, <4>1
    <3> QED  BY <3>1, <3>2
  <2>2. f = R(f)
    BY <2>1
  <2> QED  BY <2>2
<1>8. fl = R(fl)
  <2> HIDE DEF R
  <2> QED  BY <1>7
<1> HIDE DEF fl
<1>9. \A i \in 1..n : fl[i] = g[i]
  <2> DEFINE S == {i \in 0..n : i # 0 => fl[i] = g[i]}
  <2>1. 0 \in S
    BY <1>1
  <2>2. ASSUME NEW i \in 1..n, i - 1 \in S
        PROVE  i \in S
    <3>1. CASE i = 1
      <4>1. g[1] = g[0] \o ss[1] /\ ss[1] \in Seq(X)
        <5>1. 1 \in 1..n /\ 1 - 1 = 0
          BY <3>1
        <5> QED  BY <1>1, <1>6, <5>1
      <4>2. fl[i] = ss[i]
        BY <1>8, <3>1
      <4>3. fl[i] = g[i] /\ i \in 0..n
        BY <1>1, <1>2, <1>6, <3>1, <4>1, <4>2
      <4> QED  BY <4>3
    <3>2. CASE i # 1
      <4>1. fl[i - 1] = g[i - 1]
        BY <2>2, <3>2
      <4>2. fl[i] = fl[i - 1] \o ss[i]
        BY <1>8, <3>2
      <4>3. g[i] = g[i - 1] \o ss[i]
        BY <1>6
      <4>4. fl[i] = g[i]
        BY <4>1, <4>2, <4>3
      <4>5. i \in 0..n
        BY <1>1
      <4> QED  BY <4>4, <4>5
    <3> QED  BY <3>1, <3>2
  <2> HIDE DEF S
  <2>3. 0..n \subseteq S
    BY <1>1, <2>1, <2>2, InductionUpTo
  <2> QED  BY <2>3 DEF S
<1>10. FlattenSeq(ss) = g[n]
  <2>1. CASE n = 0
    <3>1. ss = <<>>
      BY <2>1 DEF n
    <3> QED  BY <1>6, <2>1, <3>1 DEF FlattenSeq
  <2>2. CASE n # 0
    <3>1. FlattenSeq(ss) = fl[n]
      BY <2>2 DEF FlattenSeq, fl, n
    <3> QED  BY <1>1, <1>9, <2>2, <3>1
  <2> QED  BY <2>1, <2>2
<1> QED  BY <1>6, <1>10 DEF n, Joins

LEMMA FlattenType ==
  ASSUME NEW X, NEW ss \in Seq(Seq(X))
  PROVE  FlattenSeq(ss) \in Seq(X)
BY FlattenSteps

LEMMA FlattenEmpty == FlattenSeq(<<>>) = <<>>
BY DEF FlattenSeq

LEMMA FlattenAppend ==
  ASSUME NEW X, NEW ss \in Seq(Seq(X)), NEW w \in Seq(X)
  PROVE  FlattenSeq(Append(ss, w)) = FlattenSeq(ss) \o w
<1> DEFINE t == Append(ss, w)
           n == Len(ss)
<1>1. n \in Nat
  OBVIOUS
<1>2. t \in Seq(Seq(X)) /\ Len(t) = n + 1 /\ t[n + 1] = w /\ \A i \in 1..n : t[i] = ss[i]
  BY AppendProperties
<1>3. PICK g \in [0..n -> Seq(X)] : Joins(g, ss) /\ FlattenSeq(ss) = g[n]
  BY FlattenSteps
<1> HIDE DEF t
<1>4. PICK h \in [0..(n + 1) -> Seq(X)] : Joins(h, t) /\ FlattenSeq(t) = h[n + 1]
  <2>1. PICK h \in [0..Len(t) -> Seq(X)] : Joins(h, t) /\ FlattenSeq(t) = h[Len(t)]
    BY <1>2, FlattenSteps
  <2> QED  BY <1>2, <2>1
<1>5. h[n] = g[n]
  <2> DEFINE S == {i \in 0..n : h[i] = g[i]}
  <2>1. 0 \in S
    BY <1>1, <1>3, <1>4 DEF Joins
  <2>2. ASSUME NEW i \in 1..n, i - 1 \in S
        PROVE  i \in S
    <3>0. i \in 1..Len(t) /\ i \in 0..n
      BY <1>1, <1>2
    <3>1. h[i] = h[i - 1] \o t[i]
      BY <1>4, <3>0 DEF Joins
    <3>2. g[i] = g[i - 1] \o ss[i]
      BY <1>3 DEF Joins
    <3>3. h[i] = g[i]
      BY <1>2, <2>2, <3>1, <3>2
    <3> QED  BY <3>0, <3>3
  <2> HIDE DEF S, n
  <2>3. 0..n \subseteq S
    BY <1>1, <2>1, <2>2, InductionUpTo
  <2>4. n \in 0..n
    BY <1>1
  <2>5. n \in S
    BY <2>3, <2>4
  <2> QED  BY <2>5 DEF S
<1>6. h[n + 1] = h[n] \o w
  <2>1. n + 1 \in 1..Len(t) /\ (n + 1) - 1 = n
    BY <1>1, <1>2
  <2> QED  BY <1>2, <1>4, <2>1 DEF Joins
<1> QED  BY <1>3, <1>4, <1>5, <1>6 DEF t

=============================================================================
