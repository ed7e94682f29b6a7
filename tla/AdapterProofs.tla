---------------------------- MODULE AdapterProofs ----------------------------
(***************************************************************************)
(* What a call of the adapter comes to: the lists of the path exactly when *)
(* it returns nil, no half of a new policy when one request fails, and     *)
(* always an outcome that ProgrammerPort allows, so that the requests of a *)
(* call implement the one step the reconciler takes it for.                *)
(***************************************************************************)
EXTENDS ProgrammerProofs

-----------------------------------------------------------------------------
(* Counting.  The n-th list of a kind has rank n, so of a lists of a kind  *)
(* here and b there the last a - b are unmatched here.                     *)

OfKind(f, I, l) == {i \in I : f[i] = l}

UpTo(S, i) == {j \in S : j =< i}

(* Ranks number the elements of a set of naturals from 1.                  *)
LEMMA RankNumbers ==
  ASSUME NEW S \in SUBSET Nat, IsFiniteSet(S)
  PROVE  [i \in S |-> Cardinality(UpTo(S, i))] \in Bijection(S, 1..Cardinality(S))
<1> DEFINE n == Cardinality(S)
           r == [i \in S |-> Cardinality(UpTo(S, i))]
<1>1. n \in Nat
  BY FS_CardinalityType
<1>2. ASSUME NEW i \in S
      PROVE  /\ IsFiniteSet(UpTo(S, i))
             /\ Cardinality(UpTo(S, i)) \in 1..n
  <2>1. UpTo(S, i) \in SUBSET S /\ i \in UpTo(S, i)
    BY DEF UpTo
  <2>2. IsFiniteSet(UpTo(S, i)) /\ Cardinality(UpTo(S, i)) =< n
    BY <2>1, FS_Subset
  <2>3. Cardinality(UpTo(S, i)) \in Nat /\ Cardinality(UpTo(S, i)) >= 1
    BY <2>1, <2>2, CountPositive
  <2> HIDE DEF n
  <2>4. Cardinality(UpTo(S, i)) \in 1..n
    BY <1>1, <2>2, <2>3 DEF n
  <2> QED BY <2>2, <2>4
<1>3. ASSUME NEW i \in S, NEW k \in S, i < k
      PROVE  Cardinality(UpTo(S, i)) # Cardinality(UpTo(S, k))
  <2>1. UpTo(S, i) \in SUBSET UpTo(S, k) /\ k \in UpTo(S, k) /\ k \notin UpTo(S, i)
    <3>1. i \in Nat /\ k \in Nat /\ k =< k /\ ~(k =< i)
      BY <1>3
    <3>2. \A j \in S : j =< i => j =< k
      BY <1>3, <3>1
    <3> QED BY <3>1, <3>2 DEF UpTo
  <2>2. IsFiniteSet(UpTo(S, k))
    BY <1>2
  <2>3. Cardinality(UpTo(S, k)) = Cardinality(UpTo(S, i)) => UpTo(S, k) = UpTo(S, i)
    BY <2>1, <2>2, FS_Subset
  <2> QED BY <2>1, <2>3
<1>4. r \in [S -> 1..n]
  BY <1>2
<1>5. \A i, k \in S : r[i] = r[k] => i = k
  BY <1>3
<1>6. r \in Injection(S, 1..n)
  BY <1>4, <1>5 DEF Injection, IsInjective
<1>7. IsFiniteSet(1..n) /\ Cardinality(1..n) = n
  BY <1>1, FS_Interval
<1> HIDE DEF r, n
<1>8. r \in Surjection(S, 1..n)
  BY <1>6, <1>7, FS_Injection DEF n
<1> QED BY <1>6, <1>8 DEF Bijection, r, n

(* Of a set, what ranks above n is what exceeds n.                         *)
LEMMA RankedAbove ==
  ASSUME NEW S \in SUBSET Nat, IsFiniteSet(S), NEW n \in Nat
  PROVE  LET T == {i \in S : Cardinality(UpTo(S, i)) > n} IN
         /\ IsFiniteSet(T)
         /\ Cardinality(T) =
              IF Cardinality(S) > n THEN Cardinality(S) - n ELSE 0
<1> DEFINE c == Cardinality(S)
           r == [i \in S |-> Cardinality(UpTo(S, i))]
           T == {i \in S : Cardinality(UpTo(S, i)) > n}
           q == [i \in T |-> r[i]]
<1>1. c \in Nat
  BY FS_CardinalityType
<1>2. r \in Bijection(S, 1..c)
  BY RankNumbers
<1>3. T = {i \in S : r[i] > n}
  OBVIOUS
<1>4. IsFiniteSet(T)
  BY FS_Subset
<1> HIDE DEF r, T, c
<1>5. /\ r \in [S -> 1..c]
      /\ \A i, k \in S : r[i] = r[k] => i = k
      /\ \A m \in 1..c : \E i \in S : r[i] = m
  BY <1>2 DEF Bijection, Injection, IsInjective, Surjection
<1>6. \A m \in (n + 1)..c : \E i \in T : q[i] = m
  <2> SUFFICES ASSUME NEW m \in (n + 1)..c PROVE \E i \in T : r[i] = m
    OBVIOUS
  <2>1. m \in 1..c /\ m > n
    BY <1>1
  <2>2. PICK i \in S : r[i] = m
    BY <1>5, <2>1
  <2> QED BY <1>3, <2>1, <2>2
<1>7. q \in [T -> (n + 1)..c]
  <2> SUFFICES ASSUME NEW i \in T PROVE r[i] \in (n + 1)..c
    OBVIOUS
  <2>1. i \in S /\ r[i] > n /\ r[i] \in 1..c
    BY <1>3, <1>5
  <2> QED BY <1>1, <2>1
<1>8. q \in Injection(T, (n + 1)..c)
  BY <1>3, <1>5, <1>7 DEF Injection, IsInjective
<1>9. q \in Surjection(T, (n + 1)..c)
  BY <1>6, <1>7 DEF Surjection
<1>10. ExistsBijection(T, (n + 1)..c)
  BY <1>8, <1>9 DEF ExistsBijection, Bijection
<1>11. Cardinality((n + 1)..c) = Cardinality(T)
  BY <1>4, <1>10, FS_Bijection
<1>12. Cardinality((n + 1)..c) = IF n + 1 > c THEN 0 ELSE c - (n + 1) + 1
  BY <1>1, FS_Interval
<1> QED BY <1>1, <1>4, <1>11, <1>12 DEF T, c

LEMMA OneMore ==
  ASSUME NEW S, IsFiniteSet(S), NEW x, x \notin S
  PROVE  Cardinality(S \cup {x}) = Cardinality(S) + 1
BY FS_AddElement

(* How many of the lists of f at I are l.                                  *)
Number(f, I, l) == Cardinality(OfKind(f, I, l))

LEMMA NumberType ==
  ASSUME NEW f \in ListTable, NEW I \in SUBSET DOMAIN f, NEW l
  PROVE  /\ IsFiniteSet(OfKind(f, I, l))
         /\ Number(f, I, l) \in Nat
         /\ Number(f, I, l) = 0 <=> OfKind(f, I, l) = {}
         /\ Count(f, l) \in Nat
         /\ Count(f, l) = Number(f, DOMAIN f, l)
         /\ Number(f, I, l) =< Count(f, l)
<1> DEFINE all == OfKind(f, DOMAIN f, l)
<1>1. IsFiniteSet(DOMAIN f)
  BY TableIsFunction
<1>2. all \in SUBSET DOMAIN f /\ OfKind(f, I, l) \in SUBSET all
  BY DEF OfKind
<1>3. Count(f, l) = Cardinality(all)
  BY DEF Count, OfKind
<1> HIDE DEF all
<1>4. IsFiniteSet(all) /\ IsFiniteSet(OfKind(f, I, l))
  BY <1>1, <1>2, FS_Subset
<1>5. Cardinality(OfKind(f, I, l)) =< Cardinality(all)
  BY <1>2, <1>4, FS_Subset
<1>6. /\ Cardinality(all) \in Nat
      /\ Cardinality(OfKind(f, I, l)) \in Nat
      /\ Cardinality(OfKind(f, I, l)) = 0 <=> OfKind(f, I, l) = {}
  BY <1>4, FS_CardinalityType, FS_EmptySet
<1> QED BY <1>3, <1>4, <1>5, <1>6 DEF Number, all

LEMMA UnmatchedNumber ==
  ASSUME NEW f \in ListTable, NEW g \in ListTable, NEW l
  PROVE  Number(f, Unmatched(f, g), l) =
           IF Count(f, l) > Count(g, l) THEN Count(f, l) - Count(g, l) ELSE 0
<1> DEFINE S == OfKind(f, DOMAIN f, l)
           T == {i \in S : Cardinality(UpTo(S, i)) > Count(g, l)}
<1>1. OfKind(f, Unmatched(f, g), l) = T
  <2>1. ASSUME NEW i \in S PROVE Rank(f, i) = Cardinality(UpTo(S, i))
    <3>1. {j \in DOMAIN f : j =< i /\ f[j] = f[i]} = UpTo(S, i)
      BY DEF UpTo, OfKind
    <3> QED BY <3>1 DEF Rank
  <2>2. \A i \in S : i \in Unmatched(f, g) <=> Rank(f, i) > Count(g, l)
    BY DEF OfKind, Unmatched
  <2>3. OfKind(f, Unmatched(f, g), l) = {i \in S : i \in Unmatched(f, g)}
    BY DEF OfKind, Unmatched
  <2> HIDE DEF S
  <2> QED BY <2>1, <2>2, <2>3
<1>2. S \in SUBSET Nat /\ IsFiniteSet(S) /\ Cardinality(S) = Count(f, l)
  <2>1. DOMAIN f \subseteq Nat
    BY TableIsFunction
  <2> QED BY <2>1, NumberType DEF OfKind, Number
<1>3. Count(g, l) \in Nat
  BY NumberType
<1> HIDE DEF S
<1>4. Cardinality(T) = IF Cardinality(S) > Count(g, l)
                       THEN Cardinality(S) - Count(g, l) ELSE 0
  BY <1>2, <1>3, RankedAbove
<1> QED BY <1>1, <1>2, <1>4 DEF Number

(* What is there (P) and what is still to be added (A, of W) are what is   *)
(* wanted (W) and what is still to be deleted (S, of P), kind by kind.     *)
Due(P, W, A, S) ==
  \A l \in SIDList :
    Count(P, l) + Number(W, A, l) = Count(W, l) + Number(P, S, l)

(* The plan of updateInPlace.                                              *)
LEMMA PlanIsDue ==
  ASSUME NEW P \in ListTable, NEW W \in ListTable
  PROVE  Due(P, W, Unmatched(W, P), Unmatched(P, W))
<1> SUFFICES ASSUME NEW l \in SIDList
             PROVE  Count(P, l) + Number(W, Unmatched(W, P), l)
                      = Count(W, l) + Number(P, Unmatched(P, W), l)
  BY DEF Due
<1>1. Count(P, l) \in Nat /\ Count(W, l) \in Nat
  BY NumberType
<1> QED BY <1>1, UnmatchedNumber

(* A list more.                                                            *)
Extended(P, n, l) == [j \in DOMAIN P \cup {n} |-> IF j = n THEN l ELSE P[j]]

LEMMA AddingKeepsDue ==
  ASSUME NEW P \in ListTable, NEW W \in ListTable, NEW A \in SUBSET DOMAIN W,
         NEW S \in SUBSET DOMAIN P, NEW i \in A, NEW n, n \notin DOMAIN P,
         Extended(P, n, W[i]) \in ListTable, Due(P, W, A, S)
  PROVE  Due(Extended(P, n, W[i]), W, A \ {i}, S)
<1> DEFINE Q == Extended(P, n, W[i])
<1> SUFFICES ASSUME NEW l \in SIDList
             PROVE  Count(Q, l) + Number(W, A \ {i}, l) = Count(W, l) + Number(Q, S, l)
  BY DEF Due
<1>1. Count(P, l) + Number(W, A, l) = Count(W, l) + Number(P, S, l)
  BY DEF Due
<1>2. DOMAIN Q = DOMAIN P \cup {n} /\ Q[n] = W[i] /\ \A j \in DOMAIN P : Q[j] = P[j]
  BY DEF Extended
<1> HIDE DEF Q
<1>3. Number(Q, S, l) = Number(P, S, l)
  <2>1. OfKind(Q, S, l) = OfKind(P, S, l)
    BY <1>2 DEF OfKind
  <2> QED BY <2>1 DEF Number
<1>4. Count(Q, l) = IF W[i] = l THEN Count(P, l) + 1 ELSE Count(P, l)
  <2>1. IsFiniteSet(OfKind(P, DOMAIN P, l)) /\ n \notin OfKind(P, DOMAIN P, l)
    BY NumberType DEF OfKind
  <2>2. CASE W[i] = l
    <3>1. OfKind(Q, DOMAIN Q, l) = OfKind(P, DOMAIN P, l) \cup {n}
      BY <1>2, <2>2 DEF OfKind
    <3>2. Count(Q, l) = Cardinality(OfKind(P, DOMAIN P, l) \cup {n})
      BY <3>1 DEF Count, OfKind
    <3>3. Count(P, l) = Cardinality(OfKind(P, DOMAIN P, l))
      BY DEF Count, OfKind
    <3> QED BY <2>1, <2>2, <3>2, <3>3, OneMore
  <2>3. CASE W[i] # l
    <3>1. OfKind(Q, DOMAIN Q, l) = OfKind(P, DOMAIN P, l)
      BY <1>2, <2>3 DEF OfKind
    <3> QED BY <2>3, <3>1 DEF Count, OfKind
  <2> QED BY <2>2, <2>3
<1>5. Number(W, A, l) = IF W[i] = l THEN Number(W, A \ {i}, l) + 1
                        ELSE Number(W, A \ {i}, l)
  <2>1. IsFiniteSet(OfKind(W, A \ {i}, l)) /\ i \notin OfKind(W, A \ {i}, l)
    BY NumberType DEF OfKind
  <2>2. CASE W[i] = l
    <3>1. OfKind(W, A, l) = OfKind(W, A \ {i}, l) \cup {i}
      BY <2>2 DEF OfKind
    <3> QED BY <2>1, <2>2, <3>1, OneMore DEF Number
  <2>3. CASE W[i] # l
    <3>1. OfKind(W, A, l) = OfKind(W, A \ {i}, l)
      BY <2>3 DEF OfKind
    <3> QED BY <2>3, <3>1 DEF Number
  <2> QED BY <2>2, <2>3
<1>6. /\ Count(P, l) \in Nat /\ Count(W, l) \in Nat
      /\ Number(W, A \ {i}, l) \in Nat /\ Number(P, S, l) \in Nat
  BY NumberType
<1> QED BY <1>1, <1>3, <1>4, <1>5, <1>6

(* A list less.                                                            *)
Shortened(P, n) == [j \in DOMAIN P \ {n} |-> P[j]]

LEMMA DeletingKeepsDue ==
  ASSUME NEW P \in ListTable, NEW W \in ListTable, NEW S \in SUBSET DOMAIN P,
         NEW n \in S, Shortened(P, n) \in ListTable, Due(P, W, {}, S)
  PROVE  Due(Shortened(P, n), W, {}, S \ {n})
<1> DEFINE Q == Shortened(P, n)
<1> SUFFICES ASSUME NEW l \in SIDList
             PROVE  Count(Q, l) + Number(W, {}, l) = Count(W, l) + Number(Q, S \ {n}, l)
  BY DEF Due
<1>1. Count(P, l) + Number(W, {}, l) = Count(W, l) + Number(P, S, l)
  BY DEF Due
<1>2. Q \in ListTable /\ DOMAIN Q = DOMAIN P \ {n} /\ \A j \in DOMAIN Q : Q[j] = P[j]
  BY DEF Shortened
<1> HIDE DEF Q
<1>3. Number(Q, S \ {n}, l) = Number(P, S \ {n}, l)
  <2>1. OfKind(Q, S \ {n}, l) = OfKind(P, S \ {n}, l)
    BY <1>2 DEF OfKind
  <2> QED BY <2>1 DEF Number
<1>4. Count(P, l) = IF P[n] = l THEN Count(Q, l) + 1 ELSE Count(Q, l)
  <2>1. IsFiniteSet(OfKind(Q, DOMAIN Q, l)) /\ n \notin OfKind(Q, DOMAIN Q, l)
    <3>1. IsFiniteSet(OfKind(Q, DOMAIN Q, l))
      BY <1>2, NumberType
    <3> QED BY <1>2, <3>1 DEF OfKind
  <2>2. CASE P[n] = l
    <3>1. OfKind(P, DOMAIN P, l) = OfKind(Q, DOMAIN Q, l) \cup {n}
      BY <1>2, <2>2 DEF OfKind
    <3>2. Count(P, l) = Cardinality(OfKind(Q, DOMAIN Q, l) \cup {n})
      BY <3>1 DEF Count, OfKind
    <3>3. Count(Q, l) = Cardinality(OfKind(Q, DOMAIN Q, l))
      BY DEF Count, OfKind
    <3> QED BY <2>1, <2>2, <3>2, <3>3, OneMore
  <2>3. CASE P[n] # l
    <3>1. OfKind(P, DOMAIN P, l) = OfKind(Q, DOMAIN Q, l)
      BY <1>2, <2>3 DEF OfKind
    <3> QED BY <2>3, <3>1 DEF Count, OfKind
  <2> QED BY <2>2, <2>3
<1>5. Number(P, S, l) = IF P[n] = l THEN Number(P, S \ {n}, l) + 1
                        ELSE Number(P, S \ {n}, l)
  <2>1. IsFiniteSet(OfKind(P, S \ {n}, l)) /\ n \notin OfKind(P, S \ {n}, l)
    BY NumberType DEF OfKind
  <2>2. CASE P[n] = l
    <3>1. OfKind(P, S, l) = OfKind(P, S \ {n}, l) \cup {n}
      BY <2>2 DEF OfKind
    <3> QED BY <2>1, <2>2, <3>1, OneMore DEF Number
  <2>3. CASE P[n] # l
    <3>1. OfKind(P, S, l) = OfKind(P, S \ {n}, l)
      BY <2>3 DEF OfKind
    <3> QED BY <2>3, <3>1 DEF Number
  <2> QED BY <2>2, <2>3
<1>6. /\ Count(Q, l) \in Nat /\ Count(W, l) \in Nat
      /\ Number(W, {}, l) \in Nat /\ Number(P, S \ {n}, l) \in Nat
  <2>1. Count(Q, l) \in Nat
    BY <1>2, NumberType
  <2>2. S \ {n} \in SUBSET DOMAIN P /\ {} \in SUBSET DOMAIN W
    OBVIOUS
  <2> QED BY <2>1, <2>2, NumberType
<1> QED BY <1>1, <1>3, <1>4, <1>5, <1>6

Image(f) == {f[i] : i \in DOMAIN f}

(* A list is in a table that counts it.                                    *)
LEMMA ImageIsCounted ==
  ASSUME NEW f \in ListTable
  PROVE  /\ Image(f) \subseteq SIDList
         /\ \A l : l \in Image(f) <=> Count(f, l) # 0
<1>1. Image(f) \subseteq SIDList
  BY TableIsFunction DEF Image
<1>2. ASSUME NEW l PROVE l \in Image(f) <=> Count(f, l) # 0
  <2>1. l \in Image(f) <=> OfKind(f, DOMAIN f, l) # {}
    BY DEF Image, OfKind
  <2>2. Number(f, DOMAIN f, l) = 0 <=> OfKind(f, DOMAIN f, l) = {}
    BY NumberType
  <2>3. Count(f, l) = Number(f, DOMAIN f, l)
    BY NumberType
  <2> QED BY <2>1, <2>2, <2>3
<1> QED BY <1>1, <1>2

LEMMA NoneIsZero ==
  ASSUME NEW f \in ListTable, NEW l
  PROVE  Number(f, {}, l) = 0
BY NumberType DEF OfKind

(* With nothing left to do the table is the one that is wanted.            *)
LEMMA DueDone ==
  ASSUME NEW P \in ListTable, NEW W \in ListTable, Due(P, W, {}, {})
  PROVE  SameLists(P, W) /\ Image(P) = Image(W)
<1>1. ASSUME NEW l \in SIDList PROVE Count(P, l) = Count(W, l)
  <2>1. Count(P, l) + Number(W, {}, l) = Count(W, l) + Number(P, {}, l)
    BY DEF Due
  <2>2. Number(W, {}, l) = 0 /\ Number(P, {}, l) = 0
    BY NoneIsZero
  <2>3. Count(P, l) \in Nat /\ Count(W, l) \in Nat
    BY NumberType
  <2> QED BY <2>1, <2>2, <2>3
<1>2. Image(P) \subseteq SIDList /\ Image(W) \subseteq SIDList
  BY ImageIsCounted
<1>3. Image(P) = Image(W)
  BY <1>1, <1>2, ImageIsCounted
<1>4. SameLists(P, W)
  BY <1>1, <1>2 DEF SameLists, Image
<1> QED BY <1>3, <1>4

(* While lists are only added, what is there is wanted.                    *)
LEMMA DueAdding ==
  ASSUME NEW P \in ListTable, NEW W \in ListTable, NEW A \in SUBSET DOMAIN W,
         Due(P, W, A, {})
  PROVE  Image(P) \subseteq Image(W)
<1> SUFFICES ASSUME NEW l \in Image(P) PROVE Count(W, l) # 0
  BY ImageIsCounted
<1>1. l \in SIDList /\ Count(P, l) # 0
  BY ImageIsCounted
<1>2. Count(P, l) + Number(W, A, l) = Count(W, l) + Number(P, {}, l)
  BY <1>1 DEF Due
<1>3. Number(P, {}, l) = 0
  BY NoneIsZero
<1>4. Count(P, l) \in Nat /\ Count(W, l) \in Nat /\ Number(W, A, l) \in Nat
  BY NumberType
<1> QED BY <1>1, <1>2, <1>3, <1>4

(* While lists are only deleted, what is wanted is there.                  *)
LEMMA DueDeleting ==
  ASSUME NEW P \in ListTable, NEW W \in ListTable, NEW S \in SUBSET DOMAIN P,
         Due(P, W, {}, S)
  PROVE  Image(W) \subseteq Image(P)
<1> SUFFICES ASSUME NEW l \in Image(W) PROVE Count(P, l) # 0
  BY ImageIsCounted
<1>1. l \in SIDList /\ Count(W, l) # 0
  BY ImageIsCounted
<1>2. Count(P, l) + Number(W, {}, l) = Count(W, l) + Number(P, S, l)
  BY <1>1 DEF Due
<1>3. Number(W, {}, l) = 0
  BY NoneIsZero
<1>4. Count(P, l) \in Nat /\ Count(W, l) \in Nat /\ Number(P, S, l) \in Nat
  BY NumberType
<1> QED BY <1>1, <1>2, <1>3, <1>4

-----------------------------------------------------------------------------
(* The tables of the policy that is programmed.                            *)

LEMMA WantedIsTable ==
  ASSUME NEW p \in Paths
  PROVE  /\ Wanted(p) \in ListTable
         /\ DOMAIN Wanted(p) = DOMAIN Want(p)
         /\ DOMAIN Wanted(p) = 1..Len(Want(p))
         /\ 1 \in DOMAIN Wanted(p)
         /\ \A i \in DOMAIN Wanted(p) :
              /\ Wanted(p)[i] = Rendering(Want(p)[i])
              /\ Wanted(p)[i] \in SIDList
<1>1. /\ DOMAIN Wanted(p) = DOMAIN Want(p)
      /\ \A i \in DOMAIN Wanted(p) : Wanted(p)[i] = Rendering(Want(p)[i])
  BY DEF Wanted
<1>2. /\ Len(Want(p)) \in Nat
      /\ DOMAIN Want(p) = 1..Len(Want(p))
      /\ 1 \in DOMAIN Want(p)
      /\ \A i \in DOMAIN Want(p) : Rendering(Want(p)[i]) \in SIDList
  BY WantTyped
<1>3. IsFiniteSet(DOMAIN Wanted(p)) /\ DOMAIN Wanted(p) \subseteq Nat
  BY <1>1, <1>2, FS_Interval
<1>4. Wanted(p) = [i \in DOMAIN Wanted(p) |-> Wanted(p)[i]]
  BY DEF Wanted
<1>5. Wanted(p) \in ListTable
  BY <1>1, <1>2, <1>3, <1>4, TableIsFunction
<1> QED BY <1>1, <1>2, <1>5

LEMMA WithListExtends ==
  ASSUME NEW v \in Plane, NEW b \in BSID, NEW l \in SIDList
  PROVE  \E n : /\ n \notin DOMAIN v.policies[b]
                /\ WithList(v, b, l).policies[b] = Extended(v.policies[b], n, l)
<1> DEFINE P == v.policies[b]
           n == CHOOSE m \in 0..Cardinality(DOMAIN P) : m \notin DOMAIN P
<1>1. n \notin DOMAIN P
  <2>1. P \in ListTable
    BY DEF Plane
  <2> QED BY <2>1, TableIsFunction, FreeIndex
<1>2. WithList(v, b, l) = [v EXCEPT !.policies[b] = Extended(P, n, l)]
  BY DEF WithList, Extended
<1> HIDE DEF n
<1>3. [v EXCEPT !.policies[b] = Extended(P, n, l)].policies[b] = Extended(P, n, l)
  BY DEF Plane
<1> QED BY <1>1, <1>2, <1>3

LEMMA WithoutListShortens ==
  ASSUME NEW v \in Plane, NEW b \in BSID, NEW n
  PROVE  WithoutList(v, b, n).policies[b] = Shortened(v.policies[b], n)
BY DEF WithoutList, Shortened, Plane

(* What one request makes of what is due.                                  *)
OneLess(v, b, W, A, S, i) ==
  LET Q == WithList(v, b, W[i]).policies[b] IN
  /\ Q \in ListTable
  /\ Image(Q) = Image(v.policies[b]) \cup {W[i]}
  /\ Due(v.policies[b], W, A, S) => Due(Q, W, A \ {i}, S)

LEMMA AddedList ==
  ASSUME NEW v \in Plane, NEW b \in BSID, NEW W \in ListTable,
         NEW A \in SUBSET DOMAIN W, NEW S \in SUBSET DOMAIN v.policies[b],
         NEW i \in A
  PROVE  OneLess(v, b, W, A, S, i)
<1> DEFINE P == v.policies[b]
           Q == WithList(v, b, W[i]).policies[b]
<1>1. W[i] \in SIDList
  BY TableIsFunction
<1>2. Q \in ListTable /\ P \in ListTable
  BY <1>1, WithListAdds DEF Plane
<1>3. PICK n : n \notin DOMAIN P /\ Q = Extended(P, n, W[i])
  BY <1>1, WithListExtends
<1> HIDE DEF P, Q
<1>4. Image(Q) = Image(P) \cup {W[i]}
  BY <1>3 DEF Image, Extended
<1>5. Due(P, W, A, S) => Due(Q, W, A \ {i}, S)
  BY <1>2, <1>3, AddingKeepsDue DEF P
<1> QED BY <1>2, <1>4, <1>5 DEF P, Q, OneLess

OneFewer(v, b, W, S, n) ==
  LET Q == WithoutList(v, b, n).policies[b] IN
  /\ Q \in ListTable
  /\ DOMAIN Q = DOMAIN v.policies[b] \ {n}
  /\ Image(Q) \subseteq Image(v.policies[b])
  /\ Due(v.policies[b], W, {}, S) => Due(Q, W, {}, S \ {n})

LEMMA DeletedList ==
  ASSUME NEW v \in Plane, NEW b \in BSID, NEW W \in ListTable,
         NEW S \in SUBSET DOMAIN v.policies[b], NEW n \in S
  PROVE  OneFewer(v, b, W, S, n)
<1> DEFINE P == v.policies[b]
           Q == WithoutList(v, b, n).policies[b]
<1>1. Q = Shortened(P, n)
  BY WithoutListShortens
<1>2. Q \in ListTable /\ P \in ListTable /\ DOMAIN Q = DOMAIN P \ {n}
  BY WithoutListDeletes DEF Plane
<1> HIDE DEF P, Q
<1>3. Image(Q) \subseteq Image(P)
  BY <1>1 DEF Image, Shortened
<1>4. Due(P, W, {}, S) => Due(Q, W, {}, S \ {n})
  BY <1>1, <1>2, DeletingKeepsDue DEF P
<1> QED BY <1>2, <1>3, <1>4 DEF P, Q, OneFewer

-----------------------------------------------------------------------------
(* Outcomes that the port allows.                                          *)

LEMMA InstallOutcomes ==
  ASSUME NEW d, NEW b, NEW L
  PROVE  LET Out == Port!InstallPolicy(d, b, L) IN
         /\ [dp |-> Port!WithPolicy(d, b, L), ok |-> TRUE] \in Out
         /\ Refusals /\ Unacked =>
              /\ [dp |-> d, ok |-> FALSE] \in Out
              /\ \A M \in SUBSET L : [dp |-> Port!WithPolicy(d, b, M), ok |-> FALSE] \in Out
<1> DEFINE Out == Port!InstallPolicy(d, b, L)
           Full == Port!WithPolicy(d, b, L)
           Parts == {d} \cup {Port!WithPolicy(d, b, M) : M \in (SUBSET L) \ {L}}
<1>1. [dp |-> Full, ok |-> TRUE] \in Out
  BY DEF Port!InstallPolicy, Port!Done
<1>2. ASSUME Refusals, Unacked
      PROVE  /\ \A x \in Parts : [dp |-> x, ok |-> FALSE] \in Out
             /\ [dp |-> Full, ok |-> FALSE] \in Out
  <2>1. Out = {[dp |-> Full, ok |-> TRUE]}
                \cup {[dp |-> x, ok |-> FALSE] : x \in Parts}
                \cup {[dp |-> x, ok |-> FALSE] : x \in {Full}}
    BY <1>2 DEF Port!InstallPolicy, Port!Done, Port!Failed, Port!Faulty, Port!Silent,
       Port!ProperSubsets
  <2> HIDE DEF Out, Full, Parts
  <2> QED BY <2>1
<1> HIDE DEF Out
<1> QED BY <1>1, <1>2 DEF Out

LEMMA UpdateOutcomes ==
  ASSUME NEW d, NEW b, NEW L
  PROVE  LET Out == Port!UpdateInPlace(d, b, L)
             has == d.policies[b] IN
         /\ [dp |-> Port!WithPolicy(d, b, L), ok |-> TRUE] \in Out
         /\ Refusals /\ Unacked =>
              \A M :
                \/ has = {} /\ M \subseteq L
                \/ has # {} /\ has \subseteq M /\ M \subseteq has \cup L
                \/ has # {} /\ L \subseteq M /\ M \subseteq has \cup L
                => [dp |-> Port!WithPolicy(d, b, M), ok |-> FALSE] \in Out
         /\ Refusals /\ Unacked /\ has = {} => [dp |-> d, ok |-> FALSE] \in Out
<1> DEFINE Out == Port!UpdateInPlace(d, b, L)
           has == d.policies[b]
           With(M) == Port!WithPolicy(d, b, M)
<1>1. CASE has = {}
  <2>1. Port!InstallPolicy(d, b, L) \subseteq Out
    BY <1>1 DEF Port!UpdateInPlace
  <2> HIDE DEF Out, has
  <2> QED BY <1>1, <2>1, InstallOutcomes DEF Out, has
<1>2. CASE has # {}
  <2> DEFINE Adding == {has \cup A : A \in (SUBSET (L \ has)) \ {L \ has}}
             Deleting == {(has \cup L) \ S : S \in (SUBSET (has \ L)) \ {has \ L}}
             Partial == {has} \cup Adding \cup Deleting
  <2>1. [dp |-> With(L), ok |-> TRUE] \in Out
    BY <1>2 DEF Port!UpdateInPlace, Port!Done
  <2>2. ASSUME Refusals, Unacked
        PROVE  \A M \in Partial \cup {has \cup L, L} :
                 [dp |-> With(M), ok |-> FALSE] \in Out
    <3>1. Port!Failed({With(M) : M \in Partial}) \subseteq Out
      BY <1>2, <2>2 DEF Port!UpdateInPlace, Port!Faulty, Port!ProperSubsets
    <3>2. Port!Failed({With(M) : M \in {has \cup L, L}}) \subseteq Out
      BY <1>2, <2>2 DEF Port!UpdateInPlace, Port!Faulty, Port!Silent
    <3> HIDE DEF Out, Partial, With, has
    <3> QED BY <3>1, <3>2 DEF Port!Failed
  <2>3. ASSUME NEW M, has \subseteq M, M \subseteq has \cup L
        PROVE  M \in Partial \cup {has \cup L, L}
    <3>1. M = has \cup (M \cap (L \ has)) /\ M \cap (L \ has) \in SUBSET (L \ has)
      BY <2>3
    <3>2. M \cap (L \ has) = L \ has => M = has \cup L
      BY <2>3
    <3> HIDE DEF has
    <3> QED BY <3>1, <3>2
  <2>4. ASSUME NEW M, L \subseteq M, M \subseteq has \cup L
        PROVE  M \in Partial \cup {has \cup L, L}
    <3> DEFINE S == (has \ L) \ M
    <3>1. M = (has \cup L) \ S /\ S \in SUBSET (has \ L)
      BY <2>4
    <3>2. S = has \ L => M = L
      BY <2>4
    <3> HIDE DEF has, S
    <3> QED BY <3>1, <3>2
  <2> HIDE DEF Out, has, With, Partial
  <2> QED BY <1>2, <2>1, <2>2, <2>3, <2>4 DEF Out, has, With
<1> QED BY <1>1, <1>2

LEMMA SteerOutcomes ==
  ASSUME NEW x, NEW k, NEW b
  PROVE  LET Out == Port!SteerTo(x, k, b)
             To(c) == Port!WithSteering(x, EndpointOf[k], c) IN
         /\ k \notin Steerable => [dp |-> x, ok |-> TRUE] \in Out
         /\ k \in Steerable => [dp |-> To(b), ok |-> TRUE] \in Out
         /\ k \in Steerable /\ Refusals /\ Unacked =>
              \A y \in {x, To(NoAddr), To(b)} : [dp |-> y, ok |-> FALSE] \in Out
BY DEF Port!SteerTo, Port!Done, Port!Failed, Port!Faulty, Port!Silent

LEMMA DeleteOutcomes ==
  ASSUME NEW x, NEW b
  PROVE  LET Out == Port!DeletePolicy(x, b)
             gone == Port!WithPolicy(x, b, {}) IN
         /\ [dp |-> gone, ok |-> TRUE] \in Out
         /\ Refusals => [dp |-> x, ok |-> FALSE] \in Out
         /\ Refusals /\ Unacked => [dp |-> gone, ok |-> FALSE] \in Out
BY DEF Port!DeletePolicy, Port!Done, Port!Failed, Port!Faulty, Port!Silent

(* The lists that a path is rendered with are the ones the adapter wants.  *)
LEMMA RenderedIsWanted ==
  ASSUME NEW p \in Paths
  PROVE  AsPath(p).bsid = p.bsid /\ Port!Rendered(AsPath(p)) = Image(Wanted(p))
<1> DEFINE valid == {p.sls[i] : i \in {j \in DOMAIN p.sls : ListValid(p.sls[j])}}
<1>1. {Want(p)[i] : i \in DOMAIN Want(p)} = valid
  BY WantedLists DEF ElementsOf
<1>2. Image(Wanted(p)) = {Rendering(sl) : sl \in {Want(p)[i] : i \in DOMAIN Want(p)}}
  BY DEF Image, Wanted
<1>3. Port!ValidSegmentLists(AsPath(p)) = valid
  BY DEF Port!ValidSegmentLists, AsPath, Port!ListValid, ListValid
<1>4. Port!Rendered(AsPath(p)) = {Rendering(sl) : sl \in valid}
  BY <1>3 DEF Port!Rendered, Rendering
<1>5. AsPath(p).bsid = p.bsid
  BY DEF AsPath
<1> HIDE DEF valid
<1> QED BY <1>1, <1>2, <1>4, <1>5

LEMMA OutcomesOfCall ==
  ASSUME call \in Call, pc # "idle"
  PROVE  LET Out == Port!Outcomes(AsCall(call))
             d == Lists(before)
             path == AsPath(call.path)
             prev == [bsid |-> call.old] IN
         /\ AsCall(call) # Port!NoCall
         /\ call.op = "Add" => Out = Port!Add(d, call.key, path)
         /\ call.op = "Replace" => Out = Port!Replace(d, call.key, prev, path)
         /\ call.op = "Remove" => Out = Port!Remove(d, call.key, prev)
         /\ call.op = "RemoveBSID" => Out = Port!RemoveBSID(d, call.old)
         /\ call.op = "InstallDrop" => Out = Port!InstallDrop(d, call.key)
         /\ call.op = "RemoveDrop" => Out = Port!RemoveDrop(d, call.key)
<1> DEFINE c == AsCall(call)
<1>1. /\ c.op = call.op /\ c.key = call.key /\ c.old = call.old
      /\ c.path = AsPath(call.path)
      /\ call.op # "none"
  BY DEF Call, AsCall, NoCall
<1>2. (IF pc = "idle" THEN vpp ELSE before) = before
  OBVIOUS
<1>3. c # Port!NoCall
  <2>1. Port!NoCall.op = "none"
    BY DEF Port!NoCall
  <2> QED BY <1>1, <2>1
<1> HIDE DEF c
<1>4. c = AsCall(call)
  BY DEF c
<1> QED BY <1>1, <1>2, <1>3, <1>4 DEF Port!Outcomes

(* The dataplane with other lists in the target and another steering.      *)
Shape(M, s) ==
  [policies |-> [Lists(before).policies EXCEPT ![target] = M],
   steering |-> s,
   drops |-> before.drops]

Moved(b) == [before.steering EXCEPT ![endpoint] = b]
Final == IF call.key \in Steerable THEN Moved(target) ELSE before.steering
Goal == Image(Wanted(call.path))
Found == Image(before.policies[target])

Permitted(d, ok) == [dp |-> d, ok |-> ok] \in Port!Outcomes(AsCall(call))

LEMMA Shapes ==
  ASSUME before \in Plane, target \in BSID, endpoint \in Endpoint
  PROVE  /\ \A M : Port!WithPolicy(Lists(before), target, M) = Shape(M, before.steering)
         /\ \A M, b : Port!WithSteering(Shape(M, before.steering), endpoint, b)
                        = Shape(M, Moved(b))
         /\ Lists(before) = Shape(Found, before.steering)
         /\ Lists(before).policies[target] = Found
         /\ Found = {} <=> ~Has(before, target)
<1>1. \A M : Port!WithPolicy(Lists(before), target, M) = Shape(M, before.steering)
  <2> DEFINE d == Lists(before)
  <2>1. /\ d = [policies |-> d.policies, steering |-> d.steering, drops |-> d.drops]
        /\ d.steering = before.steering
        /\ d.drops = before.drops
    BY DEF Lists
  <2> HIDE DEF d
  <2>2. ASSUME NEW M
        PROVE  Port!WithPolicy(d, target, M)
                 = [policies |-> [d.policies EXCEPT ![target] = M],
                    steering |-> d.steering, drops |-> d.drops]
    BY <2>1 DEF Port!WithPolicy
  <2> QED BY <2>1, <2>2 DEF d, Shape
<1>2. \A M, b : Port!WithSteering(Shape(M, before.steering), endpoint, b)
                  = Shape(M, Moved(b))
  <2> SUFFICES ASSUME NEW M, NEW b
               PROVE  Port!WithSteering(Shape(M, before.steering), endpoint, b)
                        = Shape(M, Moved(b))
    OBVIOUS
  <2>1. Port!WithSteering(Shape(M, before.steering), endpoint, b)
          = [Shape(M, before.steering) EXCEPT !.steering = Moved(b)]
    BY DEF Port!WithSteering, Shape, Moved
  <2> QED BY <2>1 DEF Shape
<1>3. Lists(before).policies[target] = Found
  BY DEF Lists, Found, Image
<1>4. Lists(before) = Shape(Found, before.steering)
  <2>1. Lists(before).policies = [Lists(before).policies EXCEPT ![target] = Found]
    BY DEF Lists, Found, Image
  <2> QED BY <2>1 DEF Lists, Shape
<1>5. Found = {} <=> ~Has(before, target)
  BY DEF Found, Image, Has
<1> QED BY <1>1, <1>2, <1>3, <1>4, <1>5

(* What an Add, or a Replace by a path with another BSID, may leave when   *)
(* it fails.                                                               *)
HalfDone(d) ==
  \/ d = Lists(before)
  \/ \E M \in SUBSET Goal : d = Shape(M, before.steering)
  \/ /\ call.key \in Steerable
     /\ \E s \in {before.steering, Moved(NoAddr), Moved(target)} : d = Shape(Goal, s)

LEMMA ProgramParts ==
  ASSUME before \in Plane, target \in BSID, endpoint \in Endpoint
  PROVE  LET In == Port!InstallPolicy(Lists(before), target, Goal)
             SteerIt(y) == Port!SteerTo(y, call.key, target)
             Out == Port!Then(In, SteerIt) IN
         /\ [dp |-> Shape(Goal, Final), ok |-> TRUE] \in Out
         /\ Refusals /\ Unacked =>
              \A d : HalfDone(d) => [dp |-> d, ok |-> FALSE] \in Out
<1> DEFINE In == Port!InstallPolicy(Lists(before), target, Goal)
           SteerIt(y) == Port!SteerTo(y, call.key, target)
           Out == Port!Then(In, SteerIt)
           Full == Shape(Goal, before.steering)
<1>1. [dp |-> Full, ok |-> TRUE] \in In
  BY InstallOutcomes, Shapes
<1>2. Refusals /\ Unacked =>
        /\ [dp |-> Lists(before), ok |-> FALSE] \in In
        /\ \A M \in SUBSET Goal : [dp |-> Shape(M, before.steering), ok |-> FALSE] \in In
  BY InstallOutcomes, Shapes
<1> HIDE DEF In
<1>3. \A o \in In : ~o.ok => o \in Out
  BY DEF Port!Then
<1>4. \A o \in In : o.ok => SteerIt(o.dp) \subseteq Out
  BY DEF Port!Then
<1> HIDE DEF Out
<1>5. SteerIt(Full) \subseteq Out
  BY <1>1, <1>4
<1>6. \A b : Port!WithSteering(Full, EndpointOf[call.key], b) = Shape(Goal, Moved(b))
  BY Shapes DEF endpoint
<1> HIDE DEF Full
<1>7. /\ call.key \notin Steerable => [dp |-> Full, ok |-> TRUE] \in SteerIt(Full)
      /\ call.key \in Steerable =>
           [dp |-> Shape(Goal, Moved(target)), ok |-> TRUE] \in SteerIt(Full)
      /\ call.key \in Steerable /\ Refusals /\ Unacked =>
           \A y \in {Full, Shape(Goal, Moved(NoAddr)), Shape(Goal, Moved(target))} :
             [dp |-> y, ok |-> FALSE] \in SteerIt(Full)
  BY <1>6, SteerOutcomes
<1> HIDE DEF SteerIt
<1>8. [dp |-> Shape(Goal, Final), ok |-> TRUE] \in Out
  BY <1>5, <1>7 DEF Final, Full
<1>9. ASSUME Refusals, Unacked, NEW d, HalfDone(d)
      PROVE  [dp |-> d, ok |-> FALSE] \in Out
  <2>1. CASE d = Lists(before)
    BY <1>2, <1>3, <1>9, <2>1
  <2>2. ASSUME NEW M \in SUBSET Goal, d = Shape(M, before.steering)
        PROVE  [dp |-> d, ok |-> FALSE] \in Out
    BY <1>2, <1>3, <1>9, <2>2
  <2>3. ASSUME call.key \in Steerable,
               NEW s \in {before.steering, Moved(NoAddr), Moved(target)},
               d = Shape(Goal, s)
        PROVE  [dp |-> d, ok |-> FALSE] \in Out
    BY <1>5, <1>7, <1>9, <2>3 DEF Full
  <2> QED BY <1>9, <2>1, <2>2, <2>3 DEF HalfDone
<1> QED BY <1>8, <1>9 DEF Out, SteerIt, In

LEMMA AddPermits ==
  ASSUME call \in Call, call.op = "Add", pc # "idle", before \in Plane
  PROVE  /\ Permitted(Shape(Goal, Final), TRUE)
         /\ Refusals /\ Unacked => \A d : HalfDone(d) => Permitted(d, FALSE)
<1> DEFINE In == Port!InstallPolicy(Lists(before), target, Goal)
           SteerIt(y) == Port!SteerTo(y, call.key, target)
           Out == Port!Then(In, SteerIt)
<1>1. call.path \in Paths /\ target \in BSID /\ endpoint \in Endpoint
  BY CallFields DEF Programming
<1>2. Port!Outcomes(AsCall(call)) = Port!Add(Lists(before), call.key, AsPath(call.path))
  BY OutcomesOfCall
<1>3. AsPath(call.path).bsid = target /\ Port!Rendered(AsPath(call.path)) = Goal
  BY <1>1, RenderedIsWanted DEF Goal, target
<1>4. Port!Add(Lists(before), call.key, AsPath(call.path)) = Out
  BY <1>3 DEF Port!Add, Port!Then
<1> HIDE DEF Out, In, SteerIt
<1> QED BY <1>1, <1>2, <1>4, ProgramParts DEF Permitted, Out, In, SteerIt

LEMMA OtherAnswer ==
  ASSUME NEW d, NEW x, NEW y
  PROVE  [[dp |-> d, ok |-> x] EXCEPT !.ok = y] = [dp |-> d, ok |-> y]
OBVIOUS

LEMMA MovePermits ==
  ASSUME call \in Call, call.op = "Replace", ~InPlace, pc # "idle", before \in Plane
  PROVE  /\ Permitted(Port!WithPolicy(Shape(Goal, Final), call.old, {}), TRUE)
         /\ Refusals => Permitted(Shape(Goal, Final), TRUE)
         /\ Refusals /\ Unacked => \A d : HalfDone(d) => Permitted(d, FALSE)
<1> DEFINE In == Port!InstallPolicy(Lists(before), target, Goal)
           SteerIt(y) == Port!SteerTo(y, call.key, target)
           DropOld(y) == {[o EXCEPT !.ok = TRUE] : o \in Port!DeletePolicy(y, call.old)}
           First == Port!Then(In, SteerIt)
           Out == Port!Then(First, DropOld)
           Full == Shape(Goal, Final)
           Gone == Port!WithPolicy(Full, call.old, {})
<1>1. /\ call.path \in Paths /\ target \in BSID /\ endpoint \in Endpoint
      /\ call.old # target
  BY CallFields DEF Programming, InPlace
<1>2. Port!Outcomes(AsCall(call)) =
        Port!Replace(Lists(before), call.key, [bsid |-> call.old], AsPath(call.path))
  BY OutcomesOfCall
<1>3. AsPath(call.path).bsid = target /\ Port!Rendered(AsPath(call.path)) = Goal
  BY <1>1, RenderedIsWanted DEF Goal, target
<1>4. Port!Replace(Lists(before), call.key, [bsid |-> call.old], AsPath(call.path)) = Out
  BY <1>1, <1>3 DEF Port!Replace, Port!Then
<1>5. /\ [dp |-> Full, ok |-> TRUE] \in First
      /\ Refusals /\ Unacked => \A d : HalfDone(d) => [dp |-> d, ok |-> FALSE] \in First
  BY <1>1, ProgramParts
<1> HIDE DEF First
<1>6. /\ \A o \in First : ~o.ok => o \in Out
      /\ \A o \in First : o.ok => DropOld(o.dp) \subseteq Out
  BY DEF Port!Then
<1> HIDE DEF Out, Full
<1>7. DropOld(Full) \subseteq Out
  BY <1>5, <1>6
<1>8. /\ [dp |-> Gone, ok |-> TRUE] \in Port!DeletePolicy(Full, call.old)
      /\ Refusals => [dp |-> Full, ok |-> FALSE] \in Port!DeletePolicy(Full, call.old)
  BY DeleteOutcomes
<1> HIDE DEF Gone
<1>9. [dp |-> Gone, ok |-> TRUE] \in DropOld(Full)
  <2>1. [[dp |-> Gone, ok |-> TRUE] EXCEPT !.ok = TRUE] = [dp |-> Gone, ok |-> TRUE]
    BY OtherAnswer
  <2> QED BY <1>8, <2>1
<1>10. Refusals => [dp |-> Full, ok |-> TRUE] \in DropOld(Full)
  <2>1. [[dp |-> Full, ok |-> FALSE] EXCEPT !.ok = TRUE] = [dp |-> Full, ok |-> TRUE]
    BY OtherAnswer
  <2> QED BY <1>8, <2>1
<1> HIDE DEF DropOld
<1>11. Refusals /\ Unacked => \A d : HalfDone(d) => [dp |-> d, ok |-> FALSE] \in Out
  BY <1>5, <1>6
<1>12. /\ [dp |-> Gone, ok |-> TRUE] \in Out
       /\ Refusals => [dp |-> Full, ok |-> TRUE] \in Out
  BY <1>7, <1>9, <1>10
<1> QED BY <1>2, <1>4, <1>11, <1>12 DEF Permitted, Gone, Full

(* What a Replace by a path with the same BSID may leave when it fails.    *)
HalfUpdated(d) ==
  \/ d = Lists(before)
  \/ \E M \in SUBSET (Found \cup Goal) :
       /\ d = Shape(M, before.steering)
       /\ Found = {} \/ Found \subseteq M \/ Goal \subseteq M

LEMMA UpdatePermits ==
  ASSUME call \in Call, call.op = "Replace", InPlace, pc # "idle", before \in Plane
  PROVE  /\ Permitted(Shape(Goal, before.steering), TRUE)
         /\ Refusals /\ Unacked => \A d : HalfUpdated(d) => Permitted(d, FALSE)
<1> DEFINE Out == Port!UpdateInPlace(Lists(before), target, Goal)
<1>1. /\ call.path \in Paths /\ target \in BSID /\ endpoint \in Endpoint
      /\ call.old = target
  BY CallFields DEF Programming, InPlace
<1>2. Port!Outcomes(AsCall(call)) =
        Port!Replace(Lists(before), call.key, [bsid |-> call.old], AsPath(call.path))
  BY OutcomesOfCall
<1>3. AsPath(call.path).bsid = target /\ Port!Rendered(AsPath(call.path)) = Goal
  BY <1>1, RenderedIsWanted DEF Goal, target
<1>4. Port!Replace(Lists(before), call.key, [bsid |-> call.old], AsPath(call.path)) = Out
  BY <1>1, <1>3 DEF Port!Replace
<1>5. Lists(before).policies[target] = Found
  BY <1>1, Shapes
<1>6. \A M : Port!WithPolicy(Lists(before), target, M) = Shape(M, before.steering)
  BY <1>1, Shapes
<1>7. [dp |-> Shape(Goal, before.steering), ok |-> TRUE] \in Out
  BY <1>6, UpdateOutcomes
<1>8. ASSUME Refusals, Unacked
      PROVE  /\ \A M :
                  \/ Found = {} /\ M \subseteq Goal
                  \/ Found # {} /\ Found \subseteq M /\ M \subseteq Found \cup Goal
                  \/ Found # {} /\ Goal \subseteq M /\ M \subseteq Found \cup Goal
                  => [dp |-> Shape(M, before.steering), ok |-> FALSE] \in Out
             /\ Found = {} => [dp |-> Lists(before), ok |-> FALSE] \in Out
  BY <1>5, <1>6, <1>8, UpdateOutcomes
<1> HIDE DEF Out
<1>9. ASSUME Refusals, Unacked, NEW d, HalfUpdated(d)
      PROVE  [dp |-> d, ok |-> FALSE] \in Out
  <2>1. CASE d = Lists(before)
    <3>1. Lists(before) = Shape(Found, before.steering)
      BY <1>1, Shapes
    <3> QED BY <1>8, <1>9, <2>1, <3>1
  <2>2. ASSUME NEW M \in SUBSET (Found \cup Goal), d = Shape(M, before.steering),
               Found = {} \/ Found \subseteq M \/ Goal \subseteq M
        PROVE  [dp |-> d, ok |-> FALSE] \in Out
    BY <1>8, <1>9, <2>2
  <2> QED BY <1>9, <2>1, <2>2 DEF HalfUpdated
<1> QED BY <1>2, <1>4, <1>7, <1>9 DEF Permitted

(* The dataplane after a steerDel whose failure is only logged.            *)
Loose(d) ==
  \/ d = Lists(before) /\ (Refusals \/ call.key \notin Steerable)
  \/ /\ call.key \in Steerable
     /\ d = Port!WithSteering(Lists(before), endpoint, NoAddr)

LEMMA RemovePermits ==
  ASSUME call \in Call, call.op = "Remove", pc # "idle", NEW d, Loose(d)
  PROVE  LET gone == Port!WithPolicy(d, call.old, {}) IN
         /\ Permitted(gone, TRUE)
         /\ Refusals /\ Unacked => Permitted(gone, FALSE) /\ Permitted(d, FALSE)
<1>1. Port!Outcomes(AsCall(call)) =
        Port!Remove(Lists(before), call.key, [bsid |-> call.old])
  BY OutcomesOfCall
<1>2. Port!DeletePolicy(d, call.old)
        \subseteq Port!Remove(Lists(before), call.key, [bsid |-> call.old])
  BY DEF Loose, Port!Remove, Port!Unsteered, Port!Faulty, endpoint
<1> QED BY <1>1, <1>2, DeleteOutcomes DEF Permitted

LEMMA CollectPermits ==
  ASSUME call \in Call, call.op = "RemoveBSID", pc # "idle"
  PROVE  LET d == Lists(before)
             gone == Port!WithPolicy(d, call.old, {}) IN
         /\ Permitted(gone, TRUE)
         /\ Refusals /\ Unacked => Permitted(gone, FALSE) /\ Permitted(d, FALSE)
<1>1. Port!Outcomes(AsCall(call)) = Port!DeletePolicy(Lists(before), call.old)
  BY OutcomesOfCall DEF Port!RemoveBSID
<1> QED BY <1>1, DeleteOutcomes DEF Permitted

LEMMA DropPermits ==
  ASSUME call \in Call, call.op = "InstallDrop", pc # "idle"
  PROVE  /\ call.key \notin Steerable => Permitted(Lists(before), FALSE)
         /\ call.key \in Steerable =>
              \A d : Loose(d) =>
                LET barred == [d EXCEPT !.drops = @ \cup {endpoint}] IN
                /\ Permitted(barred, TRUE)
                /\ Refusals /\ Unacked => Permitted(barred, FALSE) /\ Permitted(d, FALSE)
<1> DEFINE Out == Port!InstallDrop(Lists(before), call.key)
           Barred(d) == [d EXCEPT !.drops = @ \cup {endpoint}]
           Ends(d) == Port!Done(Barred(d))
                        \cup (IF Refusals THEN Port!Failed({d}) ELSE {})
                        \cup (IF Refusals /\ Unacked THEN Port!Failed({Barred(d)}) ELSE {})
<1>1. Port!Outcomes(AsCall(call)) = Out
  BY OutcomesOfCall
<1>2. call.key \notin Steerable => [dp |-> Lists(before), ok |-> FALSE] \in Out
  BY DEF Port!InstallDrop, Port!Failed
<1>3. ASSUME call.key \in Steerable, NEW d, Loose(d)
      PROVE  Ends(d) \subseteq Out
  <2>1. d \in Port!Unsteered(Lists(before), call.key)
    BY <1>3 DEF Loose, Port!Unsteered, Port!Faulty, endpoint
  <2>2. Out = UNION {Ends(x) : x \in Port!Unsteered(Lists(before), call.key)}
    BY <1>3 DEF Port!InstallDrop, Port!Faulty, Port!Silent, endpoint
  <2> HIDE DEF Out, Ends
  <2> QED BY <2>1, <2>2
<1>4. ASSUME NEW d
      PROVE  /\ [dp |-> Barred(d), ok |-> TRUE] \in Ends(d)
             /\ Refusals /\ Unacked =>
                  /\ [dp |-> Barred(d), ok |-> FALSE] \in Ends(d)
                  /\ [dp |-> d, ok |-> FALSE] \in Ends(d)
  <2> HIDE DEF Barred
  <2> QED BY DEF Port!Done, Port!Failed
<1> HIDE DEF Out, Ends
<1> QED BY <1>1, <1>2, <1>3, <1>4 DEF Permitted

LEMMA UndropPermits ==
  ASSUME call \in Call, call.op = "RemoveDrop", pc # "idle"
  PROVE  LET d == Lists(before)
             opened == [d EXCEPT !.drops = @ \ {endpoint}] IN
         /\ Permitted(opened, TRUE)
         /\ Refusals => Permitted(d, TRUE) /\ Permitted(d, FALSE)
         /\ Refusals /\ Unacked => Permitted(opened, FALSE)
<1> DEFINE Out == Port!RemoveDrop(Lists(before), call.key)
           d == Lists(before)
           opened == [d EXCEPT !.drops = @ \ {endpoint}]
<1>1. Port!Outcomes(AsCall(call)) = Out
  BY OutcomesOfCall
<1>2. Out = Port!Done(opened)
              \cup (IF Refusals THEN Port!Done(d) \cup Port!Failed({d}) ELSE {})
              \cup (IF Refusals /\ Unacked THEN Port!Failed({opened}) ELSE {})
  BY DEF Port!RemoveDrop, Port!Faulty, Port!Silent, endpoint
<1> HIDE DEF Out, d, opened
<1> QED BY <1>1, <1>2 DEF Permitted, Port!Done, Port!Failed, d, opened

-----------------------------------------------------------------------------
(* The inductive invariant: how far a call that runs has come, and in what *)
(* the dataplane differs from the one it found.  The parameters are the    *)
(* request that is next and the variables it may change.                   *)

(* Only the lists of the target differ, and the steering is s.             *)
Apart(v, s) ==
  /\ \A x \in BSID \ {target} : v.policies[x] = before.policies[x]
  /\ v.steering = s
  /\ v.drops = before.drops

(* A steerDel has gone first, or has failed, or there was none to send.    *)
Loosened(v) ==
  \/ v = before /\ (call.op = "Remove" => Refusals \/ call.key \notin Steerable)
                /\ (call.op = "InstallDrop" => Refusals)
  \/ /\ call.op # "RemoveBSID"
     /\ call.key \in Steerable
     /\ v = Steered(before, endpoint, NoAddr)

Place(l, v) ==
  /\ l \in {"policyAdd", "replaceExisting", "dump", "unsteer", "refuse", "undrop"} =>
       v = before
  /\ l \in {"policyAddAgain", "install", "rollback", "update", "prune", "steer",
            "resteerDel"} => Apart(v, before.steering)
  /\ l = "resteer" => Apart(v, Moved(NoAddr))
  /\ l = "supersede" => Apart(v, Final)
  /\ l \in {"delete", "drop"} => Loosened(v)

Progress(l, v, A, S) ==
  LET P == v.policies[target]
      W == Wanted(call.path) IN
  /\ l = "policyAddAgain" => ~Has(v, target)
  /\ l = "rollback" => Image(P) \subseteq Goal
  /\ l \in {"install", "update", "prune"} => Due(P, W, A, S)
  /\ l = "prune" => A = {}
  /\ l \in {"update", "prune"} =>
       Found # {} /\ Image(P) \subseteq Found \cup Goal
  /\ l = "update" => Found \subseteq Image(P)
  /\ l \in SteerPoint \cup {"supersede"} => Due(P, W, {}, {})

Occasion(l, t) ==
  /\ l = "rollback" => Refusals /\ t # "none"
  /\ l = "unsteer" => call.op \in {"Remove", "InstallDrop"} /\ call.key \in Steerable
  /\ l = "refuse" => call.op = "InstallDrop" /\ call.key \notin Steerable
  /\ l = "drop" => call.op = "InstallDrop" /\ call.key \in Steerable
  /\ l = "undrop" => call.op = "RemoveDrop"

Standing(l, v, A, S, t) == Place(l, v) /\ Progress(l, v, A, S) /\ Occasion(l, t)

CallInv == Standing(pc, vpp, adds, stale, trouble)

(* What a call comes to that leaves v, answers ok and met with trouble t.  *)
Sealed(v, ok, t) ==
  /\ ok /\ Programming => SameLists(v.policies[target], Wanted(call.path))
  /\ ~ok /\ Programming /\ ~InPlace /\ t = "one" =>
       \/ ~Has(v, target)
       \/ SameLists(v.policies[target], Wanted(call.path))
       \/ v.policies[target] = before.policies[target]
  /\ (Refusals => Unacked) => Permitted(Lists(v), ok)

(* A request either goes on with the call or is the last one of it.        *)
Proceeds ==
  \/ /\ pc' # "idle"
     /\ call' = call /\ before' = before /\ nil' = nil
  \/ /\ pc' = "idle"
     /\ call' = NoCall
     /\ nil' \in BOOLEAN
     /\ Sealed(vpp', nil', trouble')

Better == CallInv' /\ Proceeds

LEMMA GotoIsBetter ==
  ASSUME NEW l, l # "idle", Goto(l), Standing(l, vpp', adds', stale', trouble')
  PROVE  Better
<1>1. pc' = l /\ call' = call /\ before' = before /\ nil' = nil
  BY DEF Goto
<1>2. CallInv'
  BY <1>1 DEF CallInv, Standing, Place, Progress, Occasion, Apart, Loosened, Moved,
     Final, Goal, Found, target, endpoint, Has
<1> QED BY <1>1, <1>2 DEF Better, Proceeds

LEMMA OverIsBetter ==
  ASSUME NEW ok \in BOOLEAN, Over(ok), Sealed(vpp', ok, trouble')
  PROVE  Better
<1>1. pc' = "idle" /\ call' = NoCall /\ nil' = ok
  BY DEF Over
<1>2. CallInv'
  BY <1>1 DEF CallInv, Standing, Place, Progress, Occasion, SteerPoint
<1> QED BY <1>1, <1>2 DEF Better, Proceeds

LEMMA ReturnIsBetter ==
  ASSUME NEW ok \in BOOLEAN, Return(ok), Sealed(vpp', ok, trouble')
  PROVE  Better
BY OverIsBetter DEF Return

-----------------------------------------------------------------------------
(* What every request of a call can rely on.                               *)

(* What the port sees of a dataplane, field by field.                      *)
LEMMA ListsFields ==
  ASSUME NEW v
  PROVE  /\ Lists(v) = [policies |-> Lists(v).policies, steering |-> v.steering,
                        drops |-> v.drops]
         /\ Lists(v).policies = [x \in BSID |-> Image(v.policies[x])]
         /\ Lists(v).steering = v.steering
         /\ Lists(v).drops = v.drops
BY DEF Lists, Image

(* What the port sees of the effects of the requests.                      *)
LEMMA ListsOfEffects ==
  ASSUME NEW v \in Plane
  PROVE  /\ \A b \in BSID :
              Lists(WithoutPolicy(v, b)) = Port!WithPolicy(Lists(v), b, {})
         /\ \A e \in Endpoint, b \in BSID \cup {NoAddr} :
              Lists(Steered(v, e, b)) = Port!WithSteering(Lists(v), e, b)
         /\ \A D : Lists([v EXCEPT !.drops = D]) = [Lists(v) EXCEPT !.drops = D]
<1> DEFINE d == Lists(v)
<1>1. /\ d = [policies |-> d.policies, steering |-> v.steering, drops |-> v.drops]
      /\ d.policies = [x \in BSID |-> Image(v.policies[x])]
  BY ListsFields
<1> HIDE DEF d
<1>2. ASSUME NEW b \in BSID
      PROVE  Lists(WithoutPolicy(v, b)) = Port!WithPolicy(d, b, {})
  <2> DEFINE w == WithoutPolicy(v, b)
  <2>1. /\ w.steering = v.steering
        /\ w.drops = v.drops
        /\ \A x \in BSID : w.policies[x] = IF x = b THEN NoLists ELSE v.policies[x]
    BY DEF WithoutPolicy, Plane
  <2>2. Image(NoLists) = {}
    BY DEF Image, NoLists
  <2>3. Lists(w) = [policies |-> Lists(w).policies, steering |-> w.steering,
                    drops |-> w.drops]
        /\ Lists(w).policies = [x \in BSID |-> Image(w.policies[x])]
    BY ListsFields
  <2> HIDE DEF w
  <2>4. Lists(w).policies = [d.policies EXCEPT ![b] = {}]
    BY <1>1, <2>1, <2>2, <2>3
  <2>5. Port!WithPolicy(d, b, {}) =
          [policies |-> [d.policies EXCEPT ![b] = {}], steering |-> v.steering,
           drops |-> v.drops]
    BY <1>1 DEF Port!WithPolicy
  <2> QED BY <2>1, <2>3, <2>4, <2>5 DEF w
<1>3. ASSUME NEW e \in Endpoint, NEW b \in BSID \cup {NoAddr}
      PROVE  Lists(Steered(v, e, b)) = Port!WithSteering(d, e, b)
  <2> DEFINE w == Steered(v, e, b)
  <2>1. /\ w.policies = v.policies
        /\ w.steering = [v.steering EXCEPT ![e] = b]
        /\ w.drops = v.drops
    BY DEF Steered, Plane
  <2>2. Lists(w) = [policies |-> Lists(w).policies, steering |-> w.steering,
                    drops |-> w.drops]
        /\ Lists(w).policies = [x \in BSID |-> Image(w.policies[x])]
    BY ListsFields
  <2> HIDE DEF w
  <2>3. Port!WithSteering(d, e, b) =
          [policies |-> d.policies, steering |-> [v.steering EXCEPT ![e] = b],
           drops |-> v.drops]
    BY <1>1 DEF Port!WithSteering
  <2> QED BY <1>1, <2>1, <2>2, <2>3 DEF w
<1>4. ASSUME NEW D
      PROVE  Lists([v EXCEPT !.drops = D]) = [d EXCEPT !.drops = D]
  <2> DEFINE w == [v EXCEPT !.drops = D]
  <2>1. w.policies = v.policies /\ w.steering = v.steering /\ w.drops = D
    BY DEF Plane
  <2>2. Lists(w) = [policies |-> Lists(w).policies, steering |-> w.steering,
                    drops |-> w.drops]
        /\ Lists(w).policies = [x \in BSID |-> Image(w.policies[x])]
    BY ListsFields
  <2> HIDE DEF w
  <2>3. [d EXCEPT !.drops = D] =
          [policies |-> d.policies, steering |-> v.steering, drops |-> D]
    BY <1>1
  <2> QED BY <1>1, <2>1, <2>2, <2>3 DEF w
<1> QED BY <1>2, <1>3, <1>4 DEF d

LEMMA ApartShape ==
  ASSUME before \in Plane, target \in BSID, NEW v \in Plane, NEW s, Apart(v, s)
  PROVE  Lists(v) = Shape(Image(v.policies[target]), s)
<1>1. ASSUME NEW x \in BSID
      PROVE  Lists(v).policies[x] =
               [Lists(before).policies EXCEPT ![target] = Image(v.policies[target])][x]
  BY DEF Lists, Image, Apart
<1>2. Lists(v).policies = [Lists(before).policies EXCEPT ![target] = Image(v.policies[target])]
  BY <1>1 DEF Lists
<1> QED BY <1>2 DEF Lists, Shape, Apart

(* A request that fails is trouble; the first trouble of a call, unless it *)
(* is a lost reply, leaves the dataplane as it is.                         *)
LEMMA FailedRequest ==
  ASSUME NEW effect, NEW a \in Ask(effect), Sent(a), a.reply # "ok",
         trouble \in {"none", "one", "more"}
  PROVE  /\ Refusals
         /\ trouble' # "none"
         /\ trouble' = "one" => vpp' = vpp /\ trouble = "none"
<1>1. Refusals /\ a.harm \in {"one", "more"} /\ (a.harm = "one" => a.vpp = vpp)
  BY DEF Ask
<1>2. vpp' = a.vpp /\ trouble' = Worse(a.harm)
  BY DEF Sent
<1> QED BY <1>1, <1>2 DEF Worse

LEMMA CallIsTyped ==
  ASSUME IInv, pc # "idle"
  PROVE  /\ call \in Call /\ before \in Plane /\ vpp \in Plane
         /\ endpoint \in Endpoint
         /\ trouble \in {"none", "one", "more"}
         /\ Programming => call.path \in Paths /\ target \in BSID
         /\ call.op \in {"Replace", "Remove", "RemoveBSID"} => call.old \in BSID
<1>1. /\ call \in Call /\ before \in Plane /\ vpp \in Plane
      /\ trouble \in {"none", "one", "more"}
  BY DEF IInv, Control, Typed
<1> QED BY <1>1, CallFields

LEMMA ApartSteps ==
  ASSUME target \in BSID, endpoint \in Endpoint, NEW v \in Plane, NEW s, Apart(v, s)
  PROVE  /\ \A l \in SIDList : Apart(WithList(v, target, l), s)
         /\ \A i : Apart(WithoutList(v, target, i), s)
         /\ Apart(WithoutPolicy(v, target), s)
         /\ \A b \in BSID \cup {NoAddr} :
              Apart(Steered(v, endpoint, b), [s EXCEPT ![endpoint] = b])
<1>1. \A l \in SIDList : Apart(WithList(v, target, l), s)
  BY WithListAdds DEF Apart
<1>2. \A i : Apart(WithoutList(v, target, i), s)
  BY WithoutListDeletes DEF Apart
<1>3. Apart(WithoutPolicy(v, target), s)
  BY WithoutPolicyDeletes DEF Apart
<1>4. ASSUME NEW b \in BSID \cup {NoAddr}
      PROVE  Apart(Steered(v, endpoint, b), [s EXCEPT ![endpoint] = b])
  BY SteeredSteers DEF Apart
<1> QED BY <1>1, <1>2, <1>3, <1>4

LEMMA ApartFromBefore == Apart(before, before.steering)
BY DEF Apart

(* A policy that is not there lacks all the lists.                         *)
LEMMA NothingIsDue ==
  ASSUME NEW v \in Plane, NEW b \in BSID, ~Has(v, b), NEW W \in ListTable
  PROVE  Image(v.policies[b]) = {} /\ Due(v.policies[b], W, DOMAIN W, {})
<1> DEFINE P == v.policies[b]
<1>1. P \in ListTable /\ Image(P) = {}
  BY DEF Plane, Has, Image
<1> HIDE DEF P
<1>2. ASSUME NEW l \in SIDList
      PROVE  Count(P, l) + Number(W, DOMAIN W, l) = Count(W, l) + Number(P, {}, l)
  <2>1. Count(P, l) = 0 /\ Number(P, {}, l) = 0
    BY <1>1, ImageIsCounted, NoneIsZero
  <2>2. Number(W, DOMAIN W, l) = Count(W, l) /\ Count(W, l) \in Nat
    BY NumberType
  <2> QED BY <2>1, <2>2
<1> QED BY <1>1, <1>2 DEF P, Due

-----------------------------------------------------------------------------
(* installPolicy.                                                          *)

LEMMA InstallFacts ==
  ASSUME IInv, pc \in InstallPoint
  PROVE  /\ pc # "idle" /\ call \in Call /\ Programming
         /\ call.path \in Paths /\ target \in BSID /\ endpoint \in Endpoint
         /\ before \in Plane /\ vpp \in Plane
         /\ trouble \in {"none", "one", "more"}
         /\ stale = {}
         /\ Wanted(call.path) \in ListTable
         /\ InPlace => Found = {}
<1>1. pc # "idle" /\ Programming /\ stale = {} /\ ~Updating
  BY InstallFields
<1>2. /\ call \in Call /\ call.path \in Paths /\ target \in BSID /\ endpoint \in Endpoint
      /\ before \in Plane /\ vpp \in Plane /\ trouble \in {"none", "one", "more"}
  BY <1>1, CallIsTyped
<1>3. InPlace => ~Has(before, target)
  BY <1>1 DEF Updating, Replacing, InPlace
<1>4. InPlace => Found = {}
  BY <1>2, <1>3, Shapes
<1> QED BY <1>1, <1>2, <1>4, WantedIsTable

(* An installation may fail with any part of the lists in place.           *)
LEMMA InstallMayFail ==
  ASSUME IInv, pc \in InstallPoint, NEW v \in Plane,
         \/ v = before
         \/ Apart(v, before.steering) /\ Image(v.policies[target]) \subseteq Goal,
         Refusals, Unacked
  PROVE  Permitted(Lists(v), FALSE)
<1> DEFINE M == Image(v.policies[target])
<1>1. \/ Lists(v) = Lists(before)
      \/ M \in SUBSET Goal /\ Lists(v) = Shape(M, before.steering)
  BY InstallFacts, ApartShape
<1> HIDE DEF M
<1>2. HalfDone(Lists(v))
  BY <1>1 DEF HalfDone
<1>3. CASE InPlace
  <2>1. HalfUpdated(Lists(v))
    BY <1>1, <1>3, InstallFacts DEF HalfUpdated
  <2> QED BY <1>3, <2>1, InstallFacts, UpdatePermits DEF InPlace
<1>4. CASE call.op = "Replace" /\ ~InPlace
  BY <1>2, <1>4, InstallFacts, MovePermits
<1>5. CASE call.op = "Add"
  BY <1>2, <1>5, InstallFacts, AddPermits
<1> QED BY <1>3, <1>4, <1>5, InstallFacts DEF Programming

(* When all lists are in, steerTo or the end of the call follows.          *)
LEMMA AllListsAreIn ==
  ASSUME IInv, pc \in InstallPoint, vpp' \in Plane, Apart(vpp', before.steering),
         Due(vpp'.policies[target], Wanted(call.path), {}, {}), Then(AfterInstall)
  PROVE  Better
<1> DEFINE P == vpp'.policies[target]
           W == Wanted(call.path)
<1>1. P \in ListTable /\ W \in ListTable
  BY InstallFacts DEF Plane
<1>2. SameLists(P, W) /\ Image(P) = Goal
  BY <1>1, DueDone DEF Goal
<1>3. Lists(vpp') = Shape(Goal, before.steering)
  BY <1>2, InstallFacts, ApartShape
<1>4. CASE AfterInstall = "return"
  <2>1. Return(TRUE)
    BY <1>4 DEF Then
  <2>2. Permitted(Lists(vpp'), TRUE)
    <3>1. CASE InPlace
      BY <1>3, <3>1, InstallFacts, UpdatePermits DEF InPlace
    <3>2. CASE ~InPlace
      <4>1. call.op = "Add" /\ call.key \notin Steerable
        BY <1>4, <3>2, InstallFacts DEF AfterInstall, AfterSteering, Programming
      <4> QED BY <1>3, <4>1, InstallFacts, AddPermits DEF Final
    <3> QED BY <3>1, <3>2
  <2>3. Sealed(vpp', TRUE, trouble')
    BY <1>2, <2>2 DEF Sealed
  <2> QED BY <2>1, <2>3, ReturnIsBetter
<1>5. CASE AfterInstall # "return"
  <2>1. /\ AfterInstall \in {"steer", "supersede"}
        /\ AfterInstall = "supersede" => call.key \notin Steerable
    BY <1>5 DEF AfterInstall, AfterSteering
  <2>2. Goto(AfterInstall)
    BY <1>5 DEF Then
  <2> HIDE DEF AfterInstall
  <2>3. Standing(AfterInstall, vpp', adds', stale', trouble')
    BY <2>1 DEF Standing, Place, Progress, Occasion, Final
  <2> QED BY <2>1, <2>2, <2>3, GotoIsBetter
<1> QED BY <1>4, <1>5

(* The request that adds the list at position i.                           *)
LEMMA AddingOne ==
  ASSUME call \in Call, Programming, vpp \in Plane, before \in Plane,
         Apart(vpp, before.steering),
         NEW A \in SUBSET DOMAIN Wanted(call.path), NEW i \in A,
         NEW S \in SUBSET DOMAIN vpp.policies[target],
         Due(vpp.policies[target], Wanted(call.path), A, S),
         NEW a \in Ask(WithList(vpp, target, Rendering(Want(call.path)[i]))), Sent(a)
  PROVE  LET P == vpp.policies[target]
             Q == vpp'.policies[target]
             l == Wanted(call.path)[i] IN
         /\ vpp' \in Plane
         /\ Apart(vpp', before.steering)
         /\ l \in Goal
         /\ Image(Q) = Image(P) \/ Image(Q) = Image(P) \cup {l}
         /\ a.reply = "ok" => /\ Due(Q, Wanted(call.path), A \ {i}, S)
                              /\ Image(Q) = Image(P) \cup {l}
                              /\ DOMAIN P \subseteq DOMAIN Q
<1> DEFINE W == Wanted(call.path)
           l == W[i]
           w == WithList(vpp, target, l)
           P == vpp.policies[target]
<1>1. call.path \in Paths /\ target \in BSID /\ endpoint \in Endpoint
  BY CallFields
<1>2. /\ W \in ListTable /\ l \in SIDList /\ l = Rendering(Want(call.path)[i])
      /\ i \in DOMAIN W
  BY <1>1, WantedIsTable
<1>3. l \in Goal
  BY <1>2 DEF Goal, Image
<1>4. w \in Plane /\ Apart(w, before.steering) /\ DOMAIN P \subseteq DOMAIN w.policies[target]
  BY <1>1, <1>2, WithListAdds, ApartSteps
<1>5. /\ Image(w.policies[target]) = Image(P) \cup {l}
      /\ Due(P, W, A, S) => Due(w.policies[target], W, A \ {i}, S)
  <2>1. A \in SUBSET DOMAIN W /\ S \in SUBSET DOMAIN vpp.policies[target]
        /\ i \in A /\ vpp \in Plane
    OBVIOUS
  <2> HIDE DEF W
  <2>2. OneLess(vpp, target, W, A, S, i)
    BY <1>1, <1>2, <2>1, AddedList
  <2> QED BY <2>2 DEF OneLess
<1>6. vpp' \in {vpp, w} /\ (a.reply = "ok" => vpp' = w)
  <2>1. a \in Ask(w)
    BY <1>2
  <2> HIDE DEF w
  <2> QED BY <2>1, AskAnswers DEF Sent
<1>7. Due(P, W, A, S)
  OBVIOUS
<1> HIDE DEF w, W, l, P
<1>8. CASE vpp' = w
  <2>1. /\ vpp' \in Plane /\ Apart(vpp', before.steering)
        /\ DOMAIN P \subseteq DOMAIN vpp'.policies[target]
        /\ Image(vpp'.policies[target]) = Image(P) \cup {l}
        /\ Due(vpp'.policies[target], W, A \ {i}, S)
    BY <1>4, <1>5, <1>7, <1>8
  <2> QED BY <1>3, <2>1 DEF W, l, P
<1>9. CASE vpp' # w
  BY <1>3, <1>6, <1>9 DEF W, l, P
<1> QED BY <1>8, <1>9

(* The request that deletes the target.                                    *)
LEMMA DeletingTarget ==
  ASSUME call \in Call, Programming, vpp \in Plane, before \in Plane,
         Apart(vpp, before.steering),
         NEW a \in Ask(WithoutPolicy(vpp, target)), Sent(a)
  PROVE  /\ vpp' \in Plane
         /\ Apart(vpp', before.steering)
         /\ vpp' = vpp \/ (~Has(vpp', target) /\ Image(vpp'.policies[target]) = {})
         /\ a.reply = "ok" => ~Has(vpp', target)
<1> DEFINE w == WithoutPolicy(vpp, target)
<1>1. target \in BSID /\ endpoint \in Endpoint
  BY CallFields
<1>2. w \in Plane /\ ~Has(w, target) /\ Apart(w, before.steering)
  BY <1>1, WithoutPolicyDeletes, ApartSteps
<1>3. Image(w.policies[target]) = {}
  BY <1>2 DEF Has, Image
<1>4. vpp' \in {vpp, w} /\ (a.reply = "ok" => vpp' = w)
  BY AskAnswers DEF Sent
<1> HIDE DEF w
<1> QED BY <1>2, <1>3, <1>4

(* A failed installation, as far as NoHalfPolicy goes, is settled when the *)
(* trouble is more than one, or the policy is gone or as it was.           *)
LEMMA InstallFails ==
  ASSUME IInv, pc \in InstallPoint, Refusals, vpp' \in Plane,
         \/ vpp' = before
         \/ Apart(vpp', before.steering) /\ Image(vpp'.policies[target]) \subseteq Goal,
         trouble' = "one" => vpp' = before \/ ~Has(vpp', target),
         Return(FALSE)
  PROVE  Better
<1>1. Unacked => Permitted(Lists(vpp'), FALSE)
  BY InstallMayFail
<1>2. Sealed(vpp', FALSE, trouble')
  BY <1>1 DEF Sealed
<1> QED BY <1>2, ReturnIsBetter

LEMMA PolicyAddIsBetter == ASSUME IInv, CallInv, PolicyAdd PROVE Better
<1> DEFINE W == Wanted(call.path)
<1>1. pc \in {"policyAdd", "policyAddAgain"} /\ pc \in InstallPoint
  BY DEF PolicyAdd, InstallPoint
<1>2. /\ pc = "policyAdd" => vpp = before
      /\ pc = "policyAddAgain" => ~Has(vpp, target)
      /\ Apart(vpp, before.steering)
  BY <1>1, ApartFromBefore DEF CallInv, Standing, Place, Progress
<1>3. CASE Has(vpp, target)
  <2>1. vpp' = vpp /\ vpp = before
    BY <1>1, <1>2, <1>3 DEF PolicyAdd
  <2>2. CASE Then("replaceExisting")
    <3>1. Goto("replaceExisting")
      BY <2>2 DEF Then
    <3>2. Standing("replaceExisting", vpp', adds', stale', trouble')
      BY <2>1 DEF Standing, Place, Progress, Occasion, SteerPoint
    <3> QED BY <3>1, <3>2, GotoIsBetter
  <2>3. CASE Refusals /\ Return(FALSE)
    <3>1. vpp' \in Plane
      BY <1>1, <2>1, InstallFacts
    <3> QED BY <1>1, <2>1, <2>3, <3>1, InstallFails
  <2> QED BY <1>3, <2>2, <2>3 DEF PolicyAdd
<1>4. CASE ~Has(vpp, target)
  <2>1. PICK a \in Ask(WithList(vpp, target, Rendering(Want(call.path)[1]))) :
          /\ Sent(a)
          /\ IF a.reply # "ok" THEN Return(FALSE)
             ELSE IF RestOfLists = {} THEN Then(AfterInstall)
             ELSE Goto("install") /\ adds' = RestOfLists /\ UNCHANGED stale
    BY <1>4 DEF PolicyAdd
  <2>2. /\ Image(vpp.policies[target]) = {}
        /\ Due(vpp.policies[target], W, DOMAIN W, {})
    BY <1>1, <1>4, InstallFacts, NothingIsDue
  <2>3. 1 \in DOMAIN W /\ DOMAIN W \ {1} = RestOfLists
    <3>1. DOMAIN W = 1..Len(Want(call.path)) /\ Len(Want(call.path)) \in Nat
          /\ 1 \in DOMAIN W
      BY <1>1, InstallFacts, WantedIsTable, WantTyped
    <3> HIDE DEF W
    <3> QED BY <3>1 DEF RestOfLists
  <2>4. /\ vpp' \in Plane
        /\ Apart(vpp', before.steering)
        /\ Image(vpp'.policies[target]) \subseteq Goal
        /\ a.reply = "ok" => Due(vpp'.policies[target], W, RestOfLists, {})
    BY <1>1, <1>2, <2>1, <2>2, <2>3, InstallFacts, AddingOne
  <2>5. CASE a.reply # "ok"
    <3>1. Refusals /\ (trouble' = "one" => vpp' = vpp)
      BY <1>1, <2>1, <2>5, InstallFacts, FailedRequest
    <3> QED BY <1>1, <1>4, <2>1, <2>4, <2>5, <3>1, InstallFails
  <2>6. CASE a.reply = "ok" /\ RestOfLists = {}
    BY <1>1, <2>1, <2>4, <2>6, AllListsAreIn
  <2>7. CASE a.reply = "ok" /\ RestOfLists # {}
    <3>1. Goto("install") /\ adds' = RestOfLists /\ stale' = {}
      BY <1>1, <2>1, <2>7, InstallFacts
    <3>2. Standing("install", vpp', adds', stale', trouble')
      BY <2>4, <2>7, <3>1 DEF Standing, Place, Progress, Occasion, SteerPoint
    <3> QED BY <3>1, <3>2, GotoIsBetter
  <2> QED BY <2>5, <2>6, <2>7
<1> QED BY <1>3, <1>4

LEMMA ReplaceExistingIsBetter == ASSUME IInv, CallInv, ReplaceExisting PROVE Better
<1>1. pc \in InstallPoint /\ vpp = before
  BY DEF ReplaceExisting, InstallPoint, CallInv, Standing, Place
<1>2. PICK a \in Ask(WithoutPolicy(vpp, target)) :
        Sent(a) /\ IF a.reply = "ok" THEN Then("policyAddAgain") ELSE Return(FALSE)
  BY DEF ReplaceExisting
<1>3. /\ vpp' \in Plane
      /\ Apart(vpp', before.steering)
      /\ vpp' = vpp \/ Image(vpp'.policies[target]) = {}
      /\ a.reply = "ok" => ~Has(vpp', target)
  BY <1>1, <1>2, ApartFromBefore, InstallFacts, DeletingTarget
<1>4. CASE a.reply = "ok"
  <2>1. Goto("policyAddAgain")
    BY <1>2, <1>4 DEF Then
  <2>2. Standing("policyAddAgain", vpp', adds', stale', trouble')
    BY <1>3, <1>4 DEF Standing, Place, Progress, Occasion, SteerPoint
  <2> QED BY <2>1, <2>2, GotoIsBetter
<1>5. CASE a.reply # "ok"
  <2>1. Refusals /\ (trouble' = "one" => vpp' = vpp)
    BY <1>1, <1>2, <1>5, InstallFacts, FailedRequest
  <2> QED BY <1>1, <1>2, <1>3, <1>5, <2>1, InstallFails
<1> QED BY <1>4, <1>5

LEMMA InstallRestIsBetter == ASSUME IInv, CallInv, InstallRest PROVE Better
<1> DEFINE W == Wanted(call.path)
           i == FirstOf(adds)
<1>1. pc = "install" /\ pc \in InstallPoint
  BY DEF InstallRest, InstallPoint
<1>2. PICK a \in Ask(WithList(vpp, target, Rendering(Want(call.path)[i]))) :
        /\ Sent(a)
        /\ IF a.reply # "ok" THEN Then("rollback")
           ELSE IF adds = {i} THEN Then(AfterInstall)
           ELSE Goto("install") /\ Added
  BY DEF InstallRest, AddNext
<1>3. i \in adds /\ adds \subseteq DOMAIN W
  BY <1>1, NextToAdd DEF Wanted
<1>4. Apart(vpp, before.steering) /\ Due(vpp.policies[target], W, adds, {})
  BY <1>1, InstallFacts DEF CallInv, Standing, Place, Progress
<1> HIDE DEF i
<1>5. Image(vpp.policies[target]) \subseteq Goal
  <2>1. vpp.policies[target] \in ListTable /\ W \in ListTable
    BY <1>1, InstallFacts DEF Plane
  <2> QED BY <1>3, <1>4, <2>1, DueAdding DEF Goal
<1>6. /\ vpp' \in Plane
      /\ Apart(vpp', before.steering)
      /\ Image(vpp'.policies[target]) \subseteq Goal
      /\ a.reply = "ok" => Due(vpp'.policies[target], W, adds \ {i}, {})
  BY <1>1, <1>2, <1>3, <1>4, <1>5, InstallFacts, AddingOne
<1>7. CASE a.reply # "ok"
  <2>1. Goto("rollback")
    BY <1>2, <1>7 DEF Then
  <2>2. Refusals /\ trouble' # "none"
    BY <1>1, <1>2, <1>7, InstallFacts, FailedRequest
  <2>3. Standing("rollback", vpp', adds', stale', trouble')
    BY <1>6, <2>2 DEF Standing, Place, Progress, Occasion, SteerPoint
  <2> QED BY <2>1, <2>3, GotoIsBetter
<1>8. CASE a.reply = "ok" /\ adds = {i}
  <2>1. Due(vpp'.policies[target], W, {}, {})
    BY <1>6, <1>8
  <2> QED BY <1>1, <1>2, <1>6, <1>8, <2>1, AllListsAreIn
<1>9. CASE a.reply = "ok" /\ adds # {i}
  <2>1. Goto("install") /\ adds' = adds \ {i} /\ stale' = {}
    BY <1>1, <1>2, <1>9, InstallFacts DEF Added, i
  <2>2. Standing("install", vpp', adds', stale', trouble')
    BY <1>6, <1>9, <2>1 DEF Standing, Place, Progress, Occasion, SteerPoint
  <2> QED BY <2>1, <2>2, GotoIsBetter
<1> QED BY <1>7, <1>8, <1>9

LEMMA RollbackIsBetter == ASSUME IInv, CallInv, Rollback PROVE Better
<1>1. pc = "rollback" /\ pc \in InstallPoint
  BY DEF Rollback, InstallPoint
<1>2. /\ Apart(vpp, before.steering)
      /\ Image(vpp.policies[target]) \subseteq Goal
      /\ Refusals
      /\ trouble # "none"
  BY <1>1 DEF CallInv, Standing, Place, Progress, Occasion
<1>3. PICK a \in Ask(WithoutPolicy(vpp, target)) : Sent(a) /\ Return(FALSE)
  BY DEF Rollback
<1>4. /\ vpp' \in Plane
      /\ Apart(vpp', before.steering)
      /\ Image(vpp'.policies[target]) \subseteq Goal
      /\ a.reply = "ok" => ~Has(vpp', target)
  BY <1>1, <1>2, <1>3, InstallFacts, DeletingTarget
<1>5. a.reply # "ok" => trouble' # "one"
  BY <1>1, <1>2, <1>3, InstallFacts, FailedRequest
<1> QED BY <1>1, <1>2, <1>3, <1>4, <1>5, InstallFails

-----------------------------------------------------------------------------
(* updateInPlace.                                                          *)

LEMMA UpdateFacts ==
  ASSUME IInv, pc \in UpdatePoint
  PROVE  /\ pc # "idle" /\ call \in Call /\ Programming
         /\ call.op = "Replace" /\ InPlace
         /\ call.path \in Paths /\ target \in BSID /\ endpoint \in Endpoint
         /\ before \in Plane /\ vpp \in Plane
         /\ trouble \in {"none", "one", "more"}
         /\ Wanted(call.path) \in ListTable
         /\ vpp.policies[target] \in ListTable
<1>1. /\ pc # "idle" /\ Programming /\ call.op = "Replace" /\ InPlace
      /\ call.path \in Paths /\ target \in BSID
  BY UpdateFields
<1>2. /\ call \in Call /\ endpoint \in Endpoint /\ before \in Plane /\ vpp \in Plane
      /\ trouble \in {"none", "one", "more"}
  BY <1>1, CallIsTyped
<1>3. Wanted(call.path) \in ListTable
  BY <1>1, WantedIsTable
<1>4. vpp.policies[target] \in ListTable
  BY <1>1, <1>2 DEF Plane
<1> QED BY <1>1, <1>2, <1>3, <1>4

(* An update may fail while lists are added, with all that was there, and  *)
(* while lists are deleted, with all that is wanted.                       *)
LEMMA UpdateMayFail ==
  ASSUME IInv, pc \in UpdatePoint, NEW v \in Plane,
         \/ v = before
         \/ LET M == Image(v.policies[target]) IN
            /\ Apart(v, before.steering)
            /\ M \subseteq Found \cup Goal
            /\ Found \subseteq M \/ Goal \subseteq M,
         Refusals, Unacked
  PROVE  Permitted(Lists(v), FALSE)
<1> DEFINE M == Image(v.policies[target])
<1>1. \/ Lists(v) = Lists(before)
      \/ /\ M \in SUBSET (Found \cup Goal)
         /\ Lists(v) = Shape(M, before.steering)
         /\ Found \subseteq M \/ Goal \subseteq M
  BY UpdateFacts, ApartShape
<1> HIDE DEF M
<1>2. HalfUpdated(Lists(v))
  BY <1>1 DEF HalfUpdated
<1> QED BY <1>2, UpdateFacts, UpdatePermits

LEMMA UpdateFails ==
  ASSUME IInv, pc \in UpdatePoint, vpp' \in Plane, Refusals,
         \/ vpp' = before
         \/ LET M == Image(vpp'.policies[target]) IN
            /\ Apart(vpp', before.steering)
            /\ M \subseteq Found \cup Goal
            /\ Found \subseteq M \/ Goal \subseteq M,
         Return(FALSE)
  PROVE  Better
<1>1. Unacked => Permitted(Lists(vpp'), FALSE)
  BY UpdateMayFail
<1>2. Sealed(vpp', FALSE, trouble')
  BY <1>1, UpdateFacts DEF Sealed
<1> QED BY <1>2, ReturnIsBetter

LEMMA UpdateWorks ==
  ASSUME IInv, pc \in UpdatePoint, vpp' \in Plane, Apart(vpp', before.steering),
         Due(vpp'.policies[target], Wanted(call.path), {}, {}), Return(TRUE)
  PROVE  Better
<1> DEFINE P == vpp'.policies[target]
           W == Wanted(call.path)
<1>1. P \in ListTable /\ W \in ListTable
  BY UpdateFacts DEF Plane
<1>2. SameLists(P, W) /\ Image(P) = Goal
  BY <1>1, DueDone DEF Goal
<1>3. Lists(vpp') = Shape(Goal, before.steering)
  BY <1>2, UpdateFacts, ApartShape
<1>4. Permitted(Lists(vpp'), TRUE)
  BY <1>3, UpdateFacts, UpdatePermits
<1>5. Sealed(vpp', TRUE, trouble')
  BY <1>2, <1>4 DEF Sealed
<1> QED BY <1>5, ReturnIsBetter

LEMMA UpdateGoesOn ==
  ASSUME NEW l \in {"update", "prune"}, Goto(l), Apart(vpp', before.steering),
         Due(vpp'.policies[target], Wanted(call.path), adds', stale'),
         Found # {}, Image(vpp'.policies[target]) \subseteq Found \cup Goal,
         l = "update" => Found \subseteq Image(vpp'.policies[target]),
         l = "prune" => adds' = {}
  PROVE  Better
<1>1. Place(l, vpp')
  BY DEF Place
<1>2. Progress(l, vpp', adds', stale')
  BY DEF Progress, SteerPoint
<1>3. Occasion(l, trouble')
  BY DEF Occasion
<1> QED BY <1>1, <1>2, <1>3, GotoIsBetter DEF Standing

LEMMA DumpIsBetter == ASSUME IInv, CallInv, Dump PROVE Better
<1> DEFINE P == vpp.policies[target]
           W == Wanted(call.path)
<1>1. pc = "dump" /\ pc \in UpdatePoint
  BY DEF Dump, UpdatePoint
<1>2. vpp = before
  BY <1>1 DEF CallInv, Standing, Place
<1>3. PICK a \in Ask(vpp) :
        /\ Sent(a)
        /\ IF a.reply # "ok" THEN Return(FALSE)
           ELSE IF ~Has(vpp, target) THEN Then("policyAdd")
           ELSE IF Missing(P) # {}
                THEN Goto("update") /\ adds' = Missing(P) /\ stale' = Stale(P)
           ELSE IF Stale(P) # {}
                THEN Goto("prune") /\ adds' = Missing(P) /\ stale' = Stale(P)
           ELSE Return(TRUE)
  BY DEF Dump
<1>4. vpp' = vpp /\ vpp' \in Plane /\ Apart(vpp', before.steering)
  BY <1>1, <1>2, <1>3, UpdateFacts, AskAnswers, ApartFromBefore DEF Sent
<1>5. Due(P, W, Missing(P), Stale(P))
  BY <1>1, UpdateFacts, PlanIsDue DEF Missing, Stale
<1>6. Image(P) = Found /\ (Has(vpp, target) => Found # {})
  BY <1>1, <1>2, UpdateFacts, Shapes DEF Found
<1>7. CASE a.reply # "ok"
  <2>1. Refusals
    BY <1>1, <1>3, <1>7, UpdateFacts, FailedRequest
  <2> QED BY <1>1, <1>2, <1>3, <1>4, <1>7, <2>1, UpdateFails
<1>8. CASE a.reply = "ok" /\ ~Has(vpp, target)
  <2>1. Goto("policyAdd")
    BY <1>3, <1>8 DEF Then
  <2>2. Standing("policyAdd", vpp', adds', stale', trouble')
    BY <1>2, <1>4 DEF Standing, Place, Progress, Occasion, SteerPoint
  <2> QED BY <2>1, <2>2, GotoIsBetter
<1>9. CASE a.reply = "ok" /\ Has(vpp, target) /\ Missing(P) # {}
  <2>1. Goto("update") /\ adds' = Missing(P) /\ stale' = Stale(P)
    BY <1>3, <1>9
  <2>2. /\ Due(vpp'.policies[target], W, adds', stale')
        /\ Image(vpp'.policies[target]) = Found
    BY <1>4, <1>5, <1>6, <2>1
  <2> QED BY <1>4, <1>6, <1>9, <2>1, <2>2, UpdateGoesOn
<1>10. CASE a.reply = "ok" /\ Has(vpp, target) /\ Missing(P) = {} /\ Stale(P) # {}
  <2>1. Goto("prune") /\ adds' = {} /\ stale' = Stale(P)
    BY <1>3, <1>10
  <2>2. /\ Due(vpp'.policies[target], W, adds', stale')
        /\ Image(vpp'.policies[target]) = Found
    BY <1>4, <1>5, <1>6, <1>10, <2>1
  <2> QED BY <1>4, <1>6, <1>10, <2>1, <2>2, UpdateGoesOn
<1>11. CASE a.reply = "ok" /\ Has(vpp, target) /\ Missing(P) = {} /\ Stale(P) = {}
  <2>1. Return(TRUE)
    BY <1>3, <1>11
  <2>2. Due(vpp'.policies[target], W, {}, {})
    BY <1>4, <1>5, <1>11
  <2> QED BY <1>1, <1>4, <2>1, <2>2, UpdateWorks
<1> QED BY <1>7, <1>8, <1>9, <1>10, <1>11

LEMMA UpdateAddIsBetter == ASSUME IInv, CallInv, UpdateAdd PROVE Better
<1> DEFINE W == Wanted(call.path)
           i == FirstOf(adds)
           M == Image(vpp.policies[target])
           N == Image(vpp'.policies[target])
<1>1. pc = "update" /\ pc \in UpdatePoint
  BY DEF UpdateAdd, UpdatePoint
<1>2. PICK a \in Ask(WithList(vpp, target, Rendering(Want(call.path)[i]))) :
        /\ Sent(a)
        /\ IF a.reply # "ok" THEN Return(FALSE)
           ELSE IF adds # {i} THEN Goto("update") /\ Added
           ELSE IF stale # {} THEN Goto("prune") /\ Added
           ELSE Return(TRUE)
  BY DEF UpdateAdd, AddNext
<1>3. i \in adds /\ adds \in SUBSET DOMAIN W
  BY <1>1, NextToAdd DEF Wanted
<1>4. /\ Apart(vpp, before.steering)
      /\ Due(vpp.policies[target], W, adds, stale)
      /\ Found # {}
      /\ Found \subseteq M
      /\ M \subseteq Found \cup Goal
  BY <1>1 DEF CallInv, Standing, Place, Progress
<1>5. stale \in SUBSET DOMAIN vpp.policies[target]
  BY DEF IInv, Work
<1>6. Added => adds' = adds \ {i} /\ stale' = stale
  BY DEF Added
<1> HIDE DEF i
<1>7. /\ vpp' \in Plane
      /\ Apart(vpp', before.steering)
      /\ W[i] \in Goal
      /\ N = M \/ N = M \cup {W[i]}
      /\ a.reply = "ok" => Due(vpp'.policies[target], W, adds \ {i}, stale)
  BY <1>1, <1>2, <1>3, <1>4, <1>5, UpdateFacts, AddingOne
<1> HIDE DEF W
<1>8. Found \subseteq N /\ N \subseteq Found \cup Goal
  BY <1>4, <1>7
<1>9. CASE a.reply # "ok"
  <2>1. Refusals
    BY <1>1, <1>2, <1>9, UpdateFacts, FailedRequest
  <2> QED BY <1>1, <1>2, <1>7, <1>8, <1>9, <2>1, UpdateFails
<1>10. CASE a.reply = "ok" /\ adds # {i}
  <2>1. Goto("update") /\ Due(vpp'.policies[target], W, adds', stale')
    BY <1>2, <1>6, <1>7, <1>10
  <2> QED BY <1>4, <1>7, <1>8, <2>1, UpdateGoesOn DEF W
<1>11. CASE a.reply = "ok" /\ adds = {i} /\ stale # {}
  <2>1. Goto("prune") /\ adds' = {} /\ Due(vpp'.policies[target], W, adds', stale')
    BY <1>2, <1>6, <1>7, <1>11
  <2> QED BY <1>4, <1>7, <1>8, <2>1, UpdateGoesOn DEF W
<1>12. CASE a.reply = "ok" /\ adds = {i} /\ stale = {}
  <2>1. Return(TRUE)
    BY <1>2, <1>12
  <2>2. Due(vpp'.policies[target], W, {}, {})
    BY <1>7, <1>12
  <2> QED BY <1>1, <1>7, <2>1, <2>2, UpdateWorks DEF W
<1> QED BY <1>9, <1>10, <1>11, <1>12

LEMMA UpdateDelIsBetter == ASSUME IInv, CallInv, UpdateDel PROVE Better
<1> DEFINE W == Wanted(call.path)
           i == FirstOf(stale)
           w == WithoutList(vpp, target, i)
           P == vpp.policies[target]
           Q == w.policies[target]
<1>1. pc = "prune" /\ pc \in UpdatePoint
  BY DEF UpdateDel, UpdatePoint
<1>2. PICK a \in Ask(w) :
        /\ Sent(a)
        /\ IF a.reply # "ok" THEN Return(FALSE)
           ELSE IF stale # {i} THEN Goto("prune") /\ stale' = stale \ {i} /\ adds' = adds
           ELSE Return(TRUE)
  BY DEF UpdateDel
<1>3. stale # {} /\ stale \in SUBSET DOMAIN P
  BY <1>1 DEF IInv, Work
<1>4. i \in stale
  <2>1. DOMAIN P \subseteq Nat
    BY <1>1, UpdateFacts, TableIsFunction
  <2>2. stale \in SUBSET Nat
    BY <1>3, <2>1
  <2> QED BY <1>3, <2>2, FirstOfIn
<1>5. /\ Apart(vpp, before.steering) /\ adds = {} /\ Due(P, W, {}, stale)
      /\ Found # {} /\ Image(P) \subseteq Found \cup Goal
  BY <1>1 DEF CallInv, Standing, Place, Progress
<1> HIDE DEF i
<1>6. w \in Plane /\ Apart(w, before.steering)
  BY <1>1, <1>5, UpdateFacts, WithoutListDeletes, ApartSteps
<1>7. OneFewer(vpp, target, W, stale, i)
  BY <1>1, <1>3, <1>4, UpdateFacts, DeletedList
<1>8. /\ Q \in ListTable /\ DOMAIN Q = DOMAIN P \ {i}
      /\ Image(Q) \subseteq Image(P) /\ Due(Q, W, {}, stale \ {i})
  BY <1>5, <1>7 DEF OneFewer
<1>9. vpp' \in {vpp, w} /\ (a.reply = "ok" => vpp' = w)
  BY <1>2, AskAnswers DEF Sent
<1>10. P \in ListTable /\ W \in ListTable
  BY <1>1, UpdateFacts
<1> HIDE DEF w, W, P, Q
<1>11. Image(W) \subseteq Image(P)
  BY <1>3, <1>5, <1>10, DueDeleting
<1>12. Image(W) \subseteq Image(Q)
  <2>1. stale \ {i} \in SUBSET DOMAIN Q
    BY <1>3, <1>8
  <2> QED BY <1>8, <1>10, <2>1, DueDeleting
<1>13. LET M == Image(vpp'.policies[target]) IN
       /\ vpp' \in Plane
       /\ Apart(vpp', before.steering)
       /\ M \subseteq Found \cup Goal
       /\ Goal \subseteq M
  <2>1. Image(W) = Goal
    BY DEF Goal, W
  <2>2. CASE vpp' = vpp
    BY <1>1, <1>5, <1>11, <2>1, <2>2, UpdateFacts DEF P
  <2>3. CASE vpp' = w
    BY <1>5, <1>6, <1>8, <1>12, <2>1, <2>3 DEF Q
  <2> QED BY <1>9, <2>2, <2>3
<1>14. a.reply = "ok" => Due(vpp'.policies[target], W, {}, stale \ {i})
  BY <1>8, <1>9 DEF Q
<1>15. CASE a.reply # "ok"
  <2>1. Refusals
    BY <1>1, <1>2, <1>15, UpdateFacts, FailedRequest
  <2> QED BY <1>1, <1>2, <1>13, <1>15, <2>1, UpdateFails
<1>16. CASE a.reply = "ok" /\ stale # {i}
  <2>1. Goto("prune") /\ adds' = {} /\ Due(vpp'.policies[target], W, adds', stale')
    BY <1>2, <1>5, <1>14, <1>16
  <2> QED BY <1>5, <1>13, <2>1, UpdateGoesOn DEF W
<1>17. CASE a.reply = "ok" /\ stale = {i}
  <2>1. Return(TRUE)
    BY <1>2, <1>17
  <2>2. Due(vpp'.policies[target], W, {}, {})
    BY <1>14, <1>17
  <2> QED BY <1>1, <1>13, <2>1, <2>2, UpdateWorks DEF W
<1> QED BY <1>15, <1>16, <1>17

-----------------------------------------------------------------------------
(* steerTo, and the end of Replace.                                        *)

LEMMA SteerFacts ==
  ASSUME IInv, CallInv, pc \in SteerPoint \cup {"supersede"}
  PROVE  /\ pc # "idle" /\ call \in Call /\ Programming /\ ~InPlace
         /\ call.path \in Paths /\ target \in BSID /\ endpoint \in Endpoint
         /\ before \in Plane /\ vpp \in Plane
         /\ trouble \in {"none", "one", "more"}
         /\ Due(vpp.policies[target], Wanted(call.path), {}, {})
         /\ SameLists(vpp.policies[target], Wanted(call.path))
         /\ Image(vpp.policies[target]) = Goal
         /\ pc \in SteerPoint => call.key \in Steerable
<1> DEFINE P == vpp.policies[target]
           W == Wanted(call.path)
<1>1. pc # "idle" /\ Programming /\ ~InPlace
  BY SteerFields
<1>2. /\ call \in Call /\ call.path \in Paths /\ target \in BSID /\ endpoint \in Endpoint
      /\ before \in Plane /\ vpp \in Plane /\ trouble \in {"none", "one", "more"}
  BY <1>1, CallIsTyped
<1>3. Due(P, W, {}, {})
  BY DEF CallInv, Standing, Progress
<1>4. P \in ListTable /\ W \in ListTable
  BY <1>2, WantedIsTable DEF Plane
<1> HIDE DEF P, W
<1>5. SameLists(P, W) /\ Image(P) = Image(W)
  BY <1>3, <1>4, DueDone
<1>6. pc \in SteerPoint => call.key \in Steerable
  BY DEF IInv, Control
<1> QED BY <1>1, <1>2, <1>3, <1>5, <1>6 DEF P, W, Goal

(* The request that steers the endpoint to b.                              *)
LEMMA SteeringOnce ==
  ASSUME IInv, CallInv, pc \in SteerPoint, NEW s, Apart(vpp, s),
         NEW b \in BSID \cup {NoAddr},
         NEW a \in Ask(Steered(vpp, endpoint, b)), Sent(a)
  PROVE  LET t == [s EXCEPT ![endpoint] = b] IN
         /\ vpp' \in Plane
         /\ vpp'.policies[target] = vpp.policies[target]
         /\ Apart(vpp', s) \/ Apart(vpp', t)
         /\ a.reply \in {"ok", "refused", "error"}
         /\ a.reply = "ok" => Apart(vpp', t)
         /\ a.reply = "refused" => vpp' = vpp
         /\ a.reply # "ok" => Refusals
<1> DEFINE w == Steered(vpp, endpoint, b)
<1>1. target \in BSID /\ endpoint \in Endpoint /\ vpp \in Plane
  BY SteerFacts
<1>2. w \in Plane /\ w.policies = vpp.policies /\ Apart(w, [s EXCEPT ![endpoint] = b])
  BY <1>1, SteeredSteers, ApartSteps
<1>3. a.reply # "ok" => Refusals
  BY SteerFacts, FailedRequest
<1> HIDE DEF w
<1>4. /\ vpp' \in {vpp, w} /\ a.reply \in {"ok", "refused", "error"}
      /\ a.reply = "ok" => vpp' = w
      /\ a.reply = "refused" => vpp' = vpp
  BY AskAnswers DEF Sent, w
<1> QED BY <1>1, <1>2, <1>3, <1>4

(* Steering may fail with the endpoint as it was, on the new policy, or on *)
(* none; all lists of the new policy are there.                            *)
LEMMA SteerMayFail ==
  ASSUME IInv, CallInv, pc \in SteerPoint, NEW v \in Plane,
         v.policies[target] = vpp.policies[target],
         NEW s \in {before.steering, Moved(NoAddr), Moved(target)}, Apart(v, s),
         Refusals, Unacked
  PROVE  Permitted(Lists(v), FALSE)
<1>1. Lists(v) = Shape(Goal, s)
  BY SteerFacts, ApartShape
<1>2. HalfDone(Lists(v))
  BY <1>1, SteerFacts DEF HalfDone
<1> QED BY <1>2, SteerFacts, AddPermits, MovePermits DEF Programming

LEMMA SteerFails ==
  ASSUME IInv, CallInv, pc \in SteerPoint, Refusals, vpp' \in Plane,
         vpp'.policies[target] = vpp.policies[target],
         NEW s \in {before.steering, Moved(NoAddr), Moved(target)}, Apart(vpp', s),
         Return(FALSE)
  PROVE  Better
<1>1. Unacked => Permitted(Lists(vpp'), FALSE)
  BY SteerMayFail
<1>2. Sealed(vpp', FALSE, trouble')
  BY <1>1, SteerFacts DEF Sealed
<1> QED BY <1>2, ReturnIsBetter

LEMMA SteerGoesOn ==
  ASSUME IInv, CallInv, pc \in SteerPoint,
         NEW l \in {"resteerDel", "resteer"}, Goto(l),
         vpp'.policies[target] = vpp.policies[target],
         Apart(vpp', IF l = "resteer" THEN Moved(NoAddr) ELSE before.steering)
  PROVE  Better
<1>1. Place(l, vpp')
  BY DEF Place
<1>2. Progress(l, vpp', adds', stale')
  BY SteerFacts DEF Progress
<1>3. Occasion(l, trouble')
  BY DEF Occasion
<1> QED BY <1>1, <1>2, <1>3, GotoIsBetter DEF Standing

LEMMA SteerWorks ==
  ASSUME IInv, CallInv, pc \in SteerPoint, vpp' \in Plane,
         vpp'.policies[target] = vpp.policies[target],
         Apart(vpp', Moved(target)), Then(AfterSteering)
  PROVE  Better
<1>1. Final = Moved(target)
  BY SteerFacts DEF Final
<1>2. CASE call.op = "Replace"
  <2>1. Goto("supersede")
    BY <1>2 DEF Then, AfterSteering
  <2>2. Place("supersede", vpp')
    BY <1>1 DEF Place
  <2>3. Progress("supersede", vpp', adds', stale')
    BY SteerFacts DEF Progress, SteerPoint
  <2>4. Occasion("supersede", trouble')
    BY DEF Occasion
  <2> QED BY <2>1, <2>2, <2>3, <2>4, GotoIsBetter DEF Standing
<1>3. CASE call.op = "Add"
  <2>1. Return(TRUE)
    BY <1>3 DEF Then, AfterSteering
  <2>2. Lists(vpp') = Shape(Goal, Final)
    BY <1>1, SteerFacts, ApartShape
  <2>3. Permitted(Lists(vpp'), TRUE)
    BY <1>3, <2>2, SteerFacts, AddPermits
  <2>4. Sealed(vpp', TRUE, trouble')
    BY <2>3, SteerFacts DEF Sealed
  <2> QED BY <2>1, <2>4, ReturnIsBetter
<1> QED BY <1>2, <1>3, SteerFacts DEF Programming

LEMMA SteerIsBetter == ASSUME IInv, CallInv, Steer PROVE Better
<1>1. pc = "steer" /\ pc \in SteerPoint
  BY DEF Steer, SteerPoint
<1>2. Apart(vpp, before.steering) /\ target \in BSID \cup {NoAddr}
  BY <1>1, SteerFacts DEF CallInv, Standing, Place
<1>3. ASSUME vpp' = vpp, Then("resteerDel") PROVE Better
  <2>1. Goto("resteerDel")
    BY <1>3 DEF Then
  <2> QED BY <1>1, <1>2, <1>3, <2>1, SteerGoesOn
<1>4. CASE \E a \in Ask(Steered(vpp, endpoint, target)) :
             /\ Sent(a)
             /\ CASE a.reply = "ok" -> Then(AfterSteering)
                  [] a.reply = "refused" -> Then("resteerDel")
                  [] a.reply = "error" -> Return(FALSE)
  <2>1. PICK a \in Ask(Steered(vpp, endpoint, target)) :
             /\ Sent(a)
             /\ CASE a.reply = "ok" -> Then(AfterSteering)
                  [] a.reply = "refused" -> Then("resteerDel")
                  [] a.reply = "error" -> Return(FALSE)
    BY <1>4
  <2>2. /\ vpp' \in Plane
        /\ vpp'.policies[target] = vpp.policies[target]
        /\ Apart(vpp', before.steering) \/ Apart(vpp', Moved(target))
        /\ a.reply \in {"ok", "refused", "error"}
        /\ a.reply = "ok" => Apart(vpp', Moved(target))
        /\ a.reply = "refused" => vpp' = vpp
        /\ a.reply # "ok" => Refusals
    BY <1>1, <1>2, <2>1, SteeringOnce DEF Moved
  <2>3. CASE a.reply = "ok"
    <3>1. Then(AfterSteering)
      BY <2>1, <2>3
    <3> QED BY <1>1, <2>2, <2>3, <3>1, SteerWorks
  <2>4. CASE a.reply = "refused"
    <3>1. Then("resteerDel")
      BY <2>1, <2>4
    <3> QED BY <1>3, <2>2, <2>4, <3>1
  <2>5. CASE a.reply = "error"
    <3>1. Return(FALSE)
      BY <2>1, <2>5
    <3> QED BY <1>1, <2>2, <2>5, <3>1, SteerFails
  <2> QED BY <2>2, <2>3, <2>4, <2>5
<1>5. CASE /\ vpp.steering[endpoint] # NoAddr
           /\ UNCHANGED <<vpp, trouble>>
           /\ Then("resteerDel")
  BY <1>3, <1>5
<1> QED BY <1>4, <1>5 DEF Steer

LEMMA ResteerDelIsBetter == ASSUME IInv, CallInv, ResteerDel PROVE Better
<1>1. pc = "resteerDel" /\ pc \in SteerPoint
  BY DEF ResteerDel, SteerPoint
<1>2. Apart(vpp, before.steering)
  BY <1>1 DEF CallInv, Standing, Place
<1>3. PICK a \in Ask(Steered(vpp, endpoint, NoAddr)) :
        Sent(a) /\ IF a.reply = "ok" THEN Then("resteer") ELSE Return(FALSE)
  BY DEF ResteerDel
<1>4. /\ vpp' \in Plane
      /\ vpp'.policies[target] = vpp.policies[target]
      /\ Apart(vpp', before.steering) \/ Apart(vpp', Moved(NoAddr))
      /\ a.reply = "ok" => Apart(vpp', Moved(NoAddr))
      /\ a.reply # "ok" => Refusals
  BY <1>1, <1>2, <1>3, SteeringOnce DEF Moved
<1>5. CASE a.reply = "ok"
  <2>1. Goto("resteer")
    BY <1>3, <1>5 DEF Then
  <2> QED BY <1>1, <1>4, <1>5, <2>1, SteerGoesOn
<1>6. CASE a.reply # "ok"
  <2>1. Return(FALSE)
    BY <1>3, <1>6
  <2> QED BY <1>1, <1>4, <1>6, <2>1, SteerFails
<1> QED BY <1>5, <1>6

LEMMA ResteerIsBetter == ASSUME IInv, CallInv, Resteer PROVE Better
<1>1. pc = "resteer" /\ pc \in SteerPoint
  BY DEF Resteer, SteerPoint
<1>2. Apart(vpp, Moved(NoAddr)) /\ target \in BSID \cup {NoAddr}
  BY <1>1, SteerFacts DEF CallInv, Standing, Place
<1>3. PICK a \in Ask(Steered(vpp, endpoint, target)) :
        Sent(a) /\ IF a.reply = "ok" THEN Then(AfterSteering) ELSE Return(FALSE)
  BY DEF Resteer
<1>4. [Moved(NoAddr) EXCEPT ![endpoint] = target] = Moved(target)
  <2>1. before.steering \in [Endpoint -> BSID \cup {NoAddr}] /\ endpoint \in Endpoint
    BY <1>1, SteerFacts DEF Plane
  <2> QED BY <2>1 DEF Moved
<1>5. /\ vpp' \in Plane
      /\ vpp'.policies[target] = vpp.policies[target]
      /\ Apart(vpp', Moved(NoAddr)) \/ Apart(vpp', Moved(target))
      /\ a.reply = "ok" => Apart(vpp', Moved(target))
      /\ a.reply # "ok" => Refusals
  BY <1>1, <1>2, <1>3, <1>4, SteeringOnce
<1>6. CASE a.reply = "ok"
  BY <1>1, <1>3, <1>5, <1>6, SteerWorks
<1>7. CASE a.reply # "ok"
  <2>1. Return(FALSE)
    BY <1>3, <1>7
  <2> QED BY <1>1, <1>5, <1>7, <2>1, SteerFails
<1> QED BY <1>6, <1>7

LEMMA SupersedeIsBetter == ASSUME IInv, CallInv, Supersede PROVE Better
<1> DEFINE w == WithoutPolicy(vpp, call.old)
<1>1. pc = "supersede" /\ pc \in SteerPoint \cup {"supersede"}
  BY DEF Supersede
<1>2. PICK a \in Ask(w) : Sent(a) /\ Return(TRUE)
  BY DEF Supersede
<1>3. call.op = "Replace" /\ call.old # target /\ call.old \in BSID
  <2>1. call.op = "Replace" /\ ~InPlace
    BY <1>1 DEF IInv, Control
  <2> QED BY <1>1, <2>1, SteerFacts, CallFields DEF InPlace
<1>4. Lists(vpp) = Shape(Goal, Final)
  <2>1. Apart(vpp, Final)
    BY <1>1 DEF CallInv, Standing, Place
  <2> QED BY <1>1, <2>1, SteerFacts, ApartShape
<1>5. w.policies[target] = vpp.policies[target]
  BY <1>1, <1>3, SteerFacts, WithoutPolicyDeletes
<1>6. Lists(w) = Port!WithPolicy(Shape(Goal, Final), call.old, {})
  BY <1>1, <1>3, <1>4, SteerFacts, ListsOfEffects
<1>7. a.reply # "ok" => Refusals
  BY <1>1, <1>2, SteerFacts, FailedRequest
<1>8. vpp' \in {vpp, w} /\ (a.reply = "ok" => vpp' = w)
  BY <1>2, AskAnswers DEF Sent
<1> HIDE DEF w
<1>9. Permitted(Lists(vpp'), TRUE)
  <2>1. /\ Permitted(Port!WithPolicy(Shape(Goal, Final), call.old, {}), TRUE)
        /\ Refusals => Permitted(Shape(Goal, Final), TRUE)
    BY <1>1, <1>3, SteerFacts, MovePermits
  <2>2. CASE vpp' = w
    BY <1>6, <2>1, <2>2
  <2>3. CASE vpp' # w
    BY <1>4, <1>7, <1>8, <2>1, <2>3
  <2> QED BY <2>2, <2>3
<1>10. SameLists(vpp'.policies[target], Wanted(call.path))
  BY <1>1, <1>5, <1>8, SteerFacts
<1>11. Sealed(vpp', TRUE, trouble')
  BY <1>9, <1>10 DEF Sealed
<1> QED BY <1>2, <1>11, ReturnIsBetter

-----------------------------------------------------------------------------
(* The calls that withdraw a policy or handle a drop route.                *)

LEMMA OtherFacts ==
  ASSUME IInv, pc \in OtherPoint
  PROVE  /\ pc # "idle" /\ call \in Call /\ endpoint \in Endpoint
         /\ before \in Plane /\ vpp \in Plane
         /\ trouble \in {"none", "one", "more"}
         /\ call.op \in {"Replace", "Remove", "RemoveBSID"} => call.old \in BSID
BY CallIsTyped DEF OtherPoint

LEMMA OtherEnds ==
  ASSUME ~Programming, NEW ok \in BOOLEAN, Return(ok),
         (Refusals => Unacked) => Permitted(Lists(vpp'), ok)
  PROVE  Better
BY ReturnIsBetter DEF Sealed

LEMMA LoosenedIsLoose ==
  ASSUME before \in Plane, endpoint \in Endpoint, call.op \in {"Remove", "InstallDrop"},
         NEW v, Loosened(v)
  PROVE  Loose(Lists(v))
<1>1. Lists(Steered(before, endpoint, NoAddr))
        = Port!WithSteering(Lists(before), endpoint, NoAddr)
  BY ListsOfEffects
<1> QED BY <1>1 DEF Loosened, Loose

LEMMA UnsteerIsBetter == ASSUME IInv, CallInv, Unsteer PROVE Better
<1> DEFINE l == IF call.op = "Remove" THEN "delete" ELSE "drop"
           w == Steered(vpp, endpoint, NoAddr)
<1>1. pc = "unsteer" /\ pc \in OtherPoint
  BY DEF Unsteer, OtherPoint
<1>2. /\ vpp = before
      /\ call.op \in {"Remove", "InstallDrop"}
      /\ call.key \in Steerable
  BY <1>1 DEF CallInv, Standing, Place, Occasion
<1>3. PICK a \in Ask(w) : Sent(a) /\ Then(l)
  BY DEF Unsteer
<1>4. a.reply # "ok" => Refusals
  BY <1>1, <1>3, OtherFacts, FailedRequest
<1>5. vpp' \in {vpp, w} /\ (a.reply = "ok" => vpp' = w)
  BY <1>3, AskAnswers DEF Sent
<1>6. Loosened(vpp')
  BY <1>2, <1>4, <1>5 DEF Loosened
<1>7. l \in {"delete", "drop"} /\ (l = "drop" => call.op = "InstallDrop")
  BY <1>2
<1>8. Goto(l)
  BY <1>3 DEF Then
<1> HIDE DEF l
<1>9. Standing(l, vpp', adds', stale', trouble')
  BY <1>2, <1>6, <1>7 DEF Standing, Place, Progress, Occasion, SteerPoint
<1> QED BY <1>7, <1>8, <1>9, GotoIsBetter

LEMMA DeletePermits ==
  ASSUME IInv, CallInv, pc = "delete"
  PROVE  LET gone == Port!WithPolicy(Lists(vpp), call.old, {}) IN
         /\ Permitted(gone, TRUE)
         /\ Refusals /\ Unacked =>
              Permitted(gone, FALSE) /\ Permitted(Lists(vpp), FALSE)
<1>1. pc \in OtherPoint
  BY DEF OtherPoint
<1>2. call.op \in {"Remove", "RemoveBSID"} /\ Loosened(vpp)
  BY DEF IInv, Control, CallInv, Standing, Place
<1>3. CASE call.op = "Remove"
  <2>1. Loose(Lists(vpp))
    BY <1>1, <1>2, <1>3, OtherFacts, LoosenedIsLoose
  <2> QED BY <1>1, <1>3, <2>1, OtherFacts, RemovePermits
<1>4. CASE call.op = "RemoveBSID"
  <2>1. vpp = before
    BY <1>2, <1>4 DEF Loosened
  <2> QED BY <1>1, <1>4, <2>1, OtherFacts, CollectPermits
<1> QED BY <1>2, <1>3, <1>4

LEMMA DeleteIsBetter == ASSUME IInv, CallInv, Delete PROVE Better
<1> DEFINE w == WithoutPolicy(vpp, call.old)
<1>1. pc = "delete" /\ pc \in OtherPoint
  BY DEF Delete, OtherPoint
<1>2. call.op \in {"Remove", "RemoveBSID"} /\ Loosened(vpp)
  BY <1>1 DEF IInv, Control, CallInv, Standing, Place
<1>3. PICK a \in Ask(w) : Sent(a) /\ Return(a.reply = "ok")
  BY DEF Delete
<1>4. a.reply # "ok" => Refusals
  BY <1>1, <1>3, OtherFacts, FailedRequest
<1>5. vpp' \in {vpp, w} /\ (a.reply = "ok" => vpp' = w)
  BY <1>3, AskAnswers DEF Sent
<1>6. Lists(w) = Port!WithPolicy(Lists(vpp), call.old, {})
  BY <1>1, <1>2, OtherFacts, ListsOfEffects
<1>7. LET gone == Port!WithPolicy(Lists(vpp), call.old, {}) IN
      /\ Permitted(gone, TRUE)
      /\ Refusals /\ Unacked => Permitted(gone, FALSE) /\ Permitted(Lists(vpp), FALSE)
  BY <1>1, DeletePermits
<1> HIDE DEF w
<1>8. (Refusals => Unacked) => Permitted(Lists(vpp'), a.reply = "ok")
  <2>1. CASE a.reply = "ok"
    BY <1>5, <1>6, <1>7, <2>1
  <2>2. CASE a.reply # "ok"
    <3>1. (a.reply = "ok") = FALSE
      BY <2>2
    <3>2. (Refusals => Unacked) => Permitted(Lists(vpp'), FALSE)
      BY <1>4, <1>5, <1>6, <1>7, <2>2
    <3> QED BY <3>1, <3>2
  <2> QED BY <2>1, <2>2
<1>9. ~Programming
  BY <1>2 DEF Programming
<1>10. (a.reply = "ok") \in BOOLEAN
  OBVIOUS
<1> QED BY <1>3, <1>8, <1>9, <1>10, OtherEnds

LEMMA RefuseIsBetter == ASSUME IInv, CallInv, Refuse PROVE Better
<1>1. pc = "refuse" /\ pc \in OtherPoint /\ Return(FALSE) /\ vpp' = vpp
  BY DEF Refuse, OtherPoint
<1>2. vpp = before /\ call.op = "InstallDrop" /\ call.key \notin Steerable
  BY <1>1 DEF CallInv, Standing, Place, Occasion
<1>3. Permitted(Lists(vpp'), FALSE)
  BY <1>1, <1>2, OtherFacts, DropPermits
<1>4. ~Programming
  BY <1>2 DEF Programming
<1> QED BY <1>1, <1>3, <1>4, OtherEnds

LEMMA DropIsBetter == ASSUME IInv, CallInv, Drop PROVE Better
<1> DEFINE w == [vpp EXCEPT !.drops = @ \cup {endpoint}]
           d == Lists(vpp)
           barred == [d EXCEPT !.drops = @ \cup {endpoint}]
<1>1. pc = "drop" /\ pc \in OtherPoint
  BY DEF Drop, OtherPoint
<1>2. Loosened(vpp) /\ call.op = "InstallDrop" /\ call.key \in Steerable
  BY <1>1 DEF CallInv, Standing, Place, Occasion
<1>3. PICK a \in Ask(w) : Sent(a) /\ Return(a.reply = "ok")
  BY DEF Drop
<1>4. a.reply # "ok" => Refusals
  BY <1>1, <1>3, OtherFacts, FailedRequest
<1>5. vpp' \in {vpp, w} /\ (a.reply = "ok" => vpp' = w)
  BY <1>3, AskAnswers DEF Sent
<1>6. Lists(w) = barred
  <2>1. w = [vpp EXCEPT !.drops = vpp.drops \cup {endpoint}]
    BY <1>1, OtherFacts DEF Plane
  <2>2. d.drops = vpp.drops
    BY ListsFields
  <2>3. barred = [d EXCEPT !.drops = vpp.drops \cup {endpoint}]
    BY <2>2
  <2> HIDE DEF w, barred
  <2> QED BY <1>1, <2>1, <2>3, OtherFacts, ListsOfEffects DEF d
<1>7. /\ Permitted(barred, TRUE)
      /\ Refusals /\ Unacked => Permitted(barred, FALSE) /\ Permitted(d, FALSE)
  <2>1. Loose(d)
    BY <1>1, <1>2, OtherFacts, LoosenedIsLoose
  <2> QED BY <1>1, <1>2, <2>1, OtherFacts, DropPermits
<1> HIDE DEF w, barred
<1>8. (Refusals => Unacked) => Permitted(Lists(vpp'), a.reply = "ok")
  <2>1. CASE a.reply = "ok"
    BY <1>5, <1>6, <1>7, <2>1
  <2>2. CASE a.reply # "ok"
    <3>1. (a.reply = "ok") = FALSE
      BY <2>2
    <3>2. (Refusals => Unacked) => Permitted(Lists(vpp'), FALSE)
      BY <1>4, <1>5, <1>6, <1>7, <2>2
    <3> QED BY <3>1, <3>2
  <2> QED BY <2>1, <2>2
<1>9. ~Programming
  BY <1>2 DEF Programming
<1>10. (a.reply = "ok") \in BOOLEAN
  OBVIOUS
<1> QED BY <1>3, <1>8, <1>9, <1>10, OtherEnds

LEMMA UndropIsBetter == ASSUME IInv, CallInv, Undrop PROVE Better
<1> DEFINE w == [vpp EXCEPT !.drops = @ \ {endpoint}]
           d == Lists(vpp)
           opened == [d EXCEPT !.drops = @ \ {endpoint}]
<1>1. pc = "undrop" /\ pc \in OtherPoint
  BY DEF Undrop, OtherPoint
<1>2. vpp = before /\ call.op = "RemoveDrop"
  BY <1>1 DEF CallInv, Standing, Place, Occasion
<1>3. PICK a \in Ask(w) : Sent(a) /\ Return(a.reply # "error")
  BY DEF Undrop
<1>4. a.reply # "ok" => Refusals
  BY <1>1, <1>3, OtherFacts, FailedRequest
<1>5. /\ vpp' \in {vpp, w} /\ (a.reply = "ok" => vpp' = w)
      /\ a.reply = "refused" => vpp' = vpp
      /\ a.reply \in {"ok", "refused", "error"}
  BY <1>3, AskAnswers DEF Sent
<1>6. Lists(w) = opened
  <2>1. w = [vpp EXCEPT !.drops = vpp.drops \ {endpoint}]
    BY <1>1, OtherFacts DEF Plane
  <2>2. d.drops = vpp.drops
    BY ListsFields
  <2>3. opened = [d EXCEPT !.drops = vpp.drops \ {endpoint}]
    BY <2>2
  <2> HIDE DEF w, opened
  <2> QED BY <1>1, <2>1, <2>3, OtherFacts, ListsOfEffects DEF d
<1>7. /\ Permitted(opened, TRUE)
      /\ Refusals => Permitted(d, TRUE) /\ Permitted(d, FALSE)
      /\ Refusals /\ Unacked => Permitted(opened, FALSE)
  BY <1>1, <1>2, OtherFacts, UndropPermits
<1> HIDE DEF w, opened
<1>8. (Refusals => Unacked) => Permitted(Lists(vpp'), a.reply # "error")
  <2>1. CASE a.reply # "error"
    <3>1. (a.reply # "error") = TRUE
      BY <2>1
    <3>2. Permitted(Lists(vpp'), TRUE)
      BY <1>4, <1>5, <1>6, <1>7, <2>1
    <3> QED BY <3>1, <3>2
  <2>2. CASE a.reply = "error"
    <3>1. (a.reply # "error") = FALSE
      BY <2>2
    <3>2. (Refusals => Unacked) => Permitted(Lists(vpp'), FALSE)
      BY <1>4, <1>5, <1>6, <1>7, <2>2
    <3> QED BY <3>1, <3>2
  <2> QED BY <2>1, <2>2
<1>9. ~Programming
  BY <1>2 DEF Programming
<1>10. (a.reply # "error") \in BOOLEAN
  OBVIOUS
<1> QED BY <1>3, <1>8, <1>9, <1>10, OtherEnds

-----------------------------------------------------------------------------
(* The daemon may die before any request: what it has done so far is what  *)
(* a failed call may leave.                                                *)

LEMMA MayStop ==
  ASSUME IInv, CallInv, pc # "idle", Refusals, Unacked
  PROVE  Permitted(Lists(vpp), FALSE)
<1> DEFINE P == vpp.policies[target]
           W == Wanted(call.path)
<1>1. CASE pc \in InstallPoint
  <2>1. CASE vpp = before
    BY <1>1, <2>1, InstallFacts, InstallMayFail
  <2>2. CASE pc \in {"policyAddAgain", "install", "rollback"}
    <3>1. Apart(vpp, before.steering)
      BY <2>2 DEF CallInv, Standing, Place
    <3>2. Image(P) \subseteq Goal
      <4>1. CASE pc = "policyAddAgain"
        BY <4>1 DEF CallInv, Standing, Progress, Has, Image
      <4>2. CASE pc = "install"
        <5>1. Due(P, W, adds, {}) /\ adds \in SUBSET DOMAIN W
          BY <1>1, <4>2, InstallFacts, NextToAdd DEF CallInv, Standing, Progress, Wanted
        <5>2. P \in ListTable /\ W \in ListTable
          BY <1>1, InstallFacts DEF Plane
        <5> QED BY <5>1, <5>2, DueAdding DEF Goal
      <4>3. CASE pc = "rollback"
        BY <4>3 DEF CallInv, Standing, Progress
      <4> QED BY <2>2, <4>1, <4>2, <4>3
    <3> QED BY <1>1, <3>1, <3>2, InstallFacts, InstallMayFail
  <2>3. pc \in {"policyAdd", "replaceExisting"} => vpp = before
    BY DEF CallInv, Standing, Place
  <2> QED BY <1>1, <2>1, <2>2, <2>3 DEF InstallPoint
<1>2. CASE pc \in UpdatePoint
  <2>1. CASE pc = "dump"
    <3>1. vpp = before
      BY <2>1 DEF CallInv, Standing, Place
    <3> QED BY <1>2, <3>1, UpdateFacts, UpdateMayFail
  <2>2. CASE pc \in {"update", "prune"}
    <3>1. Apart(vpp, before.steering) /\ Image(P) \subseteq Found \cup Goal
      BY <2>2 DEF CallInv, Standing, Place, Progress
    <3>2. pc = "update" => Found \subseteq Image(P)
      BY DEF CallInv, Standing, Progress
    <3>3. pc = "prune" => Goal \subseteq Image(P)
      <4>1. SUFFICES ASSUME pc = "prune" PROVE Goal \subseteq Image(P)
        OBVIOUS
      <4>2. Due(P, W, {}, stale) /\ stale \in SUBSET DOMAIN P
        BY <4>1 DEF CallInv, Standing, Progress, IInv, Work
      <4>3. P \in ListTable /\ W \in ListTable
        BY <1>2, UpdateFacts
      <4> QED BY <4>2, <4>3, DueDeleting DEF Goal
    <3> QED BY <1>2, <2>2, <3>1, <3>2, <3>3, UpdateFacts, UpdateMayFail
  <2> QED BY <1>2, <2>1, <2>2 DEF UpdatePoint
<1>3. CASE pc \in SteerPoint
  <2>1. Apart(vpp, before.steering) \/ Apart(vpp, Moved(NoAddr))
    BY <1>3 DEF CallInv, Standing, Place, SteerPoint
  <2> QED BY <1>3, <2>1, SteerFacts, SteerMayFail
<1>4. CASE pc = "supersede"
  <2>1. Apart(vpp, Final)
    BY <1>4 DEF CallInv, Standing, Place
  <2>2. Lists(vpp) = Shape(Goal, Final)
    BY <1>4, <2>1, SteerFacts, ApartShape
  <2>3. HalfDone(Lists(vpp))
    BY <2>2 DEF HalfDone, Final
  <2> QED BY <1>4, <2>3, SteerFacts, AddPermits, MovePermits DEF Programming
<1>5. CASE pc = "unsteer"
  <2>1. vpp = before /\ call.op \in {"Remove", "InstallDrop"} /\ call.key \in Steerable
    BY <1>5 DEF CallInv, Standing, Place, Occasion
  <2>2. Loose(Lists(vpp))
    BY <2>1 DEF Loose
  <2> QED BY <2>1, <2>2, CallIsTyped, RemovePermits, DropPermits
<1>6. CASE pc = "delete"
  BY <1>6, DeletePermits
<1>7. CASE pc = "drop"
  <2>1. Loosened(vpp) /\ call.op = "InstallDrop" /\ call.key \in Steerable
    BY <1>7 DEF CallInv, Standing, Place, Occasion
  <2>2. Loose(Lists(vpp))
    BY <2>1, CallIsTyped, LoosenedIsLoose
  <2> QED BY <2>1, <2>2, CallIsTyped, DropPermits
<1>8. CASE pc = "refuse"
  <2>1. vpp = before /\ call.op = "InstallDrop" /\ call.key \notin Steerable
    BY <1>8 DEF CallInv, Standing, Place, Occasion
  <2> QED BY <2>1, CallIsTyped, DropPermits
<1>9. CASE pc = "undrop"
  <2>1. vpp = before /\ call.op = "RemoveDrop"
    BY <1>9 DEF CallInv, Standing, Place, Occasion
  <2> QED BY <2>1, CallIsTyped, UndropPermits
<1>10. pc \in ProgramPoint
  BY DEF IInv, Typed
<1> QED BY <1>1, <1>2, <1>3, <1>4, <1>5, <1>6, <1>7, <1>8, <1>9, <1>10
     DEF ProgramPoint, InstallPoint, UpdatePoint, SteerPoint

LEMMA CrashIsBetter == ASSUME IInv, CallInv, Crash PROVE Better
<1>1. pc # "idle" /\ Refusals /\ Over(FALSE) /\ trouble' = "more" /\ vpp' = vpp
  BY DEF Crash
<1>2. Unacked => Permitted(Lists(vpp'), FALSE)
  BY <1>1, MayStop
<1>3. Sealed(vpp', FALSE, trouble')
  BY <1>1, <1>2 DEF Sealed
<1> QED BY <1>1, <1>3, OverIsBetter

-----------------------------------------------------------------------------
(* The specification.                                                      *)

(* A call begins with the dataplane it is going to change.                 *)
Entered ==
  /\ call' \in Call
  /\ pc' # "idle"
  /\ vpp' = vpp /\ before' = vpp /\ nil' = nil

LEMMA BeginIsBetter ==
  ASSUME IInv, NEW c \in Call, Begin(c)
  PROVE  CallInv' /\ Entered
<1>1. pc = "idle" /\ call' = c /\ pc' = Entry(c) /\ before' = vpp /\ vpp' = vpp /\ nil' = nil
  BY DEF Begin
<1>2. c.op \in {"Add", "Replace", "Remove", "RemoveBSID", "InstallDrop", "RemoveDrop"}
  BY DEF Call
<1>3. /\ Entry(c) \in {"policyAdd", "dump", "unsteer", "delete", "refuse", "undrop"}
      /\ Entry(c) = "unsteer" =>
           c.op \in {"Remove", "InstallDrop"} /\ c.key \in Steerable
      /\ Entry(c) = "delete" => \/ c.op = "Remove" /\ c.key \notin Steerable
                                \/ c.op = "RemoveBSID"
      /\ Entry(c) = "refuse" => c.op = "InstallDrop" /\ c.key \notin Steerable
      /\ Entry(c) = "undrop" => c.op = "RemoveDrop"
  BY <1>2 DEF Entry
<1>4. Place(pc, vpp)'
  BY <1>1, <1>3 DEF Place, Loosened
<1>5. Progress(pc, vpp, adds, stale)'
  BY <1>1, <1>3 DEF Progress, SteerPoint
<1>6. Occasion(pc, trouble)'
  BY <1>1, <1>3 DEF Occasion
<1> QED BY <1>1, <1>3, <1>4, <1>5, <1>6 DEF CallInv, Standing, Entered

(* Every step begins a call, goes on with one, or is the last of one.      *)
Advances == CallInv' /\ IF pc = "idle" THEN Entered ELSE Proceeds

LEMMA NextAdvances == ASSUME IInv, CallInv, Next PROVE Advances
<1>1. CASE Begins
  <2>1. PICK c \in Call : Begin(c)
    BY <1>1, BeginsWithCall
  <2>2. pc = "idle"
    BY <2>1 DEF Begin
  <2> QED BY <2>1, <2>2, BeginIsBetter DEF Advances
<1>2. CASE Install
  <2>1. pc # "idle"
    BY <1>2 DEF Install, PolicyAdd, ReplaceExisting, InstallRest, Rollback
  <2> QED BY <1>2, <2>1, PolicyAddIsBetter, ReplaceExistingIsBetter, InstallRestIsBetter,
       RollbackIsBetter DEF Install, Better, Advances
<1>3. CASE Update
  <2>1. pc # "idle"
    BY <1>3 DEF Update, Dump, UpdateAdd, UpdateDel
  <2> QED BY <1>3, <2>1, DumpIsBetter, UpdateAddIsBetter, UpdateDelIsBetter
       DEF Update, Better, Advances
<1>4. CASE Steering
  <2>1. pc # "idle"
    BY <1>4 DEF Steering, Steer, ResteerDel, Resteer, Supersede, Unsteer
  <2> QED BY <1>4, <2>1, SteerIsBetter, ResteerDelIsBetter, ResteerIsBetter,
       SupersedeIsBetter, UnsteerIsBetter DEF Steering, Better, Advances
<1>5. CASE Routes
  <2>1. pc # "idle"
    BY <1>5 DEF Routes, Delete, Refuse, Drop, Undrop
  <2> QED BY <1>5, <2>1, DeleteIsBetter, RefuseIsBetter, DropIsBetter, UndropIsBetter
       DEF Routes, Better, Advances
<1>6. CASE Crash
  <2>1. pc # "idle"
    BY <1>6 DEF Crash
  <2> QED BY <1>6, <2>1, CrashIsBetter DEF Better, Advances
<1> QED BY <1>1, <1>2, <1>3, <1>4, <1>5, <1>6 DEF Next

LEMMA InitCallInv == ASSUME Init PROVE CallInv
BY DEF Init, CallInv, Standing, Place, Progress, Occasion, SteerPoint

LEMMA IdleKeepsCallInv == ASSUME CallInv, UNCHANGED vars PROVE CallInv'
BY DEF vars, CallInv, Standing, Place, Progress, Occasion, Apart, Loosened, Moved,
   Final, Goal, Found, target, endpoint, Has

THEOREM CallInvariance == Spec => [](IInv /\ CallInv)
<1>1. Init => IInv /\ CallInv
  BY InitIInv, InitCallInv
<1>2. IInv /\ CallInv /\ [Next]_vars => IInv' /\ CallInv'
  BY NextIsGood, IdleIsGood, NextAdvances, IdleKeepsCallInv DEF Good, Advances
<1> QED BY <1>1, <1>2, PTL DEF Spec

(* A step that ends a call ends it well.                                   *)
LEMMA ReturnsSealed ==
  ASSUME IInv, CallInv, Next, Returns
  PROVE  Sealed(vpp', nil', trouble') /\ nil' \in BOOLEAN
BY NextAdvances DEF Advances, Proceeds, Returns

(* When Add or Replace returns nil the policy has exactly the valid lists  *)
(* of its path, each as often as the path has it, whatever an earlier call *)
(* that failed half-way has left and however often a list occurs.          *)
THEOREM ListsAreExact == Spec => ExactLists
<1>1. IInv /\ CallInv /\ [Next]_vars =>
        [Returns /\ Programs /\ nil' =>
           SameLists(vpp'.policies[target], Wanted(call.path))]_vars
  BY ReturnsSealed DEF Sealed, Programs, Programming
<1> QED BY <1>1, CallInvariance, PTL DEF Spec, ExactLists

(* An Add, or a move to another BSID, that fails because one request was   *)
(* refused or did not reach VPP leaves of the new policy nothing, all of   *)
(* its lists, or what was there.                                           *)
THEOREM NoHalfIsLeft == Spec => NoHalfPolicy
<1>1. IInv /\ CallInv /\ [Next]_vars =>
        [Returns /\ Programs /\ ~InPlace /\ ~nil' /\ trouble' = "one" =>
           \/ ~Has(vpp', target)
           \/ SameLists(vpp'.policies[target], Wanted(call.path))
           \/ vpp'.policies[target] = before.policies[target]]_vars
  BY ReturnsSealed DEF Sealed, Programs, Programming, Has
<1> QED BY <1>1, CallInvariance, PTL DEF Spec, NoHalfPolicy

LEMMA PortBegins == ASSUME Init PROVE Port!Init
<1>1. Lists(EmptyVPP) = Port!EmptyDataplane
  BY DEF Lists, EmptyVPP, NoLists, Port!EmptyDataplane
<1>2. AsCall(NoCall) = Port!NoCall
  BY DEF AsCall, NoCall, Port!NoCall
<1> QED BY <1>1, <1>2 DEF Init, Port!Init

(* A step of a call is its beginning, its answer, or none for the port.    *)
LEMMA PortGoesOn ==
  ASSUME IInv, CallInv, Next, Refusals => Unacked
  PROVE  Port!Next \/ UNCHANGED <<Lists(IF pc = "idle" THEN vpp ELSE before),
                                  AsCall(call), nil>>
<1> DEFINE d == Lists(IF pc = "idle" THEN vpp ELSE before)
<1>1. AsCall(NoCall) = Port!NoCall
  BY DEF AsCall, NoCall, Port!NoCall
<1>2. CASE pc = "idle"
  <2>1. call = NoCall
    BY <1>2 DEF IInv, Control
  <2>2. call' \in Call /\ pc' # "idle" /\ vpp' = vpp /\ before' = vpp /\ nil' = nil
    BY <1>2, NextAdvances DEF Advances, Entered
  <2>3. d' = d
    BY <1>2, <2>2 DEF Lists
  <2>4. AsCall(call)' = AsCall(call')
    BY DEF AsCall, NoCall
  <2>5. AsCall(call') \in {AsCall(c) : c \in Call}
    BY <2>2
  <2>6. Port!Invoke(AsCall(call'))
    BY <1>1, <2>1, <2>2, <2>3, <2>4 DEF Port!Invoke
  <2> QED BY <2>5, <2>6 DEF Port!Next
<1>3. CASE pc # "idle" /\ pc' # "idle"
  <2>1. call' = call /\ before' = before /\ nil' = nil
    BY <1>3, NextAdvances DEF Advances, Proceeds
  <2> QED BY <1>3, <2>1 DEF Lists, AsCall, NoCall
<1>4. CASE pc # "idle" /\ pc' = "idle"
  <2>1. call' = NoCall /\ Sealed(vpp', nil', trouble')
    BY <1>4, NextAdvances DEF Advances, Proceeds
  <2>2. [dp |-> Lists(vpp'), ok |-> nil'] \in Port!Outcomes(AsCall(call))
    BY <2>1 DEF Sealed, Permitted
  <2>3. d' = Lists(vpp')
    BY <1>4 DEF Lists
  <2>4. AsCall(call)' = Port!NoCall
    BY <1>1, <2>1 DEF AsCall, NoCall
  <2>5. AsCall(call) # Port!NoCall
    BY <1>4, CallIsTyped, OutcomesOfCall
  <2>6. Port!Respond
    BY <2>2, <2>3, <2>4, <2>5 DEF Port!Respond
  <2> QED BY <2>6 DEF Port!Next
<1> QED BY <1>2, <1>3, <1>4

(* The requests of a call, with every failure and crash between them, are  *)
(* one step of the port that the reconciler is checked against.  Only when *)
(* replies can be lost does the port allow what a daemon that dies after   *)
(* the last request of a call leaves: all of its work, and no answer.      *)
THEOREM RefinesPort ==
  ASSUME Refusals => Unacked
  PROVE  Spec => ImplementsPort
<1>1. Init => Port!Init
  BY PortBegins
<1>2. IInv /\ CallInv /\ [Next]_vars =>
        [Port!Next]_<<Lists(IF pc = "idle" THEN vpp ELSE before), AsCall(call), nil>>
  <2>1. CASE Next
    BY <2>1, PortGoesOn
  <2>2. CASE UNCHANGED vars
    BY <2>2 DEF vars, Lists, AsCall, NoCall
  <2> QED BY <2>1, <2>2
<1> QED BY <1>1, <1>2, CallInvariance, PTL DEF Spec, ImplementsPort, Port!Spec

=============================================================================
