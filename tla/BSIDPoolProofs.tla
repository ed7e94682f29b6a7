--------------------------- MODULE BSIDPoolProofs ---------------------------
(***************************************************************************)
(* For prefixes of every size whose last bytes hold no network bits, the   *)
(* pool hands out addresses of the prefix only, and a scan, wherever it    *)
(* starts, reaches every one of them.  (MCBSIDPoolUnaligned shows what the *)
(* other prefixes do.)                                                     *)
(***************************************************************************)
EXTENDS BSIDPool, TLAPS

(* The bytes alloc may write to are zero in the base.                      *)
Aligned(p) ==
  /\ p.base % Radix = 0
  /\ p.size > Radix => p.base % (Radix * Radix) = 0

LEMMA RadixSquare == Radix * Radix \in Nat /\ Radix * Radix > 0
BY PoolAssumption

LEMMA PrefixFields ==
  ASSUME prefix \in Prefixes
  PROVE  prefix.base \in Nat /\ prefix.size \in Nat \ {0}
BY PoolAssumption

LEMMA MaxNextNat ==
  ASSUME prefix \in Prefixes
  PROVE  MaxNext \in Nat /\ MaxNext < prefix.size
<1> DEFINE m == prefix.size
           s == Radix * Radix
<1>1. m \in Nat \ {0} /\ s \in Nat /\ s > 0
  BY PrefixFields, RadixSquare
<1>2. MaxNext = IF m < s THEN m - 1 ELSE s - 1
  BY DEF MaxNext
<1> HIDE DEF m, s
<1>3. MaxNext \in Nat /\ MaxNext < m
  BY <1>1, <1>2
<1> QED  BY <1>3 DEF m

(* Every probe is a counter, and from every start every counter is probed. *)
LEMMA ProbeRange ==
  ASSUME prefix \in Prefixes, NEW n \in 0..MaxNext, NEW i \in 1..MaxNext
  PROVE  Probe(n, i) \in 1..MaxNext
BY MaxNextNat DEF Probe

LEMMA ProbeOnto ==
  ASSUME prefix \in Prefixes, NEW n \in 0..MaxNext, NEW v \in 1..MaxNext
  PROVE  \E i \in 1..MaxNext : Probe(n, i) = v
<1>1. MaxNext \in Nat
  BY MaxNextNat
<1>2. CASE v > n
  <2>1. v - n \in 1..MaxNext /\ Probe(n, v - n) = v
    BY <1>1, <1>2 DEF Probe
  <2> QED  BY <2>1
<1>3. CASE v =< n
  <2>1. v - n + MaxNext \in 1..MaxNext /\ Probe(n, v - n + MaxNext) = v
    BY <1>1, <1>3 DEF Probe
  <2> QED  BY <2>1
<1> QED  BY <1>2, <1>3, <1>1

LEMMA AlignedAddr ==
  ASSUME prefix \in Prefixes, Aligned(prefix), NEW v \in 1..MaxNext
  PROVE  AddrOf(v) = prefix.base + v
<1>1. /\ prefix.base \in Nat /\ prefix.size \in Nat \ {0}
      /\ MaxNext \in Nat /\ MaxNext < prefix.size /\ Radix \in Nat
  BY PrefixFields, MaxNextNat, PoolAssumption
<1>2. CASE v < Radix
  BY <1>1, <1>2 DEF AddrOf, Aligned
<1>3. CASE ~(v < Radix)
  <2>1. prefix.size > Radix
    BY <1>1, <1>3
  <2> QED  BY <1>1, <1>3, <2>1 DEF AddrOf, Aligned
<1> QED  BY <1>2, <1>3

-----------------------------------------------------------------------------
LEMMA TypeInductive ==
  ASSUME \A p \in Prefixes : Aligned(p), TypeOK, [Next]_vars
  PROVE  TypeOK' /\ (InPrefix => InPrefix')
<1> USE DEF TypeOK
<1>1. prefix \in Prefixes /\ Aligned(prefix)
  OBVIOUS
<1>2. /\ prefix.base \in Nat /\ prefix.size \in Nat \ {0}
      /\ MaxNext \in Nat /\ MaxNext < prefix.size
  BY PrefixFields, MaxNextNat
<1>3. prefix' = prefix => MaxNext' = MaxNext
  BY DEF MaxNext
<1>4. CASE Allocate
  <2>1. PICK i \in Hits : /\ next' = Probe(next, i)
                          /\ got' = AddrOf(Probe(next, i))
                          /\ used' = used \cup {got'}
    BY <1>4 DEF Allocate
  <2>2. prefix' = prefix
    BY <1>4 DEF Allocate
  <2>3. Probe(next, i) \in 1..MaxNext
    BY <2>1, <1>1, ProbeRange DEF Hits
  <2>4. got' = prefix.base + Probe(next, i)
    BY <2>1, <2>3, <1>1, AlignedAddr
  <2>5. got' \in Nat /\ got' \in prefix.base .. prefix.base + prefix.size - 1
    BY <2>3, <2>4, <1>2
  <2>6. TypeOK'
    <3>1. next' \in 0..MaxNext'
      BY <2>1, <2>2, <2>3, <1>2, <1>3
    <3>2. used' \subseteq Nat
      BY <2>1, <2>5
    <3> QED  BY <3>1, <3>2, <2>2, <2>5
  <2>7. InPrefix'
    BY <2>2, <2>5 DEF InPrefix
  <2> QED  BY <2>6, <2>7
<1>5. CASE Exhausted
  <2>1. prefix' = prefix /\ used' = used /\ got' = None
    BY <1>5 DEF Exhausted
  <2>2. next' \in 0..MaxNext
    <3>1. CASE MaxNext = 0
      BY <3>1, <1>5 DEF Exhausted
    <3>2. CASE MaxNext # 0
      <4>1. MaxNext \in 1..MaxNext
        BY <3>2, <1>2
      <4> QED  BY <3>2, <4>1, <1>5, <1>1, <1>2, ProbeRange DEF Exhausted
    <3> QED  BY <3>1, <3>2
  <2> QED  BY <2>1, <2>2, <1>3 DEF InPrefix
<1>6. CASE Claim
  <2>1. PICK a \in prefix.base .. prefix.base + prefix.size - 1 :
          used' = used \cup {a}
    BY <1>6 DEF Claim
  <2> QED  BY <2>1, <1>2, <1>3, <1>6 DEF Claim, InPrefix
<1>7. CASE Release
  BY <1>3, <1>7 DEF Release, InPrefix
<1>8. CASE UNCHANGED vars
  BY <1>3, <1>8 DEF vars, InPrefix
<1> QED  BY <1>4, <1>5, <1>6, <1>7, <1>8 DEF Next

LEMMA InitType == Init => TypeOK /\ InPrefix
BY MaxNextNat DEF Init, TypeOK, InPrefix

(* Addresses are handed out of the prefix only.                            *)
THEOREM HandsOutPrefix ==
  ASSUME \A p \in Prefixes : Aligned(p)
  PROVE  Spec => [](TypeOK /\ InPrefix)
<1>1. TypeOK /\ InPrefix /\ [Next]_vars => (TypeOK /\ InPrefix)'
  BY TypeInductive
<1> QED  BY <1>1, InitType, PTL DEF Spec

(* The pool is reported exhausted only when every address is taken.        *)
THEOREM ScanComplete ==
  ASSUME \A p \in Prefixes : Aligned(p)
  PROVE  Spec => NothingMissed
<1>1. ASSUME TypeOK, Exhausted,
             NEW a \in prefix.base + 1 .. prefix.base + MaxNext
      PROVE  a \in used
  <2>1. /\ prefix \in Prefixes /\ Aligned(prefix) /\ next \in 0..MaxNext
        /\ prefix.base \in Nat /\ MaxNext \in Nat
    BY <1>1, PrefixFields, MaxNextNat DEF TypeOK
  <2>2. a - prefix.base \in 1..MaxNext
    BY <2>1
  <2>3. PICK i \in 1..MaxNext : Probe(next, i) = a - prefix.base
    BY <2>1, <2>2, ProbeOnto
  <2>4. AddrOf(Probe(next, i)) = a
    BY <2>1, <2>2, <2>3, AlignedAddr
  <2> QED  BY <1>1, <2>4 DEF Exhausted, Hits
<1>2. TypeOK /\ [Next]_vars =>
        [Exhausted => prefix.base + 1 .. prefix.base + MaxNext \subseteq used]_vars
  BY <1>1
<1> QED  BY <1>2, HandsOutPrefix, PTL DEF Spec, NothingMissed

(* The counter is the one of the address that was handed out last.         *)
GotNext == got # None => next \in 1..MaxNext /\ got = prefix.base + next

LEMMA GotNextKept ==
  ASSUME \A p \in Prefixes : Aligned(p), TypeOK, GotNext, [Next]_vars
  PROVE  GotNext'
<1>1. prefix \in Prefixes /\ Aligned(prefix) /\ next \in 0..MaxNext
  BY DEF TypeOK
<1>2. prefix' = prefix => MaxNext' = MaxNext
  BY DEF MaxNext
<1>3. CASE Allocate
  <2>1. PICK i \in Hits : next' = Probe(next, i) /\ got' = AddrOf(Probe(next, i))
    BY <1>3 DEF Allocate
  <2>2. next' \in 1..MaxNext
    BY <1>1, <2>1, ProbeRange DEF Hits
  <2>3. got' = prefix.base + next'
    BY <1>1, <2>1, <2>2, AlignedAddr
  <2> QED  BY <1>2, <1>3, <2>2, <2>3 DEF Allocate, GotNext
<1>4. CASE Exhausted
  BY <1>4 DEF Exhausted, GotNext
<1>5. CASE Claim \/ Release \/ UNCHANGED vars
  BY <1>2, <1>5 DEF Claim, Release, vars, GotNext
<1> QED  BY <1>3, <1>4, <1>5 DEF Next

(* A BSID just given back is the last to be given away again.              *)
THEOREM LeastRecentlyGiven ==
  ASSUME \A p \in Prefixes : Aligned(p)
  PROVE  Spec => RoundRobin
<1>1. ASSUME TypeOK, GotNext, Allocate, got' = got,
             NEW a \in prefix.base + 1 .. prefix.base + MaxNext, a # got
      PROVE  a \in used
  <2>1. /\ prefix \in Prefixes /\ Aligned(prefix) /\ next \in 0..MaxNext
        /\ prefix.base \in Nat /\ MaxNext \in Nat
    BY <1>1, PrefixFields, MaxNextNat DEF TypeOK
  <2>2. PICK i \in Hits : /\ \A j \in Hits : i =< j
                          /\ got' = AddrOf(Probe(next, i))
    BY <1>1 DEF Allocate
  <2>3. i \in 1..MaxNext /\ Probe(next, i) \in 1..MaxNext
    BY <2>1, <2>2, ProbeRange DEF Hits
  <2>4. got = prefix.base + Probe(next, i)
    BY <1>1, <2>1, <2>2, <2>3, AlignedAddr
  <2>5. Probe(next, i) = next
    BY <1>1, <2>1, <2>3, <2>4 DEF GotNext, None
  <2>6. i = MaxNext
    BY <2>1, <2>3, <2>5 DEF Probe
  <2>7. a - prefix.base \in 1..MaxNext
    BY <2>1
  <2>8. PICK j \in 1..MaxNext : Probe(next, j) = a - prefix.base
    BY <2>1, <2>7, ProbeOnto
  <2>9. AddrOf(Probe(next, j)) = a
    BY <2>1, <2>7, <2>8, AlignedAddr
  <2>10. j # i
    BY <1>1, <2>1, <2>4, <2>7, <2>8
  <2>11. j \notin Hits
    BY <2>1, <2>2, <2>6, <2>8, <2>10
  <2> QED  BY <2>8, <2>9, <2>11 DEF Hits
<1>2. TypeOK /\ GotNext /\ [Next]_vars =>
        [Allocate /\ got' = got =>
           prefix.base + 1 .. prefix.base + MaxNext \subseteq used \cup {got}]_vars
  BY <1>1
<1>3. Init => GotNext
  BY DEF Init, GotNext
<1>4. TypeOK /\ GotNext /\ [Next]_vars => GotNext'
  BY GotNextKept
<1> QED  BY <1>2, <1>3, <1>4, HandsOutPrefix, PTL DEF Spec, RoundRobin

(* An address is a natural number whatever the prefix.                     *)
LEMMA AddrNat ==
  ASSUME prefix \in Prefixes, NEW v \in Nat
  PROVE  AddrOf(v) \in Nat
<1>1. \A b \in Nat, m \in Nat \ {0} : b - (b % m) \in Nat
  OBVIOUS
<1>2. prefix.base \in Nat /\ Radix \in Nat \ {0}
  BY PrefixFields, PoolAssumption
<1>3. prefix.base - (prefix.base % Radix) \in Nat
  BY <1>1, <1>2
<1>4. prefix.base - (prefix.base % (Radix * Radix)) \in Nat
  BY <1>1, <1>2, RadixSquare
<1> DEFINE x == prefix.base - (prefix.base % Radix)
           y == prefix.base - (prefix.base % (Radix * Radix))
<1>5. AddrOf(v) = IF v < Radix THEN x + v ELSE y + v
  BY DEF AddrOf
<1> HIDE DEF x, y
<1> QED  BY <1>3, <1>4, <1>5 DEF x, y

(* The types, and the range of the counter, whatever the prefix.           *)
THEOREM PoolTyped == Spec => []TypeOK
<1>1. ASSUME TypeOK, [Next]_vars
      PROVE  TypeOK'
  <2>1. /\ prefix \in Prefixes /\ next \in 0..MaxNext /\ used \subseteq Nat
        /\ prefix.base \in Nat /\ prefix.size \in Nat \ {0} /\ MaxNext \in Nat
    BY <1>1, PrefixFields, MaxNextNat DEF TypeOK
  <2>2. prefix' = prefix => MaxNext' = MaxNext
    BY DEF MaxNext
  <2>3. CASE Allocate
    <3>1. PICK i \in Hits : /\ next' = Probe(next, i)
                            /\ got' = AddrOf(Probe(next, i))
                            /\ used' = used \cup {got'}
      BY <2>3 DEF Allocate
    <3>2. Probe(next, i) \in 1..MaxNext
      BY <2>1, <3>1, ProbeRange DEF Hits
    <3>3. got' \in Nat
      BY <2>1, <3>1, <3>2, AddrNat
    <3>4. prefix' = prefix
      BY <2>3 DEF Allocate
    <3>5. next' \in 0..MaxNext' /\ used' \subseteq Nat
      <4>1. next' \in 0..MaxNext
        BY <2>1, <3>1, <3>2
      <4>2. used' \subseteq Nat
        BY <2>1, <3>1, <3>3
      <4> QED  BY <2>2, <3>4, <4>1, <4>2
    <3> QED  BY <2>1, <3>3, <3>4, <3>5 DEF TypeOK
  <2>4. CASE Exhausted
    <3>1. next' \in 0..MaxNext
      BY <2>1, <2>4, ProbeRange DEF Exhausted
    <3> QED  BY <2>1, <2>2, <2>4, <3>1 DEF Exhausted, TypeOK
  <2>5. CASE Claim
    BY <1>1, <2>1, <2>2, <2>5 DEF Claim, TypeOK
  <2>6. CASE Release
    BY <1>1, <2>1, <2>2, <2>6 DEF Release, TypeOK
  <2>7. CASE UNCHANGED vars
    BY <1>1, <2>2, <2>7 DEF vars, TypeOK
  <2> QED  BY <1>1, <2>3, <2>4, <2>5, <2>6, <2>7 DEF Next
<1>2. Init => TypeOK
  BY InitType
<1> QED  BY <1>1, <1>2, PTL DEF Spec

=============================================================================
