------------------------- MODULE SubscriptionProofs -------------------------
(***************************************************************************)
(* The candidate paths follow the RIB of gobgpd, whatever is announced and *)
(* however often the stream breaks: nothing is lost and nothing lives on.  *)
(* Before that, what decode.go makes of a path, however many attributes,   *)
(* sub-TLVs and segments it has.                                           *)
(***************************************************************************)
EXTENDS SubscriptionProps, DecodeProps, FoldProofs


-----------------------------------------------------------------------------
(* A segment list, segment by segment.                                     *)

LEMMA EmptyListType ==
  ASSUME NEW w \in Nat
  PROVE  /\ [EmptyList EXCEPT !.weight = w] \in SegmentList
         /\ [EmptyList EXCEPT !.weight = w].sids = <<>>
         /\ [EmptyList EXCEPT !.weight = w].unsupported = FALSE
         /\ [EmptyList EXCEPT !.weight = w].verify = {}
<1> DEFINE none == <<>>
<1>1. none \in Seq(SID \cup OtherAddr) /\ {} \in SUBSET (Nat \ {0})
  OBVIOUS
<1> DEFINE e0 == [weight |-> 1, sids |-> none, unsupported |-> FALSE, verify |-> {},
                  unresolvable |-> FALSE]
<1>2. e0 \in SegmentList /\ e0.sids = none /\ e0.unsupported = FALSE /\ e0.verify = {}
  <2> HIDE DEF none
  <2> QED  BY <1>1 DEF SegmentList
<1>3. EmptyList = e0
  BY DEF EmptyList
<1> HIDE DEF e0, none
<1> DEFINE e == [e0 EXCEPT !.weight = w]
<1>4. e \in SegmentList /\ e.sids = e0.sids /\ e.unsupported = e0.unsupported
      /\ e.verify = e0.verify
  BY <1>2 DEF SegmentList
<1> QED  BY <1>2, <1>3, <1>4 DEF none

LEMMA KeptSegment ==
  ASSUME NEW seg \in Segment
  PROVE  /\ seg.tag = "B" => seg.sid \in SID \cup OtherAddr \cup {NoAddr} /\ seg.vFlag \in BOOLEAN
         /\ seg.tag \in {"A", "B"}
BY DEF Segment

(* What one segment does to the list.                                      *)
LEMMA AddedSegment ==
  ASSUME NEW sl \in SegmentList, NEW seg \in Segment
  PROVE  LET r == AddSegment(sl, seg)
             n == Len(sl.sids) + 1
         IN  /\ r \in SegmentList
             /\ seg.tag # "B" =>
                  r.unsupported = TRUE /\ r.sids = sl.sids /\ r.verify = sl.verify
             /\ seg.tag = "B" => r.unsupported = sl.unsupported
             /\ seg.tag = "B" /\ seg.sid = NoAddr =>
                  r.sids = sl.sids /\ r.verify = sl.verify
             /\ seg.tag = "B" /\ seg.sid # NoAddr =>
                  /\ r.sids = Append(sl.sids, seg.sid)
                  /\ r.verify = sl.verify \cup (IF seg.vFlag /\ n =< MaskBits THEN {n} ELSE {})
<1> DEFINE r == AddSegment(sl, seg)
           n == Len(sl.sids) + 1
<1>1. /\ sl.sids \in Seq(SID \cup OtherAddr) /\ n \in Nat \ {0}
      /\ sl.verify \in SUBSET (Nat \ {0})
  BY DEF SegmentList
<1>2. CASE seg.tag # "B"
  <2>1. r = [sl EXCEPT !.unsupported = TRUE]
    BY <1>2 DEF AddSegment
  <2>2. r \in SegmentList
    BY <2>1 DEF SegmentList
  <2>3. r.unsupported = TRUE /\ r.sids = sl.sids /\ r.verify = sl.verify
    BY <2>1 DEF SegmentList
  <2> QED  BY <1>2, <2>2, <2>3
<1>3. CASE seg.tag = "B" /\ seg.sid = NoAddr
  <2>1. r = sl
    BY <1>3 DEF AddSegment
  <2> QED  BY <1>3, <2>1
<1>4. CASE seg.tag = "B" /\ seg.sid # NoAddr
  <2> DEFINE v == IF seg.vFlag /\ n =< MaskBits THEN sl.verify \cup {n} ELSE sl.verify
             s == Append(sl.sids, seg.sid)
             y == [sl EXCEPT !.verify = v]
  <2>1. r = [y EXCEPT !.sids = s]
    BY <1>4 DEF AddSegment
  <2>2. s \in Seq(SID \cup OtherAddr) /\ v \in SUBSET (Nat \ {0})
    <3>1. seg.sid \in SID \cup OtherAddr
      BY <1>4, KeptSegment
    <3> QED  BY <1>1, <3>1, AppendProperties
  <2>3. v = sl.verify \cup (IF seg.vFlag /\ n =< MaskBits THEN {n} ELSE {})
    OBVIOUS
  <2> HIDE DEF v, s, r
  <2>4. y \in SegmentList /\ y.verify = v /\ y.unsupported = sl.unsupported
    BY <2>2 DEF SegmentList
  <2> HIDE DEF y
  <2>5. r \in SegmentList /\ r.verify = y.verify /\ r.sids = s /\ r.unsupported = y.unsupported
    BY <2>1, <2>2, <2>4 DEF SegmentList
  <2> QED  BY <1>4, <2>3, <2>4, <2>5 DEF s, r
<1> QED  BY <1>2, <1>3, <1>4

(* The list before the first segment and after each.                       *)
Adds(g, base, segs) ==
  /\ g[0] = base
  /\ \A i \in 1..Len(segs) : g[i] = AddSegment(g[i - 1], segs[i])

LEMMA SegmentTurns ==
  ASSUME NEW segs \in Seq(Segment), NEW base \in SegmentList
  PROVE  \E g \in [0..Len(segs) -> SegmentList] :
            Adds(g, base, segs) /\ FoldLeft(AddSegment, base, segs) = g[Len(segs)]
<1> DEFINE n == Len(segs)
           V == SegmentList
           G == [x \in V \X (1..n) |-> AddSegment(x[1], segs[x[2]])]
           F(it) == [S \in SUBSET (1..n) |->
                       IF S = {} THEN base ELSE AddSegment(it[S \ {Max(S)}], segs[Max(S)])]
           chosen == CHOOSE it : it = F(it)
<1>1. n \in Nat /\ DOMAIN segs = 1..n /\ \A i \in 1..n : segs[i] \in Segment
  BY ElementOfSeq
<1>2. base \in V
  OBVIOUS
<1>3. \A v \in V, a \in Segment : AddSegment(v, a) \in V
  BY AddedSegment
<1> HIDE DEF V
<1>4. G \in [V \X (1..n) -> V]
  BY <1>1, <1>3
<1>5. FoldLeft(AddSegment, base, segs) = chosen[1..n]
  BY <1>1 DEF FoldLeft, MapThenFoldSet
<1> HIDE DEF n
<1>6. \A S \in SUBSET (1..n) : S # {} => Max(S) \in 1..n
  BY <1>1, MaxOfInterval
<1>7. \E it : it = F(it)
  <2>1. PICK f \in [SUBSET (1..n) -> V] : Folds(f, n, base, G)
    <3> HIDE DEF G
    <3> QED  BY <1>1, <1>2, <1>4, FoldExists
  <2>2. \A S \in SUBSET (1..n) : S # {} =>
          G[<<f[S \ {Max(S)}], Max(S)>>] = AddSegment(f[S \ {Max(S)}], segs[Max(S)])
    BY <1>6
  <2>3. f = F(f)
    BY <2>1, <2>2 DEF Folds
  <2> QED  BY <2>3
<1>8. chosen = F(chosen)
  <2> HIDE DEF F
  <2> QED  BY <1>7
<1> HIDE DEF chosen
<1>9. Follows(chosen, n, V, base, G)
  BY <1>6, <1>8 DEF Follows
<1>10. \A v \in V, i \in 1..n : G[<<v, i>>] = AddSegment(v, segs[i])
  OBVIOUS
<1> HIDE DEF G
<1>11. Unfolds(chosen, n, V, base, G)
  BY <1>1, <1>2, <1>4, <1>9, FoldSteps
<1>12. PICK g \in [0..n -> V] : Steps(g, n, base, G) /\ chosen[1..n] = g[n]
  BY <1>11 DEF Unfolds
<1>13. \A i \in 1..n : g[i] = AddSegment(g[i - 1], segs[i])
  <2>1. \A i \in 1..n : g[i - 1] \in V
    BY <1>1
  <2> QED  BY <1>10, <1>12, <2>1 DEF Steps
<1>14. Adds(g, base, segs) /\ FoldLeft(AddSegment, base, segs) = g[n]
  BY <1>5, <1>12, <1>13 DEF Steps, Adds, n
<1> QED  BY <1>14 DEF n, V

LEMMA SegmentListType ==
  ASSUME NEW segs \in Seq(Segment), NEW base \in SegmentList
  PROVE  FoldLeft(AddSegment, base, segs) \in SegmentList
<1>1. Len(segs) \in 0..Len(segs)
  OBVIOUS
<1> QED  BY <1>1, SegmentTurns

-----------------------------------------------------------------------------
(* The positions of the SIDs.                                              *)

KeptAt(segs, i) == {j \in 1..i : segs[j].tag = "B" /\ segs[j].sid # NoAddr}

(* The place in the list of the segment i.                                 *)
PlaceOf(segs, i) == Cardinality(KeptAt(segs, i))

LEMMA PlacesCount ==
  ASSUME NEW segs, NEW i \in Nat
  PROVE  /\ IsFiniteSet(KeptAt(segs, i))
         /\ PlaceOf(segs, i) \in Nat
         /\ PlaceOf(segs, 0) = 0
         /\ i # 0 => PlaceOf(segs, i) = IF i \in KeptAt(segs, i) THEN PlaceOf(segs, i - 1) + 1
                                        ELSE PlaceOf(segs, i - 1)
<1>1. ASSUME NEW j \in Nat
      PROVE  IsFiniteSet(KeptAt(segs, j)) /\ PlaceOf(segs, j) \in Nat
  <2>1. IsFiniteSet(1..j)
    BY FS_Interval
  <2>2. IsFiniteSet(KeptAt(segs, j))
    BY <2>1, FS_Subset DEF KeptAt
  <2> QED  BY <2>2, FS_CardinalityType DEF PlaceOf
<1>2. PlaceOf(segs, 0) = 0
  <2>1. KeptAt(segs, 0) = {}
    BY DEF KeptAt
  <2> QED  BY <2>1, FS_EmptySet DEF PlaceOf
<1>3. ASSUME i # 0
      PROVE  PlaceOf(segs, i) = IF i \in KeptAt(segs, i) THEN PlaceOf(segs, i - 1) + 1
                                ELSE PlaceOf(segs, i - 1)
  <2> DEFINE K == KeptAt(segs, i - 1)
  <2>1. i - 1 \in Nat /\ i \notin K
    BY <1>3 DEF KeptAt
  <2>2. IsFiniteSet(K)
    BY <1>1, <2>1
  <2>3. \A j : j \in 1..i <=> j \in 1..(i - 1) \/ j = i
    BY <1>3
  <2>4. CASE i \in KeptAt(segs, i)
    <3>1. KeptAt(segs, i) = K \cup {i}
      BY <2>3, <2>4 DEF KeptAt
    <3>2. Cardinality(K \cup {i}) = Cardinality(K) + 1
      BY <2>1, <2>2, FS_AddElement
    <3> QED  BY <2>4, <3>1, <3>2 DEF PlaceOf, K
  <2>5. CASE i \notin KeptAt(segs, i)
    <3>1. KeptAt(segs, i) = K
      BY <2>3, <2>5 DEF KeptAt
    <3> QED  BY <2>5, <3>1 DEF PlaceOf
  <2> QED  BY <2>4, <2>5
<1> QED  BY <1>1, <1>2, <1>3

(* What a list holds when i segments have been read.                       *)
HoldsSIDs(sl, segs, i) ==
  /\ Len(sl.sids) = PlaceOf(segs, i)
  /\ \A j \in KeptAt(segs, i) : /\ PlaceOf(segs, j) \in 1..Len(sl.sids)
                                /\ sl.sids[PlaceOf(segs, j)] = segs[j].sid
  /\ sl.unsupported = \E j \in 1..i : segs[j].tag # "B"
  /\ sl.verify = {PlaceOf(segs, j) : j \in {k \in KeptAt(segs, i) :
                                              segs[k].vFlag /\ PlaceOf(segs, k) =< MaskBits}}

LEMMA SegmentAdded ==
  ASSUME NEW segs \in Seq(Segment), NEW i \in 1..Len(segs), NEW sl \in SegmentList,
         HoldsSIDs(sl, segs, i - 1)
  PROVE  HoldsSIDs(AddSegment(sl, segs[i]), segs, i)
<1> DEFINE r == AddSegment(sl, segs[i])
           n == Len(sl.sids) + 1
           K == KeptAt(segs, i - 1)
<1>1. segs[i] \in Segment /\ i \in Nat \ {0} /\ i - 1 \in Nat
  BY ElementOfSeq
<1>2. /\ segs[i].tag # "B" =>
           r.unsupported = TRUE /\ r.sids = sl.sids /\ r.verify = sl.verify
      /\ segs[i].tag = "B" => r.unsupported = sl.unsupported
      /\ segs[i].tag = "B" /\ segs[i].sid = NoAddr =>
           r.sids = sl.sids /\ r.verify = sl.verify
      /\ segs[i].tag = "B" /\ segs[i].sid # NoAddr =>
           /\ r.sids = Append(sl.sids, segs[i].sid)
           /\ r.verify = sl.verify \cup (IF segs[i].vFlag /\ n =< MaskBits THEN {n} ELSE {})
  BY <1>1, AddedSegment
<1> HIDE DEF r
<1>3. /\ PlaceOf(segs, i) \in Nat /\ PlaceOf(segs, i - 1) \in Nat
      /\ PlaceOf(segs, i) = IF i \in KeptAt(segs, i) THEN PlaceOf(segs, i - 1) + 1
                            ELSE PlaceOf(segs, i - 1)
  BY <1>1, PlacesCount
<1>4. \A j : j \in 1..i <=> j \in 1..(i - 1) \/ j = i
  BY <1>1
<1>5. i \in KeptAt(segs, i) <=> segs[i].tag = "B" /\ segs[i].sid # NoAddr
  BY <1>4 DEF KeptAt
<1>6. r.unsupported = \E j \in 1..i : segs[j].tag # "B"
  <2>1. sl.unsupported = \E j \in 1..(i - 1) : segs[j].tag # "B"
    BY DEF HoldsSIDs
  <2>2. CASE segs[i].tag = "B"
    <3>1. (\E j \in 1..i : segs[j].tag # "B") = (\E j \in 1..(i - 1) : segs[j].tag # "B")
      BY <1>4, <2>2
    <3> QED  BY <1>2, <2>1, <2>2, <3>1
  <2>3. CASE segs[i].tag # "B"
    <3>1. (\E j \in 1..i : segs[j].tag # "B") = TRUE
      BY <1>4, <2>3
    <3> QED  BY <1>2, <2>3, <3>1
  <2> QED  BY <2>2, <2>3
<1>7. sl.sids \in Seq(SID \cup OtherAddr) /\ Len(sl.sids) = PlaceOf(segs, i - 1)
  BY DEF HoldsSIDs, SegmentList
<1>8. CASE ~(segs[i].tag = "B" /\ segs[i].sid # NoAddr)
  <2>1. KeptAt(segs, i) = K
    BY <1>4, <1>8 DEF KeptAt
  <2>2. r.sids = sl.sids /\ r.verify = sl.verify
    BY <1>2, <1>8
  <2>3. PlaceOf(segs, i) = PlaceOf(segs, i - 1)
    BY <1>3, <1>5, <1>8
  <2>4. HoldsSIDs(r, segs, i)
    BY <1>6, <2>1, <2>2, <2>3 DEF HoldsSIDs
  <2> QED  BY <2>4 DEF r
<1>9. CASE segs[i].tag = "B" /\ segs[i].sid # NoAddr
  <2>1. KeptAt(segs, i) = K \cup {i}
    BY <1>4, <1>9 DEF KeptAt
  <2>2. PlaceOf(segs, i) = n /\ n \in Nat
    BY <1>3, <1>5, <1>7, <1>9
  <2>3. /\ r.sids = Append(sl.sids, segs[i].sid)
        /\ r.verify = sl.verify \cup (IF segs[i].vFlag /\ n =< MaskBits THEN {n} ELSE {})
    BY <1>2, <1>9
  <2>4. segs[i].sid \in SID \cup OtherAddr
    BY <1>1, <1>9, KeptSegment
  <2>5. /\ Len(r.sids) = n /\ r.sids[n] = segs[i].sid
        /\ \A j \in 1..Len(sl.sids) : r.sids[j] = sl.sids[j]
    BY <1>7, <2>3, <2>4, AppendProperties
  <2>6. \A j \in K : PlaceOf(segs, j) \in 1..Len(sl.sids) /\ sl.sids[PlaceOf(segs, j)] = segs[j].sid
    BY DEF HoldsSIDs
  <2>7. Len(sl.sids) \in Nat
    BY <1>7
  <2>8. \A j \in KeptAt(segs, i) : PlaceOf(segs, j) \in 1..Len(r.sids) /\ r.sids[PlaceOf(segs, j)] = segs[j].sid
    <3> SUFFICES ASSUME NEW j \in KeptAt(segs, i)
                 PROVE  PlaceOf(segs, j) \in 1..Len(r.sids) /\ r.sids[PlaceOf(segs, j)] = segs[j].sid
      OBVIOUS
    <3>1. CASE j = i
      BY <2>2, <2>5, <2>7, <3>1
    <3>2. CASE j # i
      <4>1. j \in K
        BY <2>1, <3>2
      <4>2. PlaceOf(segs, j) \in 1..Len(sl.sids) /\ sl.sids[PlaceOf(segs, j)] = segs[j].sid
        BY <2>6, <4>1
      <4>3. PlaceOf(segs, j) \in 1..n
        BY <2>7, <4>2
      <4> QED  BY <2>5, <4>2, <4>3
    <3> QED  BY <3>1, <3>2
  <2> DEFINE V(k) == segs[k].vFlag /\ PlaceOf(segs, k) =< MaskBits
  <2>9. r.verify = {PlaceOf(segs, j) : j \in {k \in KeptAt(segs, i) : V(k)}}
    <3>1. sl.verify = {PlaceOf(segs, j) : j \in {k \in K : V(k)}}
      BY DEF HoldsSIDs
    <3>2. V(i) <=> segs[i].vFlag /\ n =< MaskBits
      BY <2>2
    <3> HIDE DEF V, K, n
    <3>3. CASE V(i)
      <4>1. {k \in KeptAt(segs, i) : V(k)} = {k \in K : V(k)} \cup {i}
        BY <2>1, <3>3
      <4>2. r.verify = sl.verify \cup {PlaceOf(segs, i)}
        BY <2>2, <2>3, <3>2, <3>3
      <4> QED  BY <3>1, <4>1, <4>2
    <3>4. CASE ~V(i)
      <4>1. {k \in KeptAt(segs, i) : V(k)} = {k \in K : V(k)}
        BY <2>1, <3>4
      <4>2. r.verify = sl.verify
        BY <2>3, <3>2, <3>4
      <4> QED  BY <3>1, <4>1, <4>2
    <3> QED  BY <3>3, <3>4
  <2>10. HoldsSIDs(r, segs, i)
    BY <1>6, <2>2, <2>5, <2>8, <2>9 DEF HoldsSIDs
  <2> QED  BY <2>10 DEF r
<1> QED  BY <1>8, <1>9

LEMMA SegmentsRead ==
  ASSUME NEW segs \in Seq(Segment), NEW w \in Nat
  PROVE  HoldsSIDs(FoldLeft(AddSegment, [EmptyList EXCEPT !.weight = w], segs),
                   segs, Len(segs))
<1> DEFINE base == [EmptyList EXCEPT !.weight = w]
           n == Len(segs)
<1>1. /\ base \in SegmentList /\ base.sids = <<>> /\ base.unsupported = FALSE
      /\ base.verify = {}
  BY EmptyListType
<1> HIDE DEF base
<1>2. n \in Nat
  OBVIOUS
<1>3. PICK g \in [0..n -> SegmentList] :
        Adds(g, base, segs) /\ FoldLeft(AddSegment, base, segs) = g[n]
  BY <1>1, SegmentTurns
<1> DEFINE T == {i \in 0..n : HoldsSIDs(g[i], segs, i)}
<1>4. 0 \in T
  <2>1. KeptAt(segs, 0) = {} /\ PlaceOf(segs, 0) = 0
    <3>1. KeptAt(segs, 0) = {}
      BY DEF KeptAt
    <3> QED  BY <3>1, FS_EmptySet DEF PlaceOf
  <2>2. (\E j \in 1..0 : segs[j].tag # "B") = FALSE
    OBVIOUS
  <2>3. HoldsSIDs(base, segs, 0)
    <3>1. Len(base.sids) = 0
      BY <1>1
    <3>2. {PlaceOf(segs, j) : j \in {k \in KeptAt(segs, 0) :
                                       segs[k].vFlag /\ PlaceOf(segs, k) =< MaskBits}} = {}
      BY <2>1
    <3> QED  BY <1>1, <2>1, <2>2, <3>1, <3>2 DEF HoldsSIDs
  <2>4. g[0] = base /\ 0 \in 0..n
    BY <1>2, <1>3 DEF Adds
  <2> QED  BY <2>3, <2>4
<1>5. ASSUME NEW i \in 1..n, i - 1 \in T
      PROVE  i \in T
  <2>1. i \in 0..n /\ i - 1 \in 0..n /\ i \in 1..Len(segs)
    BY <1>2
  <2>2. g[i] = AddSegment(g[i - 1], segs[i]) /\ g[i - 1] \in SegmentList
    BY <1>3, <2>1 DEF Adds
  <2>3. HoldsSIDs(g[i - 1], segs, i - 1)
    BY <1>5
  <2>4. HoldsSIDs(g[i], segs, i)
    BY <2>1, <2>2, <2>3, SegmentAdded
  <2> QED  BY <2>1, <2>4
<1> HIDE DEF T, n
<1>6. 0..n \subseteq T
  BY <1>2, <1>4, <1>5, InductionUpTo
<1>7. n \in 0..n
  BY <1>2
<1>8. HoldsSIDs(g[n], segs, n)
  BY <1>6, <1>7 DEF T
<1> QED  BY <1>3, <1>8 DEF n, base

(* The SIDs of the segments that were tried are at the places of the rule. *)
LEMMA SegmentListsDecode == triedSegs \in Seq(Segment) => SegmentListRule
<1> SUFFICES ASSUME triedSegs \in Seq(Segment)
             PROVE  SegmentListRule
  OBVIOUS
<1> DEFINE segs == triedSegs
           n == Len(segs)
           sl == DecodeSegmentList([weighted |-> FALSE, segments |-> segs])
           kept == {i \in DOMAIN segs : segs[i].tag = "B" /\ segs[i].sid # NoAddr}
           Place(i) == Cardinality({j \in kept : j =< i})
<1>1. n \in Nat /\ DOMAIN segs = 1..n
  BY ElementOfSeq
<1>2. HoldsSIDs(sl, segs, n)
  <2>1. sl = FoldLeft(AddSegment, [EmptyList EXCEPT !.weight = 1], segs)
    BY DEF DecodeSegmentList
  <2> QED  BY <2>1, SegmentsRead
<1> HIDE DEF sl
<1>3. kept = KeptAt(segs, n)
  BY <1>1 DEF KeptAt
<1>4. ASSUME NEW i \in kept
      PROVE  Place(i) = PlaceOf(segs, i)
  <2>1. i \in 1..n
    BY <1>1
  <2>2. \A j : j \in 1..n /\ j =< i <=> j \in 1..i
    BY <1>1, <2>1
  <2>3. {j \in kept : j =< i} = KeptAt(segs, i)
    BY <1>1, <2>2 DEF KeptAt
  <2> HIDE DEF kept
  <2> QED  BY <2>3 DEF PlaceOf
<1>5. Len(sl.sids) = Cardinality(kept)
  BY <1>2, <1>3 DEF HoldsSIDs, PlaceOf
<1>6. \A i \in kept : sl.sids[Place(i)] = segs[i].sid
  <2> HIDE DEF kept, Place
  <2> QED  BY <1>2, <1>3, <1>4 DEF HoldsSIDs
<1>7. sl.unsupported = (\E i \in DOMAIN segs : segs[i].tag # "B")
  <2>1. (\E i \in DOMAIN segs : segs[i].tag # "B") = (\E i \in 1..n : segs[i].tag # "B")
    BY <1>1
  <2>2. sl.unsupported = (\E i \in 1..n : segs[i].tag # "B")
    BY <1>2 DEF HoldsSIDs
  <2> QED  BY <2>1, <2>2
<1>8. sl.verify = {Place(i) : i \in {j \in kept : segs[j].vFlag /\ Place(j) =< MaskBits}}
  <2>1. sl.verify = {PlaceOf(segs, i) : i \in {j \in kept : segs[j].vFlag /\ PlaceOf(segs, j) =< MaskBits}}
    <3> HIDE DEF kept
    <3> QED  BY <1>2, <1>3 DEF HoldsSIDs
  <2> HIDE DEF kept, Place
  <2>2. {j \in kept : segs[j].vFlag /\ Place(j) =< MaskBits}
          = {j \in kept : segs[j].vFlag /\ PlaceOf(segs, j) =< MaskBits}
    BY <1>4
  <2> QED  BY <1>4, <2>1, <2>2
<1> QED  BY <1>5, <1>6, <1>7, <1>8 DEF SegmentListRule, sl

-----------------------------------------------------------------------------
(* An SR Policy TLV, sub-TLV by sub-TLV.                                   *)

BindingKinds == {"BindingSID", "SRv6BSID"}
OnceOnly == BindingKinds \cup {"Preference", "Priority"}

Reading ==
  [pref : Nat, prio : Nat, bsid : BSID \cup OtherAddr \cup {NoAddr},
   sls : SUBSET SegmentList, sOnly : BOOLEAN, drop : BOOLEAN, have : SUBSET OnceOnly]


LEMMA NothingReadType ==
  /\ NothingRead \in Reading
  /\ NothingRead.bsid = NoAddr /\ NothingRead.sOnly = FALSE /\ NothingRead.drop = FALSE
  /\ NothingRead.have = {}
BY DEF NothingRead, Reading, DefaultPreference, DefaultPriority

LEMMA BoundFields ==
  ASSUME NEW acc \in Reading, NEW sub \in SubTLV, sub.tag \in BindingKinds
  PROVE  LET r == Bind(acc, sub, sub.tag)
         IN  /\ r \in Reading
             /\ r.sOnly = sub.sFlag
             /\ r.drop = sub.iFlag
             /\ r.bsid = IF sub.sid = NoAddr THEN acc.bsid ELSE sub.sid
             /\ r.have = acc.have \cup {sub.tag}
<1>1. /\ sub.sid \in BSID \cup OtherAddr \cup {NoAddr}
      /\ sub.sFlag \in BOOLEAN /\ sub.iFlag \in BOOLEAN
      /\ sub.tag \in OnceOnly
  <2>1. sub \in [tag : {"BindingSID", "SRv6BSID"}, sid : BSID \cup OtherAddr \cup {NoAddr},
                 sFlag : BOOLEAN, iFlag : BOOLEAN]
    BY DEF SubTLV, BindingKinds
  <2>2. sub.tag \in OnceOnly
    BY DEF OnceOnly
  <2>3. sub.sFlag \in BOOLEAN /\ sub.iFlag \in BOOLEAN
    BY <2>1
  <2>4. sub.sid \in BSID \cup OtherAddr \cup {NoAddr}
    BY <2>1
  <2> QED  BY <2>2, <2>3, <2>4
<1> DEFINE a == sub.sid
           s == sub.sFlag
           d == sub.iFlag
           t == sub.tag
           b == IF a = NoAddr THEN acc.bsid ELSE a
           h == acc.have \cup {t}
           y1 == [acc EXCEPT !.sOnly = s]
           y2 == [y1 EXCEPT !.drop = d]
           y3 == [y2 EXCEPT !.bsid = b]
           y4 == [y3 EXCEPT !.have = h]
<1>2. b \in BSID \cup OtherAddr \cup {NoAddr} /\ h \in SUBSET OnceOnly
  BY <1>1 DEF Reading
<1>3. Bind(acc, sub, sub.tag) = y4
  BY DEF Bind, Reading
<1> HIDE DEF b, h
<1>4. s \in BOOLEAN /\ d \in BOOLEAN
  BY <1>1
<1> HIDE DEF s, d
<1>5. y1 \in Reading /\ y1.sOnly = s /\ y1.bsid = acc.bsid /\ y1.have = acc.have
  BY <1>4 DEF Reading
<1> HIDE DEF y1
<1>6. y2 \in Reading /\ y2.sOnly = y1.sOnly /\ y2.drop = d
  BY <1>4, <1>5 DEF Reading
<1> HIDE DEF y2
<1>7. y3 \in Reading /\ y3.sOnly = y2.sOnly /\ y3.drop = y2.drop /\ y3.bsid = b
  BY <1>2, <1>6 DEF Reading
<1> HIDE DEF y3
<1>8. y4 \in Reading /\ y4.sOnly = y3.sOnly /\ y4.drop = y3.drop /\ y4.bsid = y3.bsid /\ y4.have = h
  BY <1>2, <1>7 DEF Reading
<1> QED  BY <1>3, <1>5, <1>6, <1>7, <1>8 DEF b, h, s, d

(* What a sub-TLV that does not bind changes.                              *)
LEMMA OtherFields ==
  ASSUME NEW acc \in Reading, NEW sub \in SubTLV, sub.tag \notin BindingKinds
  PROVE  LET r == ReadSubTLV(acc, sub)
         IN  /\ r \in Reading
             /\ r.sOnly = acc.sOnly /\ r.drop = acc.drop /\ r.bsid = acc.bsid
             /\ \A t \in BindingKinds : t \in r.have <=> t \in acc.have
<1> DEFINE r == ReadSubTLV(acc, sub)
<1>1. CASE sub.tag = "Other"
  <2>1. r = acc
    BY <1>1 DEF ReadSubTLV
  <2> QED  BY <2>1
<1>2. CASE sub.tag = "SegmentList"
  <2>1. /\ sub.weighted \in BOOLEAN /\ sub.weight \in Nat /\ sub.segments \in Seq(Segment)
    BY <1>2 DEF SubTLV
  <2> DEFINE w == IF sub.weighted THEN sub.weight ELSE 1
  <2>2. w \in Nat
    BY <2>1
  <2>3. DecodeSegmentList(sub) = FoldLeft(AddSegment, [EmptyList EXCEPT !.weight = w], sub.segments)
    BY DEF DecodeSegmentList
  <2> HIDE DEF w
  <2>4. [EmptyList EXCEPT !.weight = w] \in SegmentList
    BY <2>2, EmptyListType
  <2>5. DecodeSegmentList(sub) \in SegmentList
    BY <2>1, <2>3, <2>4, SegmentListType
  <2> DEFINE L == acc.sls \cup {DecodeSegmentList(sub)}
  <2>6. r = [acc EXCEPT !.sls = L]
    BY <1>2 DEF ReadSubTLV, Reading
  <2>7. L \in SUBSET SegmentList
    BY <2>5 DEF Reading
  <2> HIDE DEF L
  <2>8. /\ r \in Reading /\ r.have = acc.have
        /\ r.sOnly = acc.sOnly /\ r.drop = acc.drop /\ r.bsid = acc.bsid
    BY <2>6, <2>7 DEF Reading
  <2> HIDE DEF r
  <2> QED  BY <2>8 DEF r
<1>3. CASE sub.tag \in {"Preference", "Priority"}
  <2>1. sub.value \in Nat
    BY <1>3 DEF SubTLV
  <2>2. CASE sub.tag \in acc.have
    <3>1. r = acc
      BY <1>3, <2>2 DEF ReadSubTLV
    <3> QED  BY <3>1
  <2>3. CASE sub.tag \notin acc.have
    <3> DEFINE h == acc.have \cup {sub.tag}
               v == sub.value
               y == IF sub.tag = "Preference" THEN [acc EXCEPT !.pref = v]
                    ELSE [acc EXCEPT !.prio = v]
    <3>1. r = [y EXCEPT !.have = h]
      BY <1>3, <2>3 DEF ReadSubTLV, Reading
    <3>2. h \in SUBSET OnceOnly /\ \A t \in BindingKinds : t \in h <=> t \in acc.have
      <4>1. acc.have \in SUBSET OnceOnly
        BY DEF Reading
      <4>2. sub.tag \in OnceOnly
        BY <1>3 DEF OnceOnly
      <4>3. sub.tag \notin BindingKinds
        OBVIOUS
      <4> QED  BY <4>1, <4>2, <4>3
    <3> HIDE DEF h
    <3>3. v \in Nat
      BY <2>1
    <3> HIDE DEF v
    <3>4. y \in Reading /\ y.sOnly = acc.sOnly /\ y.drop = acc.drop /\ y.bsid = acc.bsid
      BY <3>3 DEF Reading
    <3> HIDE DEF y
    <3>5. /\ r \in Reading /\ r.have = h
          /\ r.sOnly = y.sOnly /\ r.drop = y.drop /\ r.bsid = y.bsid
      BY <3>1, <3>2, <3>4 DEF Reading
    <3> HIDE DEF r
    <3> QED  BY <3>2, <3>4, <3>5 DEF r
  <2> QED  BY <2>2, <2>3
<1> QED  BY <1>1, <1>2, <1>3 DEF SubTLV, BindingKinds

(* What a sub-TLV that may bind changes.                                   *)
LEMMA BindingRead ==
  ASSUME NEW acc \in Reading, NEW sub \in SubTLV, sub.tag \in BindingKinds
  PROVE  ReadSubTLV(acc, sub) =
           IF \/ "SRv6BSID" \in acc.have
              \/ sub.tag = "BindingSID" /\ sub.tag \in acc.have
              \/ sub.tag = "SRv6BSID" /\ sub.sid = NoAddr
           THEN acc ELSE Bind(acc, sub, sub.tag)
<1>1. CASE sub.tag = "BindingSID"
  BY <1>1 DEF ReadSubTLV
<1>2. CASE sub.tag = "SRv6BSID"
  BY <1>2 DEF ReadSubTLV
<1> QED  BY <1>1, <1>2 DEF BindingKinds

LEMMA ReadingType ==
  ASSUME NEW acc \in Reading, NEW sub \in SubTLV
  PROVE  ReadSubTLV(acc, sub) \in Reading
<1>1. CASE sub.tag \in BindingKinds
  BY <1>1, BoundFields, BindingRead
<1>2. CASE sub.tag \notin BindingKinds
  BY <1>2, OtherFields
<1> QED  BY <1>1, <1>2

(* The reading before the first sub-TLV and after each.                    *)
Reads(g, base, subs) ==
  /\ g[0] = base
  /\ \A i \in 1..Len(subs) : g[i] = ReadSubTLV(g[i - 1], subs[i])

LEMMA ReadingTurns ==
  ASSUME NEW subs \in Seq(SubTLV), NEW base \in Reading
  PROVE  \E g \in [0..Len(subs) -> Reading] :
            Reads(g, base, subs) /\ FoldLeft(ReadSubTLV, base, subs) = g[Len(subs)]
<1> DEFINE n == Len(subs)
           V == Reading
           G == [x \in V \X (1..n) |-> ReadSubTLV(x[1], subs[x[2]])]
           F(it) == [S \in SUBSET (1..n) |->
                       IF S = {} THEN base ELSE ReadSubTLV(it[S \ {Max(S)}], subs[Max(S)])]
           chosen == CHOOSE it : it = F(it)
<1>1. n \in Nat /\ DOMAIN subs = 1..n /\ \A i \in 1..n : subs[i] \in SubTLV
  BY ElementOfSeq
<1>2. base \in V
  OBVIOUS
<1>3. \A v \in V, a \in SubTLV : ReadSubTLV(v, a) \in V
  BY ReadingType
<1> HIDE DEF V
<1>4. G \in [V \X (1..n) -> V]
  BY <1>1, <1>3
<1>5. FoldLeft(ReadSubTLV, base, subs) = chosen[1..n]
  BY <1>1 DEF FoldLeft, MapThenFoldSet
<1> HIDE DEF n
<1>6. \A S \in SUBSET (1..n) : S # {} => Max(S) \in 1..n
  BY <1>1, MaxOfInterval
<1>7. \E it : it = F(it)
  <2>1. PICK f \in [SUBSET (1..n) -> V] : Folds(f, n, base, G)
    <3> HIDE DEF G
    <3> QED  BY <1>1, <1>2, <1>4, FoldExists
  <2>2. \A S \in SUBSET (1..n) : S # {} =>
          G[<<f[S \ {Max(S)}], Max(S)>>] = ReadSubTLV(f[S \ {Max(S)}], subs[Max(S)])
    BY <1>6
  <2>3. f = F(f)
    BY <2>1, <2>2 DEF Folds
  <2> QED  BY <2>3
<1>8. chosen = F(chosen)
  <2> HIDE DEF F
  <2> QED  BY <1>7
<1> HIDE DEF chosen
<1>9. Follows(chosen, n, V, base, G)
  BY <1>6, <1>8 DEF Follows
<1>10. \A v \in V, i \in 1..n : G[<<v, i>>] = ReadSubTLV(v, subs[i])
  OBVIOUS
<1> HIDE DEF G
<1>11. Unfolds(chosen, n, V, base, G)
  BY <1>1, <1>2, <1>4, <1>9, FoldSteps
<1>12. PICK g \in [0..n -> V] : Steps(g, n, base, G) /\ chosen[1..n] = g[n]
  BY <1>11 DEF Unfolds
<1>13. \A i \in 1..n : g[i] = ReadSubTLV(g[i - 1], subs[i])
  <2>1. \A i \in 1..n : g[i - 1] \in V
    BY <1>1
  <2> QED  BY <1>10, <1>12, <2>1 DEF Steps
<1>14. Reads(g, base, subs) /\ FoldLeft(ReadSubTLV, base, subs) = g[n]
  BY <1>5, <1>12, <1>13 DEF Steps, Reads, n
<1> QED  BY <1>14 DEF n, V

LEMMA ReadingsType ==
  ASSUME NEW subs \in Seq(SubTLV)
  PROVE  FoldLeft(ReadSubTLV, NothingRead, subs) \in Reading
<1>1. Len(subs) \in 0..Len(subs)
  OBVIOUS
<1> QED  BY <1>1, ReadingTurns, NothingReadType

-----------------------------------------------------------------------------
(* The binding SID.                                                        *)

(* Where a SID of each kind that counts stands among the first i.          *)
Type20(subs, i) == {k \in 1..i : subs[k].tag = "SRv6BSID" /\ subs[k].sid # NoAddr}
Type13(subs, i) == {k \in 1..i : subs[k].tag = "BindingSID"}

Unbound(acc) == acc.bsid = NoAddr /\ acc.sOnly = FALSE /\ acc.drop = FALSE
BoundBy(acc, sub) ==
  acc.bsid = sub.sid /\ acc.sOnly = sub.sFlag /\ acc.drop = sub.iFlag

(* The first of the places K has bound.                                    *)
FirstBinds(acc, subs, K) ==
  \E k \in K : (\A j \in K : k =< j) /\ BoundBy(acc, subs[k])

(* What is bound when i sub-TLVs have been read.  That a kind is counted   *)
(* as read says nothing of type 13 once a type 20 has been.                *)
BindingSoFar(acc, subs, i) ==
  /\ "SRv6BSID" \in acc.have <=> Type20(subs, i) # {}
  /\ Type20(subs, i) = {} => ("BindingSID" \in acc.have <=> Type13(subs, i) # {})
  /\ Type20(subs, i) # {} => FirstBinds(acc, subs, Type20(subs, i))
  /\ Type20(subs, i) = {} /\ Type13(subs, i) # {} => FirstBinds(acc, subs, Type13(subs, i))
  /\ Type20(subs, i) = {} /\ Type13(subs, i) = {} => Unbound(acc)

LEMMA Grown ==
  ASSUME NEW subs, NEW i \in Nat \ {0}
  PROVE  /\ Type20(subs, i) = IF subs[i].tag = "SRv6BSID" /\ subs[i].sid # NoAddr
                              THEN Type20(subs, i - 1) \cup {i} ELSE Type20(subs, i - 1)
         /\ Type13(subs, i) = IF subs[i].tag = "BindingSID"
                              THEN Type13(subs, i - 1) \cup {i} ELSE Type13(subs, i - 1)
         /\ \A k \in Type20(subs, i - 1) \cup Type13(subs, i - 1) : k \in Nat /\ k < i
<1>1. \A j : j \in 1..i <=> j \in 1..(i - 1) \/ j = i
  OBVIOUS
<1>2. \A j \in 1..(i - 1) : j \in Nat /\ j < i
  OBVIOUS
<1> DEFINE P(k) == subs[k].tag = "SRv6BSID" /\ subs[k].sid # NoAddr
           Q(k) == subs[k].tag = "BindingSID"
<1>3. {k \in 1..i : P(k)} = IF P(i) THEN {k \in 1..(i - 1) : P(k)} \cup {i}
                            ELSE {k \in 1..(i - 1) : P(k)}
  <2> HIDE DEF P
  <2> QED  BY <1>1
<1>4. {k \in 1..i : Q(k)} = IF Q(i) THEN {k \in 1..(i - 1) : Q(k)} \cup {i}
                            ELSE {k \in 1..(i - 1) : Q(k)}
  <2> HIDE DEF Q
  <2> QED  BY <1>1
<1>5. \A k \in Type20(subs, i - 1) \cup Type13(subs, i - 1) : k \in Nat /\ k < i
  BY <1>2 DEF Type20, Type13
<1> QED  BY <1>3, <1>4, <1>5 DEF Type20, Type13

(* A place further on does not come first, unless it is the only one.      *)
LEMMA FirstStays ==
  ASSUME NEW acc, NEW subs, NEW K, NEW i \in Nat, \A k \in K : k \in Nat /\ k < i,
         FirstBinds(acc, subs, K)
  PROVE  FirstBinds(acc, subs, K \cup {i})
<1>1. PICK k \in K : (\A j \in K : k =< j) /\ BoundBy(acc, subs[k])
  BY DEF FirstBinds
<1>2. \A j \in K \cup {i} : k =< j
  BY <1>1
<1> QED  BY <1>1, <1>2 DEF FirstBinds

LEMMA OnlyOneBinds ==
  ASSUME NEW acc, NEW subs, NEW i \in Nat, BoundBy(acc, subs[i])
  PROVE  FirstBinds(acc, subs, {i})
BY DEF FirstBinds

(* One more sub-TLV.                                                       *)
LEMMA BindingGrows ==
  ASSUME NEW subs \in Seq(SubTLV), NEW i \in 1..Len(subs), NEW acc \in Reading,
         BindingSoFar(acc, subs, i - 1)
  PROVE  BindingSoFar(ReadSubTLV(acc, subs[i]), subs, i)
<1> DEFINE sub == subs[i]
           r == ReadSubTLV(acc, sub)
           A == Type20(subs, i - 1)
           B == Type13(subs, i - 1)
<1>1. sub \in SubTLV /\ i \in Nat \ {0} /\ i \in Nat
  BY ElementOfSeq
<1>2. /\ Type20(subs, i) = IF sub.tag = "SRv6BSID" /\ sub.sid # NoAddr THEN A \cup {i} ELSE A
      /\ Type13(subs, i) = IF sub.tag = "BindingSID" THEN B \cup {i} ELSE B
      /\ \A k \in A \cup B : k \in Nat /\ k < i
  BY <1>1, Grown
<1>3. /\ "SRv6BSID" \in acc.have <=> A # {}
      /\ A = {} => ("BindingSID" \in acc.have <=> B # {})
      /\ A # {} => FirstBinds(acc, subs, A)
      /\ A = {} /\ B # {} => FirstBinds(acc, subs, B)
      /\ A = {} /\ B = {} => Unbound(acc)
  BY DEF BindingSoFar
<1>4. CASE sub.tag \notin BindingKinds
  <2>1. /\ r.sOnly = acc.sOnly /\ r.drop = acc.drop /\ r.bsid = acc.bsid
        /\ \A t \in BindingKinds : t \in r.have <=> t \in acc.have
    BY <1>1, <1>4, OtherFields
  <2>2. Type20(subs, i) = A /\ Type13(subs, i) = B
    BY <1>2, <1>4 DEF BindingKinds
  <2> HIDE DEF r, A, B
  <2>3. /\ "SRv6BSID" \in r.have <=> "SRv6BSID" \in acc.have
        /\ "BindingSID" \in r.have <=> "BindingSID" \in acc.have
    BY <2>1 DEF BindingKinds
  <2>4. \A K : FirstBinds(acc, subs, K) => FirstBinds(r, subs, K)
    BY <2>1 DEF FirstBinds, BoundBy
  <2>5. Unbound(acc) => Unbound(r)
    BY <2>1 DEF Unbound
  <2>6. BindingSoFar(r, subs, i)
    BY <1>3, <2>2, <2>3, <2>4, <2>5 DEF BindingSoFar
  <2> QED  BY <2>6 DEF r
<1>5. CASE sub.tag \in BindingKinds
  <2> DEFINE skipped == \/ "SRv6BSID" \in acc.have
                        \/ sub.tag = "BindingSID" /\ sub.tag \in acc.have
                        \/ sub.tag = "SRv6BSID" /\ sub.sid = NoAddr
             b == Bind(acc, sub, sub.tag)
  <2>1. r = IF skipped THEN acc ELSE b
    BY <1>1, <1>5, BindingRead
  <2>2. CASE skipped
    <3>1. r = acc
      BY <2>1, <2>2
    <3>2. (Type20(subs, i) = {}) <=> (A = {})
      BY <1>2, <1>3, <2>2
    <3>3. A = {} => ((Type13(subs, i) = {}) <=> (B = {}))
      BY <1>2, <1>3, <2>2
    <3>4. A # {} => FirstBinds(acc, subs, Type20(subs, i))
      BY <1>1, <1>2, <1>3, FirstStays
    <3>5. A = {} /\ B # {} => FirstBinds(acc, subs, Type13(subs, i))
      BY <1>1, <1>2, <1>3, FirstStays
    <3> HIDE DEF r, A, B
    <3>6. BindingSoFar(acc, subs, i)
      BY <1>3, <3>2, <3>3, <3>4, <3>5 DEF BindingSoFar
    <3> QED  BY <3>1, <3>6 DEF r
  <2>3. CASE ~skipped
    <3>1. r = b
      BY <2>1, <2>3
    <3>2. /\ b.sOnly = sub.sFlag /\ b.drop = sub.iFlag
          /\ b.bsid = IF sub.sid = NoAddr THEN acc.bsid ELSE sub.sid
          /\ b.have = acc.have \cup {sub.tag}
      BY <1>1, <1>5, BoundFields
    <3>3. A = {}
      BY <1>3, <2>3
    <3>4. CASE sub.tag = "SRv6BSID"
      <4>1. sub.sid # NoAddr /\ b.bsid = sub.sid
        BY <2>3, <3>2, <3>4
      <4> HIDE DEF b
      <4>2. BoundBy(b, sub)
        BY <3>2, <4>1 DEF BoundBy
      <4>3. Type20(subs, i) = {i}
        BY <1>2, <3>3, <3>4, <4>1
      <4>4. FirstBinds(b, subs, Type20(subs, i))
        BY <1>1, <4>2, <4>3, OnlyOneBinds
      <4>5. "SRv6BSID" \in b.have
        BY <3>2, <3>4
      <4> HIDE DEF r, A, B
      <4>6. BindingSoFar(b, subs, i)
        BY <4>3, <4>4, <4>5 DEF BindingSoFar
      <4> QED  BY <3>1, <4>6 DEF r
    <3>5. CASE sub.tag = "BindingSID"
      <4>1. B = {} /\ Unbound(acc)
        BY <1>3, <2>3, <3>3, <3>5
      <4>2. b.bsid = sub.sid
        BY <3>2, <4>1 DEF Unbound
      <4> HIDE DEF b
      <4>3. BoundBy(b, sub)
        BY <3>2, <4>2 DEF BoundBy
      <4>4. Type20(subs, i) = {} /\ Type13(subs, i) = {i}
        BY <1>2, <3>3, <3>5, <4>1
      <4>5. FirstBinds(b, subs, Type13(subs, i))
        BY <1>1, <4>3, <4>4, OnlyOneBinds
      <4>6. "BindingSID" \in b.have /\ "SRv6BSID" \notin b.have
        BY <2>3, <3>2, <3>5
      <4> HIDE DEF r, A, B
      <4>7. BindingSoFar(b, subs, i)
        BY <4>4, <4>5, <4>6 DEF BindingSoFar
      <4> QED  BY <3>1, <4>7 DEF r
    <3> QED  BY <1>5, <3>4, <3>5 DEF BindingKinds
  <2> QED  BY <2>2, <2>3
<1> QED  BY <1>4, <1>5

LEMMA BindingsRead ==
  ASSUME NEW subs \in Seq(SubTLV)
  PROVE  BindingSoFar(FoldLeft(ReadSubTLV, NothingRead, subs), subs, Len(subs))
<1> DEFINE n == Len(subs)
<1>1. n \in Nat
  OBVIOUS
<1>2. PICK g \in [0..n -> Reading] :
        Reads(g, NothingRead, subs) /\ FoldLeft(ReadSubTLV, NothingRead, subs) = g[n]
  BY NothingReadType, ReadingTurns
<1> DEFINE T == {i \in 0..n : BindingSoFar(g[i], subs, i)}
<1>3. 0 \in T
  <2>1. Type20(subs, 0) = {} /\ Type13(subs, 0) = {}
    BY DEF Type20, Type13
  <2>2. Unbound(NothingRead) /\ NothingRead.have = {}
    BY NothingReadType DEF Unbound
  <2>3. BindingSoFar(NothingRead, subs, 0)
    BY <2>1, <2>2 DEF BindingSoFar
  <2>4. g[0] = NothingRead /\ 0 \in 0..n
    BY <1>1, <1>2 DEF Reads
  <2> QED  BY <2>3, <2>4
<1>4. ASSUME NEW i \in 1..n, i - 1 \in T
      PROVE  i \in T
  <2>1. i \in 0..n /\ i - 1 \in 0..n /\ i \in 1..Len(subs)
    BY <1>1
  <2>2. g[i] = ReadSubTLV(g[i - 1], subs[i]) /\ g[i - 1] \in Reading
    BY <1>2, <2>1 DEF Reads
  <2>3. BindingSoFar(g[i - 1], subs, i - 1)
    BY <1>4
  <2>4. BindingSoFar(g[i], subs, i)
    BY <2>1, <2>2, <2>3, BindingGrows
  <2> QED  BY <2>1, <2>4
<1> HIDE DEF T, n
<1>5. 0..n \subseteq T
  BY <1>1, <1>3, <1>4, InductionUpTo
<1>6. n \in 0..n
  BY <1>1
<1>7. BindingSoFar(g[n], subs, n)
  BY <1>5, <1>6 DEF T
<1> QED  BY <1>2, <1>7 DEF n

(* What is bound is what the rule says.                                    *)
LEMMA BindingSIDsDecode == triedSubs \in Seq(SubTLV) => BindingSIDRule
<1> SUFFICES ASSUME triedSubs \in Seq(SubTLV)
             PROVE  BindingSIDRule
  OBVIOUS
<1> DEFINE subs == triedSubs
           n == Len(subs)
           tlvs == <<[type |-> 15, subs |-> subs]>>
           r == DecodeTunnelEncap(tlvs)
           A == Type20(subs, n)
           B == Type13(subs, n)
           i == SelectInSeq(subs, LAMBDA s : s.tag = "SRv6BSID" /\ s.sid # NoAddr)
           j == SelectInSeq(subs, LAMBDA s : s.tag = "BindingSID")
<1>1. n \in Nat
  OBVIOUS
<1>2. r = FoldLeft(ReadSubTLV, NothingRead, subs)
  <2> DEFINE policies == {k \in DOMAIN tlvs : tlvs[k].type = 15}
  <2>1. policies = {1} /\ tlvs[1].subs = subs
    OBVIOUS
  <2>2. Min({1}) = 1
    BY DEF Min
  <2>3. r = IF policies = {} THEN NothingRead
            ELSE FoldLeft(ReadSubTLV, NothingRead, tlvs[Min(policies)].subs)
    BY DEF DecodeTunnelEncap
  <2> HIDE DEF policies, tlvs, r
  <2> QED  BY <2>1, <2>2, <2>3
<1>3. BindingSoFar(r, subs, n)
  BY <1>2, BindingsRead
<1>4. i = IF A # {} THEN Min(A) ELSE 0
  BY DEF SelectInSeq, Type20
<1>5. j = IF B # {} THEN Min(B) ELSE 0
  BY DEF SelectInSeq, Type13
<1>6. A \in SUBSET (Nat \ {0}) /\ B \in SUBSET (Nat \ {0})
  BY <1>1 DEF Type20, Type13
<1> HIDE DEF r, n
<1>7. BindingSIDRule <=>
        LET m == IF i # 0 THEN i ELSE j
        IN  <<r.bsid, r.sOnly, r.drop>> =
              IF m = 0 THEN <<NoAddr, FALSE, FALSE>>
              ELSE <<subs[m].sid, subs[m].sFlag, subs[m].iFlag>>
  BY DEF BindingSIDRule, r
<1> HIDE DEF i, j, A, B
<1>8. ASSUME NEW K \in SUBSET (Nat \ {0}), K # {}, FirstBinds(r, subs, K)
      PROVE  Min(K) # 0 /\ BoundBy(r, subs[Min(K)])
  <2>1. PICK k \in K : (\A x \in K : k =< x) /\ BoundBy(r, subs[k])
    BY <1>8 DEF FirstBinds
  <2>2. Min(K) \in K /\ \A x \in K : Min(K) =< x
    BY <1>8, MinOfNaturals
  <2>3. Min(K) = k
    <3>1. k \in Nat /\ Min(K) \in Nat /\ k =< Min(K) /\ Min(K) =< k
      BY <2>1, <2>2
    <3> QED  BY <3>1
  <2> QED  BY <2>1, <2>3
<1>9. CASE A # {}
  <2>1. i # 0 /\ BoundBy(r, subs[i])
    <3>1. FirstBinds(r, subs, A)
      BY <1>3, <1>9 DEF BindingSoFar, A
    <3> QED  BY <1>4, <1>6, <1>8, <1>9, <3>1
  <2> QED  BY <1>7, <2>1 DEF BoundBy
<1>10. CASE A = {} /\ B # {}
  <2>1. j # 0 /\ BoundBy(r, subs[j])
    <3>1. FirstBinds(r, subs, B)
      BY <1>3, <1>10 DEF BindingSoFar, A, B
    <3> QED  BY <1>5, <1>6, <1>8, <1>10, <3>1
  <2>2. i = 0
    BY <1>4, <1>10
  <2> QED  BY <1>7, <2>1, <2>2 DEF BoundBy
<1>11. CASE A = {} /\ B = {}
  <2>1. Unbound(r)
    BY <1>3, <1>11 DEF BindingSoFar, A, B
  <2>2. i = 0 /\ j = 0
    BY <1>4, <1>5, <1>11
  <2> QED  BY <1>7, <2>1, <2>2 DEF Unbound
<1> QED  BY <1>9, <1>10, <1>11

-----------------------------------------------------------------------------
(* A path of the stream becomes a candidate path.                          *)

LEMMA LastOfSome ==
  ASSUME NEW attrs \in Seq(Attribute), NEW I \in SUBSET (DOMAIN attrs), NEW default
  PROVE  IF I = {} THEN LastAmong(attrs, I, default) = default
         ELSE \E i \in I : attrs[i] \in Attribute /\ LastAmong(attrs, I, default) = attrs[i].value
<1> DEFINE n == Len(attrs)
           m == CHOOSE i \in I : \A j \in I : j =< i
<1>1. n \in Nat /\ I \in SUBSET (1..n) /\ \A i \in 1..n : attrs[i] \in Attribute
  BY ElementOfSeq
<1>2. CASE I = {}
  BY <1>2 DEF LastAmong
<1>3. CASE I # {}
  <2> HIDE DEF n
  <2>1. Max(I) \in I /\ \A j \in I : j =< Max(I)
    BY <1>1, <1>3, MaxOfInterval
  <2>2. m \in I
    BY <2>1
  <2>3. LastAmong(attrs, I, default) = attrs[m].value
    BY <1>3 DEF LastAmong
  <2> HIDE DEF m
  <2> QED  BY <1>1, <1>3, <2>2, <2>3
<1> QED  BY <1>2, <1>3

LEMMA LastOfKind ==
  ASSUME NEW attrs \in Seq(Attribute), NEW tag, NEW default, NEW V, default \in V,
         \A a \in Attribute : a.tag = tag => a.value \in V
  PROVE  LastAttr(attrs, tag, default) \in V
<1> DEFINE I == {i \in DOMAIN attrs : attrs[i].tag = tag}
<1>1. I \in SUBSET (DOMAIN attrs) /\ \A i \in I : attrs[i].tag = tag
  OBVIOUS
<1>2. LastAttr(attrs, tag, default) = LastAmong(attrs, I, default)
  BY DEF LastAttr
<1> HIDE DEF I
<1>3. IF I = {} THEN LastAmong(attrs, I, default) = default
      ELSE \E i \in I : attrs[i] \in Attribute /\ LastAmong(attrs, I, default) = attrs[i].value
  BY <1>1, LastOfSome
<1> QED  BY <1>1, <1>2, <1>3

TLV == [type : Nat, subs : Seq(SubTLV)]
ExtComm == [sub : STRING, node : Nat]

LEMMA AttributeValues ==
  ASSUME NEW a \in Attribute
  PROVE  /\ a.tag = "tunnelEncap" => a.value \in Seq(TLV)
         /\ a.tag = "extComms" => a.value \in Seq(ExtComm)
         /\ a.tag = "originatorID" => a.value \in Nat
BY DEF Attribute, TLV, ExtComm

LEMMA CollectedTypes ==
  ASSUME NEW p, p.attrs \in Seq(Attribute)
  PROVE  /\ CollectAttrs(p).tunnelEncap \in Seq(TLV)
         /\ CollectAttrs(p).extComms \in Seq(ExtComm)
         /\ CollectAttrs(p).originatorID \in Nat
<1> DEFINE A == p.attrs
           I == {i \in DOMAIN A : A[i].tag = "originatorID" /\ A[i].value # NoNode}
<1>1. A \in Seq(Attribute)
  OBVIOUS
<1>2. /\ CollectAttrs(p).tunnelEncap = LastAttr(A, "tunnelEncap", <<>>)
      /\ CollectAttrs(p).extComms = LastAttr(A, "extComms", <<>>)
      /\ CollectAttrs(p).originatorID = LastAmong(A, I, NoNode)
  BY DEF CollectAttrs
<1>3. I \in SUBSET (DOMAIN A) /\ \A i \in I : A[i].tag = "originatorID"
  OBVIOUS
<1> HIDE DEF A, I
<1>4. LastAttr(A, "tunnelEncap", <<>>) \in Seq(TLV)
  <2>1. <<>> \in Seq(TLV) /\ \A a \in Attribute : a.tag = "tunnelEncap" => a.value \in Seq(TLV)
    BY AttributeValues
  <2> QED  BY <1>1, <2>1, LastOfKind
<1>5. LastAttr(A, "extComms", <<>>) \in Seq(ExtComm)
  <2>1. <<>> \in Seq(ExtComm) /\ \A a \in Attribute : a.tag = "extComms" => a.value \in Seq(ExtComm)
    BY AttributeValues
  <2> QED  BY <1>1, <2>1, LastOfKind
<1>6. LastAmong(A, I, NoNode) \in Nat
  <2>1. IF I = {} THEN LastAmong(A, I, NoNode) = NoNode
        ELSE \E i \in I : A[i] \in Attribute /\ LastAmong(A, I, NoNode) = A[i].value
    BY <1>1, <1>3, LastOfSome
  <2>2. NoNode \in Nat
    BY DEF NoNode
  <2> QED  BY <1>3, <2>1, <2>2, AttributeValues
<1> QED  BY <1>2, <1>4, <1>5, <1>6

LEMMA OriginatorType ==
  ASSUME NEW p, p.attrs \in Seq(Attribute), p.peer \in Nat
  PROVE  OriginatorNode(p, CollectAttrs(p)) \in Nat
<1> DEFINE E == CollectAttrs(p).extComms
           I == Naming(E, "RouteOrigin")
           m == CHOOSE i \in I : \A j \in I : i =< j
<1>1. E \in Seq(ExtComm) /\ CollectAttrs(p).originatorID \in Nat
  BY CollectedTypes
<1>2. OriginatorNode(p, CollectAttrs(p)) =
        IF I # {} THEN E[m].node
        ELSE IF CollectAttrs(p).originatorID # NoNode THEN CollectAttrs(p).originatorID
        ELSE p.peer
  BY DEF OriginatorNode
<1>3. I \in SUBSET (DOMAIN E)
  BY DEF Naming
<1> HIDE DEF E, I
<1>4. DOMAIN E \in SUBSET Nat /\ \A i \in DOMAIN E : E[i] \in ExtComm
  BY <1>1, ElementOfSeq
<1>5. ASSUME I # {}
      PROVE  E[m].node \in Nat
  <2>1. Min(I) \in I /\ \A x \in I : Min(I) =< x
    BY <1>3, <1>4, <1>5, MinOfNaturals
  <2>2. m \in I
    BY <2>1
  <2> HIDE DEF m
  <2>3. E[m] \in ExtComm
    BY <1>3, <1>4, <2>2
  <2> QED  BY <2>3 DEF ExtComm
<1> HIDE DEF m
<1> QED  BY <1>1, <1>2, <1>5

LEMMA TunnelEncapType ==
  ASSUME NEW tlvs \in Seq(TLV)
  PROVE  DecodeTunnelEncap(tlvs) \in Reading
<1> DEFINE policies == {i \in DOMAIN tlvs : tlvs[i].type = 15}
<1>1. /\ policies \in SUBSET (DOMAIN tlvs) /\ DOMAIN tlvs \in SUBSET Nat
      /\ \A i \in DOMAIN tlvs : tlvs[i] \in TLV
  BY ElementOfSeq
<1>2. DecodeTunnelEncap(tlvs) =
        IF policies = {} THEN NothingRead
        ELSE FoldLeft(ReadSubTLV, NothingRead, tlvs[Min(policies)].subs)
  BY DEF DecodeTunnelEncap
<1> HIDE DEF policies
<1>3. CASE policies = {}
  BY <1>2, <1>3, NothingReadType
<1>4. CASE policies # {}
  <2>1. Min(policies) \in policies
    BY <1>1, <1>4, MinOfNaturals
  <2>2. tlvs[Min(policies)] \in TLV
    BY <1>1, <2>1
  <2>3. tlvs[Min(policies)].subs \in Seq(SubTLV)
    BY <2>2 DEF TLV
  <2> QED  BY <1>2, <1>4, <2>3, ReadingsType
<1> QED  BY <1>3, <1>4

LEMMA PathDecodes ==
  ASSUME NEW p, NEW id, p.attrs \in Seq(Attribute),
         p.distinguisher \in Nat, p.asn \in Nat, p.peer \in Nat
  PROVE  DecodePath(p, id).path \in CandidatePath
<1> DEFINE attrs == CollectAttrs(p)
           read == DecodeTunnelEncap(attrs.tunnelEncap)
           node == OriginatorNode(p, attrs)
           o == [asn |-> p.asn, node |-> node]
<1>1. read \in Reading
  BY CollectedTypes, TunnelEncapType
<1>2. node \in Nat
  BY OriginatorType
<1> DEFINE path ==
      [origin |-> OriginBGP, originator |-> o, disc |-> p.distinguisher,
       pref |-> read.pref, prio |-> read.prio, bsid |-> read.bsid,
       sls |-> read.sls, sOnly |-> read.sOnly, drop |-> read.drop]
<1>3. DecodePath(p, id).path = path
  BY DEF DecodePath
<1> HIDE DEF read, node
<1>4. o \in Originator
  BY <1>2 DEF Originator
<1> HIDE DEF o
<1>5. path \in CandidatePath
  <2>1. /\ read.pref \in Nat /\ read.prio \in Nat
        /\ read.bsid \in BSID \cup OtherAddr \cup {NoAddr}
        /\ read.sls \in SUBSET SegmentList
    BY <1>1 DEF Reading
  <2>2. read.sOnly \in BOOLEAN /\ read.drop \in BOOLEAN
    BY <1>1 DEF Reading
  <2> DEFINE s == read.sOnly
             d == read.drop
  <2>3. s \in BOOLEAN /\ d \in BOOLEAN
    BY <2>2
  <2>4. OriginBGP \in Nat
    BY DEF OriginBGP
  <2> HIDE DEF s, d
  <2>5. path = [origin |-> OriginBGP, originator |-> o, disc |-> p.distinguisher,
                pref |-> read.pref, prio |-> read.prio, bsid |-> read.bsid,
                sls |-> read.sls, sOnly |-> s, drop |-> d]
    BY DEF s, d
  <2> HIDE DEF path
  <2> QED  BY <1>4, <2>1, <2>3, <2>4, <2>5 DEF CandidatePath
<1> QED  BY <1>3, <1>5

(* decodePath makes a candidate path of every path of the stream.          *)
LEMMA WellDecoded == \A d \in Decoded : d.event.path \in CandidatePath
<1>1. ASSUME NEW p \in Messages
      PROVE  /\ p.attrs \in Seq(Attribute)
             /\ p.distinguisher \in Nat /\ p.asn \in Nat /\ p.peer \in Nat
  <2>1. CASE p \in Routes
    BY <2>1, RouteAssumption
  <2>2. ASSUME NEW q \in Routes, p = Withdrawal(q)
        PROVE  /\ p.attrs \in Seq(Attribute)
               /\ p.distinguisher \in Nat /\ p.asn \in Nat /\ p.peer \in Nat
    <3>1. /\ p.attrs = <<>> /\ p.distinguisher = q.distinguisher
          /\ p.asn = q.asn /\ p.peer = q.peer
      BY <2>2, RouteAssumption DEF Withdrawal
    <3>2. <<>> \in Seq(Attribute)
      OBVIOUS
    <3> QED  BY <3>1, <3>2, RouteAssumption
  <2> QED  BY <2>1, <2>2 DEF Messages
<1>2. ASSUME NEW d \in Decoded
      PROVE  d.event.path \in CandidatePath
  <2>1. d.msg \in Messages /\ d.event = DecodePath(d.msg, d.id)
    BY DEF Decoded
  <2> QED  BY <1>1, <2>1, PathDecodes
<1> QED  BY <1>2

-----------------------------------------------------------------------------
(* Sequences of any length are tried.                                      *)

TriedTyped == triedSubs \in Seq(SubTLV) /\ triedSegs \in Seq(Segment)

LEMMA TriedType == DecodingSpec => []TriedTyped
<1>1. NoTLVs => TriedTyped
  BY DEF NoTLVs, TriedTyped
<1>2. TriedTyped /\ [TryTLVs]_TriedTLVs => TriedTyped'
  <2> SUFFICES ASSUME TriedTyped, [TryTLVs]_TriedTLVs
               PROVE  TriedTyped'
    OBVIOUS
  <2>1. triedSubs \in Seq(SubTLV) /\ triedSegs \in Seq(Segment)
    BY DEF TriedTyped
  <2>2. /\ \A s \in SubTLVs : Append(triedSubs, s) \in Seq(SubTLV)
        /\ \A s \in Segments : Append(triedSegs, s) \in Seq(Segment)
    BY <2>1, TriedTLVAssumption
  <2>3. <<>> \in Seq(SubTLV) /\ <<>> \in Seq(Segment)
    OBVIOUS
  <2> QED  BY <2>1, <2>2, <2>3 DEF TriedTyped, TryTLVs, TriedTLVs
<1> QED  BY <1>1, <1>2, PTL DEF DecodingSpec

(* However many sub-TLVs a policy has, and in whatever order and however   *)
(* often the two kinds of binding SID come, the first SRv6 binding SID     *)
(* that can be read gives BSID and flags, or else the first of type 13.    *)
THEOREM TheRightSIDBinds == DecodingSpec => []BindingSIDRule
<1> QED  BY TriedType, BindingSIDsDecode, PTL DEF TriedTyped

(* However long a segment list is and whatever it holds, the SIDs keep     *)
(* their order, a segment of another type spoils the list, and the V-Flag  *)
(* follows its SID to the place that it has in the list.                   *)
THEOREM SegmentListsAreRead == DecodingSpec => []SegmentListRule
<1> QED  BY TriedType, SegmentListsDecode, PTL DEF TriedTyped


-----------------------------------------------------------------------------
(* Messages.                                                               *)

LEMMA WithdrawalFields ==
  ASSUME NEW p \in Routes
  PROVE  /\ Withdrawal(p).withdraw = TRUE
         /\ NLRI(Withdrawal(p)) = NLRI(p)
         /\ IsSRPolicy(Withdrawal(p))
         /\ Withdrawal(p) \in Messages
<1>1. /\ Withdrawal(p).withdraw = TRUE
      /\ Withdrawal(p).key = p.key
      /\ Withdrawal(p).distinguisher = p.distinguisher
      /\ Withdrawal(p).safi = p.safi
  BY RouteAssumption DEF Withdrawal
<1>2. IsSRPolicy(p)
  BY RouteAssumption
<1> QED  BY <1>1, <1>2 DEF NLRI, IsSRPolicy, Messages

LEMMA MessageFields ==
  ASSUME NEW p \in Messages
  PROVE  IsSRPolicy(p) /\ NLRI(p) \in NLRIs
BY WithdrawalFields, RouteAssumption DEF Messages, NLRIs

(* What the attributes of a kind hold is what its one attribute holds.     *)
Holds(attrs, tag, v, default) ==
  \/ (\A i \in DOMAIN attrs : attrs[i].tag # tag) /\ v = default
  \/ \E i \in DOMAIN attrs :
       /\ attrs[i].tag = tag
       /\ v = attrs[i].value
       /\ \A j \in DOMAIN attrs : attrs[j].tag = tag => j = i

LEMMA LastAttrIsIt ==
  ASSUME OneOfAKind, NEW p \in Routes, NEW tag, NEW default
  PROVE  Holds(p.attrs, tag, LastAttr(p.attrs, tag, default), default)
<1> DEFINE I == {i \in DOMAIN p.attrs : p.attrs[i].tag = tag}
           m == CHOOSE i \in I : \A j \in I : j =< i
<1>1. CASE I = {}
  BY <1>1 DEF LastAttr, LastAmong, Holds
<1>2. ASSUME NEW i \in I
      PROVE  m = i
  <2>1. \A j \in I : j = i
    BY DEF OneOfAKind
  <2>2. i =< i
    BY RouteAssumption
  <2> HIDE DEF I
  <2> QED  BY <2>1, <2>2
<1>3. CASE I # {}
  <2>1. PICK i \in I : TRUE
    BY <1>3
  <2>2. m = i
    BY <1>2
  <2>3. LastAttr(p.attrs, tag, default) = p.attrs[m].value
    BY <1>3 DEF LastAttr, LastAmong
  <2>4. \A j \in DOMAIN p.attrs : p.attrs[j].tag = tag => j = i
    BY DEF OneOfAKind
  <2> HIDE DEF m
  <2> QED  BY <2>2, <2>3, <2>4 DEF Holds
<1> QED  BY <1>1, <1>3

LEMMA TargetsAreTargets ==
  ASSUME OneOfAKind, NEW p \in Routes, NEW id
  PROVE  Usable(CollectAttrs(p), id) <=> Eligible(p, id)
<1> DEFINE c == LastAttr(p.attrs, "communities", {})
           e == LastAttr(p.attrs, "extComms", <<>>)
           Of(tag) == {a \in ToSet(p.attrs) : a.tag = tag}
           Targets == (UNION {{ec.node : ec \in {x \in ToSet(a.value) :
                                                   x.sub = "RouteTarget"}}
                              : a \in Of("extComms")}) \ {NoNode}
           Marks == UNION {a.value : a \in Of("communities")}
<1>1. CollectAttrs(p).communities = c /\ CollectAttrs(p).extComms = e
  BY DEF CollectAttrs
<1> HIDE DEF c, e
<1>c. Holds(p.attrs, "communities", c, {})
  BY LastAttrIsIt DEF c
<1>e. Holds(p.attrs, "extComms", e, <<>>)
  BY LastAttrIsIt DEF e
<1>2. Eligible(p, id) = IF Targets = {} THEN "NO_ADVERTISE" \in Marks
                    ELSE id \in Targets
  BY DEF Eligible
<1>3. Marks = c
  <2>1. CASE \A i \in DOMAIN p.attrs : p.attrs[i].tag # "communities"
    <3>1. c = {}
      BY <2>1, <1>c DEF Holds
    <3> QED  BY <2>1, <3>1 DEF ToSet
  <2>2. CASE \E i \in DOMAIN p.attrs : p.attrs[i].tag = "communities"
    <3>1. PICK i \in DOMAIN p.attrs :
            /\ p.attrs[i].tag = "communities"
            /\ c = p.attrs[i].value
            /\ \A j \in DOMAIN p.attrs : p.attrs[j].tag = "communities" => j = i
      BY <2>2, <1>c DEF Holds
    <3>2. Of("communities") = {p.attrs[i]}
      BY <3>1 DEF ToSet
    <3> HIDE DEF Of
    <3> QED  BY <3>1, <3>2
  <2> QED  BY <2>1, <2>2
<1>4. Targets = RouteTargets(CollectAttrs(p))
  <2> DEFINE R == {e[i].node : i \in Naming(e, "RouteTarget")}
             T == {ec.node : ec \in {x \in ToSet(e) : x.sub = "RouteTarget"}}
  <2>1. R = T \ {NoNode}
    BY DEF Naming, ToSet
  <2>2. CASE \A i \in DOMAIN p.attrs : p.attrs[i].tag # "extComms"
    <3>1. e = <<>>
      BY <2>2, <1>e DEF Holds
    <3>2. R = {}
      BY <3>1 DEF Naming
    <3>3. Targets = {}
      BY <2>2 DEF ToSet
    <3> HIDE DEF Targets
    <3> QED  BY <1>1, <3>2, <3>3 DEF RouteTargets
  <2>3. CASE \E i \in DOMAIN p.attrs : p.attrs[i].tag = "extComms"
    <3>1. PICK i \in DOMAIN p.attrs :
            /\ p.attrs[i].tag = "extComms"
            /\ e = p.attrs[i].value
            /\ \A j \in DOMAIN p.attrs : p.attrs[j].tag = "extComms" => j = i
      BY <2>3, <1>e DEF Holds
    <3>2. Of("extComms") = {p.attrs[i]}
      BY <3>1 DEF ToSet
    <3> HIDE DEF Of
    <3> DEFINE S(a) == {ec.node : ec \in {x \in ToSet(a.value) :
                                             x.sub = "RouteTarget"}}
               V == {S(a) : a \in Of("extComms")}
    <3>4. S(p.attrs[i]) = T
      BY <3>1
    <3>5. Targets = (UNION V) \ {NoNode}
      OBVIOUS
    <3> HIDE DEF S, Targets, T, V
    <3>6. V = {T}
      BY <3>2, <3>4 DEF V
    <3>3. Targets = T \ {NoNode}
      <4>1. UNION {T} = T
        OBVIOUS
      <4> QED  BY <3>5, <3>6, <4>1
    <3> QED  BY <1>1, <2>1, <3>3 DEF RouteTargets
  <2> QED  BY <2>2, <2>3
<1> HIDE DEF Of, Targets, Marks
<1> QED  BY <1>1, <1>2, <1>3, <1>4 DEF Usable

(* What the handler is called with for a message.                          *)
LEMMA DecodedEvent ==
  ASSUME NEW d \in Decoded
  PROVE  /\ d.event = DecodePath(d.msg, d.id)
         /\ <<d.event.key, d.event.path.disc>> = NLRI(d.msg)
         /\ d.event.withdraw =
              (d.msg.withdraw \/ ~Usable(CollectAttrs(d.msg), d.id))
<1>1. d.event = DecodePath(d.msg, d.id)
  BY DEF Decoded
<1> QED  BY <1>1 DEF DecodePath, NLRI

LEMMA HandledAsMeant ==
  ASSUME OneOfAKind, NEW d \in Decoded
  PROVE  /\ d.event.withdraw \in BOOLEAN
         /\ Meaning(d.msg, d.id) = IF d.event.withdraw THEN NoEntry ELSE d.event.path
<1> DEFINE p == d.msg
           id == d.id
           c == CHOOSE x \in Decoded : x.msg = p /\ x.id = id
<1>1. c \in Decoded /\ c.msg = p /\ c.id = id
  OBVIOUS
<1> HIDE DEF c
<1>2. c.event = d.event
  BY <1>1, DecodedEvent
<1>3. p \in Messages
  BY DEF Decoded
<1>4. p.withdraw \in BOOLEAN /\ (p = NoRoute => p.withdraw)
  BY <1>3, WithdrawalFields, RouteAssumption DEF Messages
<1>5. ~p.withdraw => p \in Routes
  BY <1>3, WithdrawalFields DEF Messages
<1>6. d.event.withdraw = (p.withdraw \/ ~Usable(CollectAttrs(p), id))
  BY DecodedEvent
<1>7. ~p.withdraw => (Usable(CollectAttrs(p), id) <=> Eligible(p, id))
  BY <1>5, TargetsAreTargets
<1>8. Meaning(p, id) = IF p = NoRoute \/ p.withdraw \/ ~Eligible(p, id) THEN NoEntry
                       ELSE c.event.path
  BY DEF Meaning, c
<1> QED  BY <1>2, <1>4, <1>6, <1>7, <1>8

(* A withdrawal means nothing, as an empty place of the RIB does.          *)
LEMMA NothingMeant ==
  ASSUME NEW id
  PROVE  /\ Meaning(NoRoute, id) = NoEntry
         /\ \A p \in Routes : Meaning(Withdrawal(p), id) = NoEntry
BY WithdrawalFields DEF Meaning

-----------------------------------------------------------------------------
(* What is on the way: r of the response that is being handled, then s.    *)

Resp(r, s, j) == IF j = 0 THEN r ELSE s[j]

(* The place i of response j speaks of n.                                  *)
Names(r, s, n, j, i) ==
  /\ j \in 0..Len(s)
  /\ i \in DOMAIN Resp(r, s, j)
  /\ IsSRPolicy(Resp(r, s, j)[i])
  /\ NLRI(Resp(r, s, j)[i]) = n

Quiet(r, s, n) == \A j, i \in Nat : ~Names(r, s, n, j, i)

(* The last word on n is m.                                                *)
LastWord(r, s, n, m, id) ==
  \A j, i \in Nat :
    /\ Names(r, s, n, j, i)
    /\ \A k, l \in Nat : Names(r, s, n, k, l) => k < j \/ (k = j /\ l =< i)
    => Meaning(Resp(r, s, j)[i], id) = m

Speaks(p, n) == IsSRPolicy(p) /\ NLRI(p) = n

LEMMA OnReceiving ==
  ASSUME NEW X, NEW s \in Seq(Seq(X)), s # <<>>,
         NEW n, NEW m, NEW id
  PROVE  /\ Quiet(Head(s), Tail(s), n) => Quiet(<<>>, s, n)
         /\ LastWord(<<>>, s, n, m, id) => LastWord(Head(s), Tail(s), n, m, id)
<1>1. /\ Len(s) \in Nat \ {0}
      /\ Len(Tail(s)) = Len(s) - 1
      /\ Head(s) = s[1]
      /\ \A j \in 1..Len(Tail(s)) : Tail(s)[j] = s[j + 1]
      /\ DOMAIN s = 1..Len(s)
  OBVIOUS
<1>2. \A j \in 0..Len(Tail(s)) : Resp(Head(s), Tail(s), j) = Resp(<<>>, s, j + 1)
  BY <1>1 DEF Resp
<1>3. \A j, i \in Nat :
        Names(Head(s), Tail(s), n, j, i) <=> Names(<<>>, s, n, j + 1, i)
  BY <1>1, <1>2 DEF Names
<1>4. \A i \in Nat : ~Names(<<>>, s, n, 0, i)
  BY DEF Names, Resp
<1>5. \A j, i \in Nat : Names(<<>>, s, n, j, i) => j - 1 \in Nat
  BY <1>4
<1>6. ASSUME Quiet(Head(s), Tail(s), n)
      PROVE  Quiet(<<>>, s, n)
  <2> SUFFICES ASSUME NEW j \in Nat, NEW i \in Nat, Names(<<>>, s, n, j, i)
               PROVE  FALSE
    BY DEF Quiet
  <2>1. j - 1 \in Nat /\ (j - 1) + 1 = j
    BY <1>5
  <2> QED  BY <1>3, <1>6, <2>1 DEF Quiet
<1>7. ASSUME LastWord(<<>>, s, n, m, id)
      PROVE  LastWord(Head(s), Tail(s), n, m, id)
  <2> SUFFICES ASSUME NEW j \in Nat, NEW i \in Nat,
                      Names(Head(s), Tail(s), n, j, i),
                      \A k, l \in Nat : Names(Head(s), Tail(s), n, k, l)
                                        => k < j \/ (k = j /\ l =< i)
               PROVE  Meaning(Resp(Head(s), Tail(s), j)[i], id) = m
    BY DEF LastWord
  <2>1. Names(<<>>, s, n, j + 1, i)
    BY <1>3
  <2>2. ASSUME NEW k \in Nat, NEW l \in Nat, Names(<<>>, s, n, k, l)
        PROVE  k < j + 1 \/ (k = j + 1 /\ l =< i)
    <3>1. k - 1 \in Nat /\ (k - 1) + 1 = k
      BY <1>5, <2>2
    <3>2. Names(Head(s), Tail(s), n, k - 1, l)
      BY <1>3, <2>2, <3>1
    <3> QED  BY <3>1, <3>2
  <2>3. Meaning(Resp(<<>>, s, j + 1)[i], id) = m
    BY <1>7, <2>1, <2>2 DEF LastWord
  <2>4. j \in 0..Len(Tail(s))
    BY DEF Names
  <2> QED  BY <1>2, <2>3, <2>4
<1> QED  BY <1>6, <1>7

LEMMA OnHandling ==
  ASSUME NEW X, NEW s \in Seq(Seq(X)), NEW r \in Seq(X), r # <<>>,
         NEW n, NEW m, NEW id
  PROVE  /\ Quiet(Tail(r), s, n) /\ ~Speaks(Head(r), n) => Quiet(r, s, n)
         /\ LastWord(r, s, n, m, id) => LastWord(Tail(r), s, n, m, id)
         /\ Quiet(Tail(r), s, n) /\ Speaks(Head(r), n) /\ LastWord(r, s, n, m, id)
              => Meaning(Head(r), id) = m
<1>1. /\ Len(r) \in Nat \ {0}
      /\ Len(Tail(r)) = Len(r) - 1
      /\ Head(r) = r[1]
      /\ \A i \in 1..Len(Tail(r)) : Tail(r)[i] = r[i + 1]
      /\ DOMAIN r = 1..Len(r)
      /\ DOMAIN Tail(r) = 1..Len(Tail(r))
      /\ Len(s) \in Nat
  OBVIOUS
<1>2. \A i \in Nat : Names(Tail(r), s, n, 0, i) <=> i # 0 /\ Names(r, s, n, 0, i + 1)
  BY <1>1 DEF Names, Resp
<1>3. \A j \in Nat \ {0}, i \in Nat :
        Names(Tail(r), s, n, j, i) <=> Names(r, s, n, j, i)
  BY DEF Names, Resp
<1>4. Names(r, s, n, 0, 1) <=> Speaks(Head(r), n)
  BY <1>1 DEF Names, Resp, Speaks
<1>5. \A i \in Nat : Names(r, s, n, 0, i) => i # 0
  BY <1>1 DEF Names, Resp
<1>6. ASSUME Quiet(Tail(r), s, n),
             NEW j \in Nat, NEW i \in Nat, Names(r, s, n, j, i)
      PROVE  j = 0 /\ i = 1
  <2>1. j = 0
    BY <1>3, <1>6 DEF Quiet
  <2>2. i # 0
    BY <1>5, <1>6, <2>1
  <2>3. i - 1 \in Nat /\ (i - 1) + 1 = i
    BY <2>2
  <2>4. ~Names(Tail(r), s, n, 0, i - 1)
    BY <1>6, <2>3 DEF Quiet
  <2>5. i - 1 = 0
    BY <1>2, <1>6, <2>1, <2>3, <2>4
  <2> QED  BY <2>1, <2>5
<1>7. ASSUME Quiet(Tail(r), s, n), ~Speaks(Head(r), n)
      PROVE  Quiet(r, s, n)
  BY <1>4, <1>6, <1>7 DEF Quiet
<1>8. ASSUME Quiet(Tail(r), s, n), Speaks(Head(r), n), LastWord(r, s, n, m, id)
      PROVE  Meaning(Head(r), id) = m
  <2>1. Names(r, s, n, 0, 1)
    BY <1>4, <1>8
  <2>2. \A k, l \in Nat : Names(r, s, n, k, l) => k < 0 \/ (k = 0 /\ l =< 1)
    BY <1>6, <1>8
  <2>3. Resp(r, s, 0)[1] = Head(r)
    BY <1>1 DEF Resp
  <2> QED  BY <1>8, <2>1, <2>2, <2>3 DEF LastWord
<1>9. ASSUME LastWord(r, s, n, m, id)
      PROVE  LastWord(Tail(r), s, n, m, id)
  <2> SUFFICES ASSUME NEW j \in Nat, NEW i \in Nat,
                      Names(Tail(r), s, n, j, i),
                      \A k, l \in Nat : Names(Tail(r), s, n, k, l)
                                        => k < j \/ (k = j /\ l =< i)
               PROVE  Meaning(Resp(Tail(r), s, j)[i], id) = m
    BY DEF LastWord
  <2>1. CASE j = 0
    <3>1. Names(r, s, n, 0, i + 1)
      BY <1>2, <2>1
    <3>2. ASSUME NEW k \in Nat, NEW l \in Nat, Names(r, s, n, k, l)
          PROVE  k < 0 \/ (k = 0 /\ l =< i + 1)
      <4>1. k = 0
        BY <1>3, <2>1, <3>2
      <4>2. CASE l =< 1
        BY <4>1, <4>2
      <4>3. CASE l > 1
        <5>1. l - 1 \in Nat /\ (l - 1) + 1 = l /\ l - 1 # 0
          BY <4>3
        <5>2. Names(Tail(r), s, n, 0, l - 1)
          BY <1>2, <3>2, <4>1, <5>1
        <5> QED  BY <2>1, <4>1, <5>1, <5>2
      <4> QED  BY <4>2, <4>3
    <3>3. Meaning(Resp(r, s, 0)[i + 1], id) = m
      BY <1>9, <3>1, <3>2 DEF LastWord
    <3>4. Resp(r, s, 0)[i + 1] = Resp(Tail(r), s, 0)[i]
      BY <1>1, <2>1 DEF Resp, Names
    <3> QED  BY <2>1, <3>3, <3>4
  <2>2. CASE j # 0
    <3>1. Names(r, s, n, j, i)
      BY <1>3, <2>2
    <3>2. ASSUME NEW k \in Nat, NEW l \in Nat, Names(r, s, n, k, l)
          PROVE  k < j \/ (k = j /\ l =< i)
      BY <1>3, <2>2, <3>2
    <3>3. Resp(r, s, j) = Resp(Tail(r), s, j)
      BY <2>2 DEF Resp
    <3> QED  BY <1>9, <3>1, <3>2, <3>3 DEF LastWord
  <2> QED  BY <2>1, <2>2
<1> QED  BY <1>7, <1>8, <1>9

LEMMA OnNotifying ==
  ASSUME NEW X, NEW s \in Seq(Seq(X)), NEW r \in Seq(X), NEW p \in X,
         NEW n, NEW m, NEW id
  PROVE  LET t == Append(s, <<p>>)
         IN  /\ Speaks(p, n) => ~Quiet(r, t, n)
             /\ Speaks(p, n) /\ Meaning(p, id) = m => LastWord(r, t, n, m, id)
             /\ ~Speaks(p, n) /\ Quiet(r, t, n) => Quiet(r, s, n)
             /\ ~Speaks(p, n) /\ LastWord(r, s, n, m, id) => LastWord(r, t, n, m, id)
<1> DEFINE t == Append(s, <<p>>)
           N == Len(s)
<1>1. /\ N \in Nat
      /\ Len(t) = N + 1
      /\ t[N + 1] = <<p>>
      /\ \A j \in 1..N : t[j] = s[j]
  OBVIOUS
<1>2. \A j \in 0..N : Resp(r, t, j) = Resp(r, s, j)
  BY <1>1 DEF Resp
<1>3. Resp(r, t, N + 1) = <<p>>
  BY <1>1 DEF Resp
<1> HIDE DEF t
<1>4. \A j, i \in Nat : j # N + 1 => (Names(r, t, n, j, i) <=> Names(r, s, n, j, i))
  BY <1>1, <1>2 DEF Names, N
<1>5. \A i \in Nat : Names(r, t, n, N + 1, i) <=> i = 1 /\ Speaks(p, n)
  BY <1>1, <1>3 DEF Names, Speaks, N
<1>6. \A j, i \in Nat : Names(r, t, n, j, i) => j =< N + 1
  BY <1>1 DEF Names
<1>7. \A i \in Nat : ~Names(r, s, n, N + 1, i)
  BY <1>1 DEF Names, N
<1>8. Speaks(p, n) => ~Quiet(r, t, n)
  <2>1. N + 1 \in Nat /\ 1 \in Nat
    BY <1>1
  <2>2. Speaks(p, n) => Names(r, t, n, N + 1, 1)
    BY <1>5, <2>1
  <2> QED  BY <2>1, <2>2 DEF Quiet
<1>9. ASSUME Speaks(p, n), Meaning(p, id) = m
      PROVE  LastWord(r, t, n, m, id)
  <2> SUFFICES ASSUME NEW j \in Nat, NEW i \in Nat, Names(r, t, n, j, i),
                      \A k, l \in Nat : Names(r, t, n, k, l)
                                        => k < j \/ (k = j /\ l =< i)
               PROVE  Meaning(Resp(r, t, j)[i], id) = m
    BY DEF LastWord
  <2>1. Names(r, t, n, N + 1, 1)
    BY <1>1, <1>5, <1>9
  <2>2. j = N + 1
    BY <1>1, <1>6, <2>1
  <2>3. i = 1
    BY <1>5, <2>2
  <2> QED  BY <1>3, <1>9, <2>2, <2>3
<1>10. ASSUME ~Speaks(p, n), Quiet(r, t, n)
       PROVE  Quiet(r, s, n)
  BY <1>4, <1>7, <1>10 DEF Quiet
<1>11. ASSUME ~Speaks(p, n), LastWord(r, s, n, m, id)
       PROVE  LastWord(r, t, n, m, id)
  <2> SUFFICES ASSUME NEW j \in Nat, NEW i \in Nat, Names(r, t, n, j, i),
                      \A k, l \in Nat : Names(r, t, n, k, l)
                                        => k < j \/ (k = j /\ l =< i)
               PROVE  Meaning(Resp(r, t, j)[i], id) = m
    BY DEF LastWord
  <2>1. j # N + 1
    BY <1>5, <1>11
  <2>2. Names(r, s, n, j, i)
    BY <1>4, <2>1
  <2>3. \A k, l \in Nat : Names(r, s, n, k, l) => Names(r, t, n, k, l)
    BY <1>4, <1>7
  <2>4. Resp(r, t, j) = Resp(r, s, j)
    BY <1>2, <2>2 DEF Names, N
  <2> QED  BY <1>11, <2>2, <2>3, <2>4 DEF LastWord
<1> QED  BY <1>8, <1>9, <1>10, <1>11 DEF t

-----------------------------------------------------------------------------
(* The inductive invariant.                                                *)

Sent == Messages \cup {Foreign}
Paths == {d.event.path : d \in Decoded}
Entries(g) == [path : Paths, gen : 1..g]

(* Every route of the RIB is in its place.                                 *)
RibTyped ==
  /\ rib \in [NLRIs -> Routes \cup {NoRoute}]
  /\ \A n \in NLRIs : rib[n] # NoRoute => NLRI(rib[n]) = n

WireTyped ==
  /\ stream \in Seq(Seq(Sent))
  /\ Len(stream) =< MaxStream
  /\ rest \in Seq(Sent)
  /\ at \in {"down", "recv", "handle"}
  /\ at # "handle" => rest = <<>>

SourceTyped ==
  /\ localID \in {NoNode, LocalID}
  /\ gen \in 0..MaxGen
  /\ at # "down" => gen # 0
  /\ unsynced \subseteq 1..gen
  /\ dump \subseteq NLRIs
  /\ swept \in BOOLEAN
  /\ calm \in BOOLEAN

TableTyped == table \in [NLRIs -> Entries(gen) \cup {NoEntry}]

Typed == RibTyped /\ WireTyped /\ SourceTyped /\ TableTyped

(* An entry of which nothing is on the way is what the RIB means, or is a  *)
(* leftover, of a route that gobgpd has not spoken of since it was asked.  *)
Agrees(e, m, g, dumped) ==
  \/ e = NoEntry /\ m = NoEntry
  \/ e # NoEntry /\ e.gen = g /\ e.path = m
  \/ e # NoEntry /\ e.gen < g /\ m = NoEntry /\ ~dumped

Followed ==
  at # "down" => \A n \in NLRIs :
    /\ LastWord(rest, stream, n, Meaning(rib[n], localID), localID)
    /\ Quiet(rest, stream, n)
         => Agrees(table[n], Meaning(rib[n], localID), gen, n \in dump)

NoLeftover ==
  at # "down" /\ swept => \A n \in NLRIs : table[n] # NoEntry => table[n].gen = gen

SInv == Typed /\ Followed /\ NoLeftover

-----------------------------------------------------------------------------
(* The invariant says of what is on the way what Mirror says of it.        *)

LEMMA LargestOf ==
  ASSUME NEW N \in Nat, NEW S \in SUBSET (0..N), S # {}
  PROVE  \E m \in S : \A x \in S : x =< m
<1> DEFINE T == {N - x : x \in S}
<1>1. T \subseteq Nat /\ T # {}
  <2>1. \A x \in S : N - x \in Nat
    OBVIOUS
  <2>2. PICK x \in S : TRUE
    OBVIOUS
  <2>3. N - x \in T
    OBVIOUS
  <2> QED  BY <2>1, <2>3
<1> HIDE DEF T
<1>2. PICK t \in T : \A y \in T : t =< y
  BY <1>1, MinOfNaturals
<1>4. PICK m \in S : t = N - m
  BY DEF T
<1>5. ASSUME NEW x \in S
      PROVE  x =< m
  <2>1. N - x \in T
    BY DEF T
  <2>2. N - m =< N - x
    BY <1>2, <1>4, <2>1
  <2> QED  BY <2>2
<1> QED  BY <1>5

LEMMA OnIsNamed ==
  ASSUME Typed, NEW n
  PROVE  /\ \A w \in On(n) : \E j, i \in Nat : w = <<j, i>> /\ Names(rest, stream, n, j, i)
         /\ \A j, i \in Nat : Names(rest, stream, n, j, i) => <<j, i>> \in On(n)
         /\ \A j, i \in Nat : PathAt(<<j, i>>) = Resp(rest, stream, j)[i]
<1>1. \A j : Response(j) = Resp(rest, stream, j)
  BY DEF Response, Resp
<1>2. \A j, i \in Nat : PathAt(<<j, i>>) = Resp(rest, stream, j)[i]
  BY <1>1 DEF PathAt
<1>3. Len(stream) \in Nat
  BY DEF Typed, WireTyped
<1>4. \A j \in 0..Len(stream) : Resp(rest, stream, j) \in Seq(Sent)
  BY DEF Typed, WireTyped, Resp
<1>5. \A j \in 0..Len(stream) : DOMAIN Resp(rest, stream, j) \subseteq Nat
  BY <1>4
<1>6. ASSUME NEW w \in On(n)
      PROVE  \E j, i \in Nat : w = <<j, i>> /\ Names(rest, stream, n, j, i)
  <2>1. PICK j \in 0..Len(stream) : w \in {j} \X DOMAIN Response(j)
    BY DEF On, Ahead
  <2>2. PICK i \in DOMAIN Resp(rest, stream, j) : w = <<j, i>>
    BY <1>1, <2>1
  <2>3. j \in Nat /\ i \in Nat
    BY <1>3, <1>5
  <2>4. IsSRPolicy(PathAt(w)) /\ NLRI(PathAt(w)) = n
    BY DEF On
  <2>5. PathAt(w) = Resp(rest, stream, j)[i]
    BY <1>2, <2>2, <2>3
  <2> QED  BY <2>2, <2>3, <2>4, <2>5 DEF Names
<1>7. ASSUME NEW j \in Nat, NEW i \in Nat, Names(rest, stream, n, j, i)
      PROVE  <<j, i>> \in On(n)
  <2>1. j \in 0..Len(stream) /\ i \in DOMAIN Response(j)
    BY <1>1, <1>7 DEF Names
  <2>2. <<j, i>> \in Ahead
    BY <2>1 DEF Ahead
  <2>3. IsSRPolicy(PathAt(<<j, i>>)) /\ NLRI(PathAt(<<j, i>>)) = n
    BY <1>2, <1>7 DEF Names
  <2> QED  BY <2>2, <2>3 DEF On
<1> QED  BY <1>2, <1>6, <1>7

(* Where something is on the way, something is last.                       *)
LEMMA OneIsLast ==
  ASSUME Typed, NEW n, On(n) # {}
  PROVE  \E w \in On(n) : \A v \in On(n) : NotAfter(v, w)
<1> DEFINE J == {w[1] : w \in On(n)}
<1>1. Len(stream) \in Nat
  BY DEF Typed, WireTyped
<1>2. \A w \in On(n) : w[1] \in 0..Len(stream) /\ w[2] \in DOMAIN Resp(rest, stream, w[1])
  BY OnIsNamed DEF Names
<1>3. J \in SUBSET (0..Len(stream)) /\ J # {}
  BY <1>2
<1> HIDE DEF J
<1>4. PICK a \in J : \A x \in J : x =< a
  BY <1>1, <1>3, LargestOf
<1> DEFINE I == {w[2] : w \in {x \in On(n) : x[1] = a}}
           M == Len(Resp(rest, stream, a))
<1>5. M \in Nat /\ DOMAIN Resp(rest, stream, a) = 1..M
  BY <1>3 DEF Typed, WireTyped, Resp
<1>6. I \in SUBSET (0..M) /\ I # {}
  BY <1>2, <1>5 DEF J
<1> HIDE DEF I, M
<1>7. PICK b \in I : \A x \in I : x =< b
  BY <1>5, <1>6, LargestOf
<1>8. PICK w \in On(n) : w[1] = a /\ w[2] = b
  BY DEF I
<1>9. ASSUME NEW v \in On(n)
      PROVE  NotAfter(v, w)
  <2>1. v[1] \in 0..Len(stream) /\ v[1] =< a
    BY <1>2, <1>4 DEF J
  <2>2. v[1] = a => v[2] =< b
    BY <1>7 DEF I
  <2> QED  BY <1>1, <1>3, <1>8, <2>1, <2>2 DEF NotAfter
<1> QED  BY <1>8, <1>9

LEMMA Mirrored ==
  ASSUME SInv
  PROVE  Mirror
<1> SUFFICES ASSUME at # "down", swept, NEW n \in NLRIs
             PROVE  Replayed(n) = Meaning(rib[n], localID)
  BY DEF Mirror
<1> DEFINE m == Meaning(rib[n], localID)
<1>t. Typed
  BY DEF SInv
<1>1. LastWord(rest, stream, n, m, localID)
  BY DEF SInv, Followed
<1>2. Quiet(rest, stream, n) => Agrees(table[n], m, gen, n \in dump)
  BY DEF SInv, Followed
<1>3. table[n] # NoEntry => table[n].gen = gen
  BY DEF SInv, NoLeftover
<1> HIDE DEF m
<1>4. CASE On(n) = {}
  <2>1. Quiet(rest, stream, n)
    BY <1>t, <1>4, OnIsNamed DEF Quiet
  <2>2. PathOf(table[n]) = m
    BY <1>t, <1>2, <1>3, <2>1 DEF Agrees, PathOf, Typed, SourceTyped
  <2> QED  BY <1>4, <2>2 DEF Replayed, m
<1>5. CASE On(n) # {}
  <2> DEFINE w == CHOOSE w \in On(n) : \A v \in On(n) : NotAfter(v, w)
  <2>1. w \in On(n) /\ \A v \in On(n) : NotAfter(v, w)
    BY <1>t, <1>5, OneIsLast
  <2>2. Replayed(n) = Meaning(PathAt(w), localID)
    BY <1>5 DEF Replayed
  <2> HIDE DEF w
  <2>3. PICK j \in Nat, i \in Nat : w = <<j, i>> /\ Names(rest, stream, n, j, i)
    BY <1>t, <2>1, OnIsNamed
  <2>4. ASSUME NEW k \in Nat, NEW l \in Nat, Names(rest, stream, n, k, l)
        PROVE  k < j \/ (k = j /\ l =< i)
    <3>1. <<k, l>> \in On(n)
      BY <1>t, <2>4, OnIsNamed
    <3>2. NotAfter(<<k, l>>, <<j, i>>)
      BY <2>1, <2>3, <3>1
    <3> QED  BY <3>2 DEF NotAfter
  <2>5. Meaning(Resp(rest, stream, j)[i], localID) = m
    BY <1>1, <2>3, <2>4 DEF LastWord
  <2>6. PathAt(w) = Resp(rest, stream, j)[i]
    BY <1>t, <2>3, OnIsNamed
  <2> QED  BY <2>2, <2>5, <2>6 DEF m
<1> QED  BY <1>4, <1>5

-----------------------------------------------------------------------------
(* The first response of a subscription.                                   *)

Dumps == IF BestPaths = {} THEN {<<>>} ELSE {<<d>> : d \in SetToSeqs(BestPaths)}

LEMMA SentHas ==
  /\ Routes \subseteq Sent
  /\ \A p \in Routes : Withdrawal(p) \in Sent
  /\ Foreign \in Sent
BY DEF Sent, Messages

LEMMA BestPathIs ==
  ASSUME RibTyped
  PROVE  /\ \A p \in BestPaths : p \in Routes /\ NLRI(p) \in NLRIs /\ rib[NLRI(p)] = p
         /\ \A n \in NLRIs : rib[n] # NoRoute => rib[n] \in BestPaths /\ NLRI(rib[n]) = n
         /\ IsFiniteSet(BestPaths)
<1>1. \A p \in BestPaths : p \in Routes /\ NLRI(p) \in NLRIs /\ rib[NLRI(p)] = p
  BY DEF BestPaths, RibTyped
<1>2. BestPaths \in SUBSET Routes
  BY <1>1
<1>3. IsFiniteSet(BestPaths)
  BY <1>2, RouteAssumption, FS_Subset
<1> QED  BY <1>1, <1>3 DEF BestPaths, RibTyped

(* A sequence of a set has all of its members.                             *)
LEMMA SequenceOfSet ==
  ASSUME NEW S, IsFiniteSet(S), NEW d \in SetToSeqs(S)
  PROVE  /\ d \in Seq(S)
         /\ \A x \in S : \E i \in DOMAIN d : d[i] = x
<1> DEFINE N == Cardinality(S)
           D == 1..N
<1>1. N \in Nat
  BY FS_CardinalityType
<1>2. d \in [D -> S] /\ \A i, j \in D : i # j => d[i] # d[j]
  BY DEF SetToSeqs
<1>3. Cardinality(D) = N /\ IsFiniteSet(D)
  BY <1>1, FS_Interval
<1>4. d \in Injection(D, S)
  BY <1>2 DEF Injection, IsInjective
<1> HIDE DEF D
<1>5. d \in Surjection(D, S)
  BY <1>3, <1>4, FS_Injection
<1>6. \A x \in S : \E i \in D : d[i] = x
  BY <1>5 DEF Surjection
<1> QED  BY <1>1, <1>2, <1>6 DEF D

LEMMA OnSubscribing ==
  ASSUME RibTyped, NEW s \in Dumps
  PROVE  /\ s \in Seq(Seq(Sent)) /\ Len(s) =< 1
         /\ \A n \in NLRIs : \A id :
              /\ LastWord(<<>>, s, n, Meaning(rib[n], id), id)
              /\ Quiet(<<>>, s, n) => rib[n] = NoRoute
<1>1. CASE BestPaths = {}
  <2>1. s = <<>>
    BY <1>1 DEF Dumps
  <2>2. \A n \in NLRIs : rib[n] = NoRoute
    BY <1>1, BestPathIs
  <2>3. \A n, j, i : ~Names(<<>>, s, n, j, i)
    BY <2>1 DEF Names, Resp
  <2> QED  BY <2>1, <2>2, <2>3 DEF LastWord
<1>2. CASE BestPaths # {}
  <2>1. PICK d \in SetToSeqs(BestPaths) : s = <<d>>
    BY <1>2 DEF Dumps
  <2>2. /\ d \in Seq(BestPaths)
        /\ \A x \in BestPaths : \E i \in DOMAIN d : d[i] = x
    BY BestPathIs, SequenceOfSet
  <2>3. d \in Seq(Sent)
    BY <2>2, BestPathIs, SentHas
  <2>4. Len(s) = 1 /\ Resp(<<>>, s, 0) = <<>> /\ Resp(<<>>, s, 1) = d
    BY <2>1 DEF Resp
  <2>5. \A n, j, i : Names(<<>>, s, n, j, i) => j = 1 /\ i \in DOMAIN d /\ NLRI(d[i]) = n
    BY <2>4 DEF Names
  <2>6. \A i \in DOMAIN d : d[i] \in BestPaths
    BY <2>2
  <2>7. ASSUME NEW n \in NLRIs, NEW id
        PROVE  LastWord(<<>>, s, n, Meaning(rib[n], id), id)
    <3> SUFFICES ASSUME NEW j \in Nat, NEW i \in Nat, Names(<<>>, s, n, j, i)
                 PROVE  Resp(<<>>, s, j)[i] = rib[n]
      BY DEF LastWord
    <3> QED  BY <2>4, <2>5, <2>6, BestPathIs
  <2>8. ASSUME NEW n \in NLRIs, rib[n] # NoRoute
        PROVE  ~Quiet(<<>>, s, n)
    <3>1. rib[n] \in BestPaths /\ NLRI(rib[n]) = n /\ rib[n] \in Routes
      BY <2>8, BestPathIs
    <3>2. PICK i \in DOMAIN d : d[i] = rib[n]
      BY <2>2, <3>1
    <3>3. i \in Nat
      BY <2>2
    <3>4. Names(<<>>, s, n, 1, i)
      BY <2>4, <3>1, <3>2, RouteAssumption DEF Names
    <3> QED  BY <3>3, <3>4 DEF Quiet
  <2> QED  BY <2>1, <2>3, <2>4, <2>7, <2>8
<1> QED  BY <1>1, <1>2

-----------------------------------------------------------------------------
(* The steps.                                                              *)

LEMMA EntryIs ==
  ASSUME NEW g \in 0..MaxGen, NEW e \in Entries(g)
  PROVE  /\ e # NoEntry
         /\ e.gen \in 1..g /\ e.path \in Paths
         /\ \A h \in g..MaxGen : e \in Entries(h)
<1>1. e \in [path : {d.event.path : d \in Decoded}, gen : 1..MaxGen]
  BY SubscriptionAssumption DEF Entries, Paths
<1> QED  BY <1>1, EntryAssumption, SubscriptionAssumption DEF Entries

LEMMA Initially == Init => SInv
<1> SUFFICES ASSUME Init
             PROVE  SInv
  OBVIOUS
<1>1. RibTyped /\ TableTyped
  BY DEF Init, RibTyped, TableTyped
<1>2. WireTyped
  BY SubscriptionAssumption DEF Init, WireTyped
<1>3. SourceTyped
  <2>1. swept \in BOOLEAN /\ calm \in BOOLEAN
    BY DEF Init
  <2>2. gen \in 0..MaxGen /\ unsynced \subseteq 1..gen /\ at = "down"
    BY SubscriptionAssumption DEF Init
  <2>3. localID \in {NoNode, LocalID}
    BY DEF Init
  <2>4. dump \subseteq NLRIs
    BY DEF Init
  <2> QED  BY <2>1, <2>2, <2>3, <2>4 DEF SourceTyped
<1> QED  BY <1>1, <1>2, <1>3 DEF Init, SInv, Typed, Followed, NoLeftover

LEMMA Subscribing ==
  ASSUME SInv, Subscribe
  PROVE  SInv'
<1>1. /\ Typed
      /\ at = "down"
      /\ rest = <<>>
      /\ gen \in 0..MaxGen
      /\ gen' = gen + 1
      /\ gen' \in 1..MaxGen
      /\ stream' \in Dumps
      /\ UNCHANGED <<rib, rest, table, calm>>
      /\ dump' = {NLRI(p) : p \in BestPaths}
      /\ swept' = FALSE
      /\ at' = "recv"
  BY SubscriptionAssumption DEF SInv, Typed, WireTyped, SourceTyped, Subscribe, Dumps
<1>2. /\ stream' \in Seq(Seq(Sent)) /\ Len(stream') =< 1
      /\ \A n \in NLRIs : \A id :
           /\ LastWord(<<>>, stream', n, Meaning(rib[n], id), id)
           /\ Quiet(<<>>, stream', n) => rib[n] = NoRoute
  BY <1>1, OnSubscribing DEF Typed
<1>3. RibTyped'
  BY <1>1 DEF Typed, RibTyped
<1>4. WireTyped'
  BY <1>1, <1>2, SubscriptionAssumption DEF Typed, WireTyped
<1>5. SourceTyped'
  <2>1. localID' \in {NoNode, LocalID}
    BY <1>1 DEF Subscribe, FetchLocalID, Typed, SourceTyped
  <2>2. unsynced' \subseteq 1..gen'
    <3>1. unsynced' = unsynced \cup {gen + 1} /\ unsynced \subseteq 1..gen
      BY <1>1 DEF Subscribe, Typed, SourceTyped
    <3>2. gen \in Nat /\ gen' = gen + 1
      BY <1>1, SubscriptionAssumption
    <3> QED  BY <3>1, <3>2
  <2>3. swept' \in BOOLEAN /\ calm' \in BOOLEAN
    BY <1>1 DEF Typed, SourceTyped
  <2>4. gen' \in 0..MaxGen /\ gen' # 0
    BY <1>1, SubscriptionAssumption
  <2>5. dump' \subseteq NLRIs
    BY <1>1, BestPathIs DEF Typed
  <2> QED  BY <2>1, <2>2, <2>3, <2>4, <2>5 DEF SourceTyped
<1>6. TableTyped'
  <2>1. \A e \in Entries(gen) : e \in Entries(gen')
    BY <1>1, EntryIs
  <2> QED  BY <1>1, <2>1 DEF Typed, TableTyped
<1>7. Followed'
  <2> SUFFICES ASSUME NEW n \in NLRIs
               PROVE  /\ LastWord(rest', stream', n, Meaning(rib[n], localID'), localID')
                      /\ Quiet(rest', stream', n)
                           => Agrees(table[n], Meaning(rib[n], localID'), gen', n \in dump')
    BY <1>1 DEF Followed
  <2>1. ASSUME rib[n] = NoRoute
        PROVE  Agrees(table[n], Meaning(rib[n], localID'), gen', n \in dump')
    <3>1. Meaning(rib[n], localID') = NoEntry
      BY <2>1, NothingMeant
    <3>2. n \notin dump'
      BY <1>1, <2>1, BestPathIs DEF Typed, BestPaths
    <3>3. table[n] # NoEntry => table[n].gen < gen'
      BY <1>1, EntryIs DEF Typed, TableTyped
    <3> QED  BY <3>1, <3>2, <3>3 DEF Agrees
  <2> QED  BY <1>1, <1>2, <2>1
<1>8. NoLeftover'
  BY <1>1 DEF NoLeftover
<1> QED  BY <1>3, <1>4, <1>5, <1>6, <1>7, <1>8 DEF SInv, Typed

LEMMA Receiving ==
  ASSUME SInv, Recv
  PROVE  SInv'
<1>1. /\ Typed
      /\ at = "recv" /\ at' = "handle"
      /\ rest = <<>> /\ stream # <<>> /\ stream \in Seq(Seq(Sent))
      /\ rest' = Head(stream) /\ stream' = Tail(stream)
      /\ UNCHANGED <<rib, localID, table, gen, unsynced, dump, swept, calm>>
  BY DEF SInv, Typed, WireTyped, Recv
<1>2. Typed'
  <2>1. RibTyped' /\ TableTyped' /\ SourceTyped'
    BY <1>1 DEF Typed, RibTyped, TableTyped, SourceTyped
  <2>2. WireTyped'
    <3>1. rest' \in Seq(Sent) /\ stream' \in Seq(Seq(Sent)) /\ Len(stream') = Len(stream) - 1
      BY <1>1
    <3>2. Len(stream) \in Nat /\ Len(stream) =< MaxStream
      BY <1>1 DEF Typed, WireTyped
    <3>3. Len(stream') =< MaxStream
      BY <3>1, <3>2, SubscriptionAssumption
    <3> QED  BY <1>1, <3>1, <3>3 DEF WireTyped
  <2> QED  BY <2>1, <2>2 DEF Typed
<1>3. Followed'
  <2> SUFFICES ASSUME NEW n \in NLRIs
               PROVE  /\ LastWord(rest', stream', n, Meaning(rib[n], localID), localID)
                      /\ Quiet(rest', stream', n)
                           => Agrees(table[n], Meaning(rib[n], localID), gen, n \in dump)
    BY <1>1 DEF Followed
  <2> DEFINE m == Meaning(rib[n], localID)
  <2>1. /\ LastWord(<<>>, stream, n, m, localID)
        /\ Quiet(<<>>, stream, n) => Agrees(table[n], m, gen, n \in dump)
    BY <1>1 DEF SInv, Followed
  <2> HIDE DEF m
  <2>2. /\ Quiet(Head(stream), Tail(stream), n) => Quiet(<<>>, stream, n)
        /\ LastWord(<<>>, stream, n, m, localID)
             => LastWord(Head(stream), Tail(stream), n, m, localID)
    BY <1>1, OnReceiving
  <2> QED  BY <1>1, <2>1, <2>2 DEF m
<1>4. NoLeftover'
  BY <1>1 DEF SInv, NoLeftover
<1> QED  BY <1>2, <1>3, <1>4 DEF SInv

(* What a message makes of the table.                                      *)
LEMMA AppliedIs ==
  ASSUME OneOfAKind, SInv, at # "down",
         NEW d \in Decoded, d.id = localID, NEW t, t = Applied(table, d.event)
  PROVE  /\ t \in [NLRIs -> Entries(gen) \cup {NoEntry}]
         /\ \A n \in NLRIs : n # NLRI(d.msg) => t[n] = table[n]
         /\ t[NLRI(d.msg)] # NoEntry => t[NLRI(d.msg)].gen = gen
         /\ NLRI(d.msg) \in NLRIs
         /\ \A b : Agrees(t[NLRI(d.msg)], Meaning(d.msg, localID), gen, b)
<1> DEFINE ev == d.event
           k == <<ev.key, ev.path.disc>>
           e == IF ev.withdraw THEN NoEntry ELSE [path |-> ev.path, gen |-> gen]
<1>1. k = NLRI(d.msg)
  BY DecodedEvent
<1>2. NLRI(d.msg) \in NLRIs
  BY MessageFields DEF Decoded
<1>3. table \in [NLRIs -> Entries(gen) \cup {NoEntry}] /\ gen \in 1..MaxGen
  BY DEF SInv, Typed, TableTyped, SourceTyped
<1>4. Meaning(d.msg, localID) = IF ev.withdraw THEN NoEntry ELSE ev.path
  BY HandledAsMeant
<1>5. t = [table EXCEPT ![k] = e]
  BY DEF Applied
<1>6. [path |-> ev.path, gen |-> gen] \in Entries(gen)
  BY <1>3 DEF Entries, Paths
<1>7. e = NoEntry \/ (e # NoEntry /\ e \in Entries(gen) /\ e.gen = gen /\ e.path = ev.path /\ ~ev.withdraw)
  BY <1>3, <1>6, EntryIs
<1>8. e = NoEntry => ev.withdraw
  BY <1>3, <1>6, EntryIs
<1> HIDE DEF e, k
<1>9. t[k] = e /\ \A n \in NLRIs : n # k => t[n] = table[n]
  BY <1>1, <1>2, <1>3, <1>5
<1>10. t \in [NLRIs -> Entries(gen) \cup {NoEntry}]
  BY <1>3, <1>5, <1>7
<1> QED  BY <1>1, <1>2, <1>4, <1>7, <1>8, <1>9, <1>10 DEF Agrees

LEMMA Handling ==
  ASSUME OneOfAKind, SInv, Handle
  PROVE  SInv'
<1>1. /\ Typed
      /\ at = "handle" /\ at' = "handle"
      /\ rest # <<>> /\ rest \in Seq(Sent) /\ stream \in Seq(Seq(Sent))
      /\ rest' = Tail(rest) /\ stream' = stream
      /\ UNCHANGED <<rib, localID, gen, unsynced, dump, swept, calm>>
  BY DEF SInv, Typed, WireTyped, Handle
<1>2. /\ table' \in [NLRIs -> Entries(gen) \cup {NoEntry}]
      /\ \A n \in NLRIs : ~Speaks(Head(rest), n) => table'[n] = table[n]
      /\ \A n \in NLRIs : Speaks(Head(rest), n) =>
           /\ table'[n] # NoEntry => table'[n].gen = gen
           /\ \A b : Agrees(table'[n], Meaning(Head(rest), localID), gen, b)
  <2>1. CASE ~IsSRPolicy(Head(rest)) /\ UNCHANGED table
    BY <1>1, <2>1 DEF Typed, TableTyped, Speaks
  <2>2. CASE IsSRPolicy(Head(rest)) /\ \E d \in Decoded :
                  d.msg = Head(rest) /\ d.id = localID /\ table' = Applied(table, d.event)
    <3>1. PICK d \in Decoded :
                  d.msg = Head(rest) /\ d.id = localID /\ table' = Applied(table, d.event)
      BY <2>2
    <3>2. /\ table' \in [NLRIs -> Entries(gen) \cup {NoEntry}]
          /\ \A n \in NLRIs : n # NLRI(d.msg) => table'[n] = table[n]
          /\ table'[NLRI(d.msg)] # NoEntry => table'[NLRI(d.msg)].gen = gen
          /\ \A b : Agrees(table'[NLRI(d.msg)], Meaning(d.msg, localID), gen, b)
      BY <1>1, <3>1, AppliedIs
    <3> QED  BY <2>2, <3>1, <3>2 DEF Speaks
  <2> QED  BY <2>1, <2>2 DEF Handle
<1>3. Typed'
  <2>1. RibTyped' /\ SourceTyped'
    BY <1>1 DEF Typed, RibTyped, SourceTyped
  <2>2. WireTyped'
    BY <1>1 DEF Typed, WireTyped
  <2>3. TableTyped'
    BY <1>1, <1>2 DEF TableTyped
  <2> QED  BY <2>1, <2>2, <2>3 DEF Typed
<1>4. Followed'
  <2> SUFFICES ASSUME NEW n \in NLRIs
               PROVE  /\ LastWord(rest', stream, n, Meaning(rib[n], localID), localID)
                      /\ Quiet(rest', stream, n)
                           => Agrees(table'[n], Meaning(rib[n], localID), gen, n \in dump)
    BY <1>1 DEF Followed
  <2> DEFINE m == Meaning(rib[n], localID)
             r == rest
  <2>1. /\ LastWord(r, stream, n, m, localID)
        /\ Quiet(r, stream, n) => Agrees(table[n], m, gen, n \in dump)
    BY <1>1 DEF SInv, Followed
  <2> HIDE DEF m
  <2>2. /\ Quiet(Tail(r), stream, n) /\ ~Speaks(Head(r), n) => Quiet(r, stream, n)
        /\ LastWord(r, stream, n, m, localID) => LastWord(Tail(r), stream, n, m, localID)
        /\ Quiet(Tail(r), stream, n) /\ Speaks(Head(r), n) /\ LastWord(r, stream, n, m, localID)
             => Meaning(Head(r), localID) = m
    BY <1>1, OnHandling
  <2>3. CASE Speaks(Head(r), n)
    <3>1. Agrees(table'[n], Meaning(Head(rest), localID), gen, n \in dump)
      BY <1>2, <2>3
    <3> QED  BY <1>1, <2>1, <2>2, <2>3, <3>1 DEF m
  <2>4. CASE ~Speaks(Head(r), n)
    BY <1>1, <1>2, <2>1, <2>2, <2>4 DEF m
  <2> QED  BY <2>3, <2>4
<1>5. NoLeftover'
  BY <1>1, <1>2 DEF SInv, NoLeftover
<1> QED  BY <1>3, <1>4, <1>5 DEF SInv

(* What a sweep makes of the table.                                        *)
LEMMA SweptTable ==
  ASSUME SInv, table' = SweepOld
  PROVE  /\ table' \in [NLRIs -> Entries(gen) \cup {NoEntry}]
         /\ \A n \in NLRIs : table'[n] # NoEntry => table'[n].gen = gen
         /\ \A n \in NLRIs : \A m, b : Agrees(table[n], m, gen, b) => Agrees(table'[n], m, gen, b)
<1>1. table \in [NLRIs -> Entries(gen) \cup {NoEntry}] /\ gen \in 0..MaxGen
  BY DEF SInv, Typed, TableTyped, SourceTyped
<1>2. \A n \in NLRIs : table[n] # NoEntry => table[n].gen \in 1..gen
  BY <1>1, EntryIs
<1>3. \A n \in NLRIs : table'[n] = IF table[n] # NoEntry /\ table[n].gen < gen
                                  THEN NoEntry ELSE table[n]
  BY DEF SweepOld
<1>4. table' \in [NLRIs -> Entries(gen) \cup {NoEntry}]
  BY <1>1 DEF SweepOld
<1>5. \A n \in NLRIs : table'[n] # NoEntry => table'[n].gen = gen
  BY <1>1, <1>2, <1>3
<1>6. \A n \in NLRIs : \A m, b : Agrees(table[n], m, gen, b) => Agrees(table'[n], m, gen, b)
  BY <1>1, <1>2, <1>3 DEF Agrees
<1> QED  BY <1>4, <1>5, <1>6

LEMMA Syncing ==
  ASSUME SInv, NEW g \in unsynced, Synced(g),
         at' \in {"down", "recv", "handle"}, at' = "down" <=> at = "down",
         at' # "handle" => rest = <<>>,
         UNCHANGED <<rib, stream, rest, localID, gen, dump, calm>>
  PROVE  SInv'
<1>1. /\ unsynced' = unsynced \ {g} /\ table' = SweepOld /\ swept' = (at # "down")
  BY DEF Synced
<1>2. /\ table' \in [NLRIs -> Entries(gen) \cup {NoEntry}]
      /\ \A n \in NLRIs : table'[n] # NoEntry => table'[n].gen = gen
      /\ \A n \in NLRIs : \A m, b : Agrees(table[n], m, gen, b) => Agrees(table'[n], m, gen, b)
  BY <1>1, SweptTable
<1>3. RibTyped' /\ WireTyped' /\ TableTyped'
  BY <1>2 DEF SInv, Typed, RibTyped, WireTyped, TableTyped
<1>4. SourceTyped'
  <2>1. swept' \in BOOLEAN
    BY <1>1
  <2>2. calm' \in BOOLEAN
    BY DEF SInv, Typed, SourceTyped
  <2> QED  BY <1>1, <2>1, <2>2 DEF SInv, Typed, SourceTyped
<1>5. Followed'
  <2> SUFFICES ASSUME at # "down", NEW n \in NLRIs
               PROVE  /\ LastWord(rest, stream, n, Meaning(rib[n], localID), localID)
                      /\ Quiet(rest, stream, n)
                           => Agrees(table'[n], Meaning(rib[n], localID), gen, n \in dump)
    BY DEF Followed
  <2> DEFINE m == Meaning(rib[n], localID)
  <2>1. /\ LastWord(rest, stream, n, m, localID)
        /\ Quiet(rest, stream, n) => Agrees(table[n], m, gen, n \in dump)
    BY DEF SInv, Followed
  <2> HIDE DEF m
  <2>2. Agrees(table[n], m, gen, n \in dump) => Agrees(table'[n], m, gen, n \in dump)
    BY <1>2
  <2> QED  BY <2>1, <2>2 DEF m
<1>6. NoLeftover'
  BY <1>2 DEF NoLeftover
<1> QED  BY <1>3, <1>4, <1>5, <1>6 DEF SInv, Typed

(* The table is left alone, and so is all that is compared with it.        *)
LEMMA Untouched ==
  ASSUME SInv,
         at' \in {"down", "recv", "handle"}, at' # "down" => at # "down",
         at' # "handle" => rest = <<>>, calm' \in BOOLEAN,
         at' # "down" => stream' = stream,
         stream' \in Seq(Seq(Sent)), Len(stream') =< MaxStream,
         unsynced' \subseteq unsynced,
         UNCHANGED <<rib, rest, localID, table, gen, dump, swept>>
  PROVE  SInv'
<1>1. RibTyped' /\ WireTyped' /\ TableTyped'
  BY DEF SInv, Typed, RibTyped, WireTyped, TableTyped
<1>2. SourceTyped'
  BY DEF SInv, Typed, SourceTyped
<1>3. Followed'
  <2> SUFFICES ASSUME at # "down", NEW n \in NLRIs
               PROVE  /\ LastWord(rest, stream, n, Meaning(rib[n], localID), localID)
                      /\ Quiet(rest, stream, n)
                           => Agrees(table[n], Meaning(rib[n], localID), gen, n \in dump)
    BY DEF Followed
  <2> QED  BY DEF SInv, Followed
<1>4. NoLeftover'
  BY DEF SInv, NoLeftover
<1> QED  BY <1>1, <1>2, <1>3, <1>4 DEF SInv, Typed

(* gobgpd has p for n, whose place in the RIB it changes to q.             *)
LEMMA Notifying ==
  ASSUME SInv, NEW p \in Sent, Notify(p),
         RibTyped',
         \A n \in NLRIs : IF Speaks(p, n) THEN Meaning(p, localID) = Meaning(rib'[n], localID)
                          ELSE rib'[n] = rib[n],
         UNCHANGED <<rest, at, localID, table, gen, unsynced, dump, swept, calm>>
  PROVE  SInv'
<1>1. TableTyped' /\ SourceTyped'
  BY DEF SInv, Typed, TableTyped, SourceTyped
<1>2. CASE at = "down"
  <2>1. WireTyped'
    BY <1>2 DEF SInv, Typed, WireTyped, Notify
  <2> QED  BY <1>1, <1>2, <2>1 DEF SInv, Typed, Followed, NoLeftover
<1>3. CASE at # "down"
  <2>1. stream' = Append(stream, <<p>>) /\ Len(stream) < MaxStream
    BY <1>3 DEF Notify
  <2>2. stream \in Seq(Seq(Sent)) /\ rest \in Seq(Sent)
    BY DEF SInv, Typed, WireTyped
  <2>3. WireTyped'
    <3>1. stream' \in Seq(Seq(Sent)) /\ Len(stream') = Len(stream) + 1 /\ Len(stream) \in Nat
      BY <2>1, <2>2
    <3>2. Len(stream') =< MaxStream
      BY <2>1, <3>1, SubscriptionAssumption
    <3> QED  BY <3>1, <3>2 DEF SInv, Typed, WireTyped
  <2>4. Followed'
    <3> SUFFICES ASSUME NEW n \in NLRIs
                 PROVE  /\ LastWord(rest, stream', n, Meaning(rib'[n], localID), localID)
                        /\ Quiet(rest, stream', n)
                             => Agrees(table[n], Meaning(rib'[n], localID), gen, n \in dump)
      BY DEF Followed
    <3> DEFINE m == Meaning(rib'[n], localID)
    <3>1. /\ Speaks(p, n) => ~Quiet(rest, stream', n)
          /\ Speaks(p, n) /\ Meaning(p, localID) = m => LastWord(rest, stream', n, m, localID)
          /\ ~Speaks(p, n) /\ Quiet(rest, stream', n) => Quiet(rest, stream, n)
          /\ ~Speaks(p, n) /\ LastWord(rest, stream, n, m, localID)
               => LastWord(rest, stream', n, m, localID)
      BY <2>1, <2>2, OnNotifying
    <3>2. CASE Speaks(p, n)
      BY <3>1, <3>2
    <3>3. CASE ~Speaks(p, n)
      <4>1. rib'[n] = rib[n]
        BY <3>3
      <4>2. /\ LastWord(rest, stream, n, m, localID)
            /\ Quiet(rest, stream, n) => Agrees(table[n], m, gen, n \in dump)
        BY <1>3, <4>1 DEF SInv, Followed
      <4> QED  BY <3>1, <3>3, <4>2
    <3> QED  BY <3>2, <3>3
  <2>5. NoLeftover'
    BY DEF SInv, NoLeftover
  <2> QED  BY <1>1, <2>3, <2>4, <2>5 DEF SInv, Typed
<1> QED  BY <1>2, <1>3

LEMMA Announcing ==
  ASSUME SInv, Gobgpd
  PROVE  SInv'
<1>1. RibTyped
  BY DEF SInv, Typed
<1>2. UNCHANGED <<rest, at, localID, table, gen, unsynced, dump, swept, calm>>
  BY DEF Gobgpd
<1>3. ASSUME NEW p \in Routes, rib' = [rib EXCEPT ![NLRI(p)] = p], Notify(p)
      PROVE  SInv'
  <2>1. NLRI(p) \in NLRIs /\ p # NoRoute
    BY RouteAssumption DEF NLRIs
  <2>2. rib'[NLRI(p)] = p /\ \A n \in NLRIs : n # NLRI(p) => rib'[n] = rib[n]
    BY <1>1, <1>3, <2>1 DEF RibTyped
  <2>3. RibTyped'
    BY <1>1, <1>3, <2>2 DEF RibTyped
  <2>4. \A n \in NLRIs : IF Speaks(p, n) THEN Meaning(p, localID) = Meaning(rib'[n], localID)
                         ELSE rib'[n] = rib[n]
    BY <2>2, RouteAssumption DEF Speaks
  <2> QED  BY <1>2, <1>3, <2>3, <2>4, SentHas, Notifying
<1>4. ASSUME NEW p \in BestPaths, rib' = [rib EXCEPT ![NLRI(p)] = NoRoute],
             Notify(Withdrawal(p))
      PROVE  SInv'
  <2> DEFINE w == Withdrawal(p)
  <2>1. NLRI(p) \in NLRIs /\ p \in Routes
    BY <1>1, BestPathIs
  <2>2. rib'[NLRI(p)] = NoRoute /\ \A n \in NLRIs : n # NLRI(p) => rib'[n] = rib[n]
    BY <1>1, <1>4, <2>1 DEF RibTyped
  <2>3. RibTyped'
    BY <1>1, <1>4, <2>2 DEF RibTyped
  <2>4. NLRI(w) = NLRI(p) /\ IsSRPolicy(w) /\ w \in Sent /\ Meaning(w, localID) = NoEntry
    BY <2>1, WithdrawalFields, SentHas, NothingMeant
  <2> HIDE DEF w
  <2>5. \A n \in NLRIs : IF Speaks(w, n) THEN Meaning(w, localID) = Meaning(rib'[n], localID)
                         ELSE rib'[n] = rib[n]
    BY <2>2, <2>4, NothingMeant DEF Speaks
  <2>6. Notify(w)
    BY <1>4 DEF w
  <2> QED  BY <1>2, <2>3, <2>4, <2>5, <2>6, Notifying
<1>5. ASSUME Notify(Foreign), UNCHANGED rib
      PROVE  SInv'
  <2>1. RibTyped'
    BY <1>1, <1>5 DEF RibTyped
  <2>2. \A n \in NLRIs : ~Speaks(Foreign, n)
    BY RouteAssumption DEF Speaks
  <2> QED  BY <1>2, <1>5, <2>1, <2>2, SentHas, Notifying
<1> QED  BY <1>3, <1>4, <1>5 DEF Gobgpd, BestPathChange

LEMMA Step ==
  ASSUME OneOfAKind, SInv, [Next]_vars
  PROVE  SInv'
<1>1. CASE Subscribe
  BY <1>1, Subscribing
<1>2. CASE Recv
  BY <1>2, Receiving
<1>3. CASE Handle
  BY <1>3, Handling
<1>4. CASE Handled
  <2>1. /\ at = "handle" /\ at' = "recv" /\ rest = <<>>
        /\ UNCHANGED <<rib, stream, rest, localID, gen, dump, calm>>
    BY <1>4 DEF Handled
  <2>2. CASE gen \in unsynced
    <3>1. Synced(gen)
      BY <1>4, <2>2 DEF Handled
    <3> QED  BY <2>1, <2>2, <3>1, Syncing
  <2>3. CASE gen \notin unsynced
    <3>1. UNCHANGED <<unsynced, table, swept>>
      BY <1>4, <2>3 DEF Handled
    <3>2. /\ stream \in Seq(Seq(Sent)) /\ Len(stream) =< MaxStream /\ calm \in BOOLEAN
      BY DEF SInv, Typed, WireTyped, SourceTyped
    <3> QED  BY <2>1, <3>1, <3>2, Untouched
  <2> QED  BY <2>2, <2>3
<1>5. ASSUME NEW g \in unsynced, Fallback(g)
      PROVE  SInv'
  <2>1. /\ Synced(g)
        /\ UNCHANGED <<rib, stream, rest, at, localID, gen, dump, calm>>
    BY <1>5 DEF Fallback
  <2>2. at \in {"down", "recv", "handle"} /\ (at # "handle" => rest = <<>>)
    BY DEF SInv, Typed, WireTyped
  <2> QED  BY <2>1, <2>2, Syncing
<1>6. CASE Break
  <2>1. /\ at = "recv" /\ at' = "down" /\ stream' = <<>>
        /\ unsynced' \subseteq unsynced
        /\ UNCHANGED <<rib, rest, localID, table, gen, dump, swept, calm>>
    BY <1>6 DEF Break
  <2>2. /\ calm \in BOOLEAN /\ rest = <<>>
    BY <2>1 DEF SInv, Typed, WireTyped, SourceTyped
  <2>3. stream' \in Seq(Seq(Sent)) /\ Len(stream') =< MaxStream
    BY <2>1, SubscriptionAssumption
  <2> QED  BY <2>1, <2>2, <2>3, Untouched
<1>7. CASE Gobgpd
  BY <1>7, Announcing
<1>8. CASE Calm
  <2>1. /\ calm' = TRUE
        /\ UNCHANGED <<rib, stream, rest, at, localID, table, gen, unsynced, dump, swept>>
    BY <1>8 DEF Calm
  <2>2. /\ at \in {"down", "recv", "handle"} /\ (at # "handle" => rest = <<>>)
        /\ stream \in Seq(Seq(Sent)) /\ Len(stream) =< MaxStream
    BY DEF SInv, Typed, WireTyped
  <2> QED  BY <2>1, <2>2, Untouched
<1>9. CASE UNCHANGED vars
  <2>1. UNCHANGED <<rib, stream, rest, at, localID, table, gen, unsynced, dump, swept, calm>>
    BY <1>9 DEF vars
  <2>2. /\ at \in {"down", "recv", "handle"} /\ (at # "handle" => rest = <<>>)
        /\ stream \in Seq(Seq(Sent)) /\ Len(stream) =< MaxStream /\ calm \in BOOLEAN
    BY DEF SInv, Typed, WireTyped, SourceTyped
  <2> QED  BY <2>1, <2>2, Untouched
<1> QED
  BY <1>1, <1>2, <1>3, <1>4, <1>5, <1>6, <1>7, <1>8, <1>9
  DEF Next, Receiver, Timer

THEOREM Invariance ==
  ASSUME OneOfAKind
  PROVE  Spec => []SInv
<1>1. Init => SInv
  BY Initially
<1>2. SInv /\ [Next]_vars => SInv'
  BY Step
<1> QED  BY <1>1, <1>2, PTL DEF Spec

-----------------------------------------------------------------------------
(* What is established.                                                    *)

(* Nothing is lost between gobgpd and the reconciler, and nothing that     *)
(* gobgpd has forgotten lives on, for any routes of one attribute of a     *)
(* kind, any number of subscriptions and any length of the stream.         *)
THEOREM FollowsTheRIB ==
  ASSUME OneOfAKind
  PROVE  Spec => []Mirror
<1>1. SInv => Mirror
  BY Mirrored
<1> QED  BY <1>1, Invariance, PTL

(* A sweep leaves a path of the dump alone once it has been handled.       *)
StaysIfDumped ==
  at = "recv" /\ UNCHANGED <<stream, gen>> =>
    \A n \in dump : On(n) = {} => table'[n] = table[n]

LEMMA SweptAside ==
  ASSUME SInv, Next
  PROVE  StaysIfDumped
<1> SUFFICES ASSUME at = "recv", NEW n \in dump, On(n) = {}
             PROVE  table'[n] = table[n]
  BY DEF StaysIfDumped
<1>1. ASSUME NEW g \in unsynced, Fallback(g)
      PROVE  table'[n] = table[n]
  <2>1. Quiet(rest, stream, n)
    BY OnIsNamed DEF Quiet, SInv
  <2>2. n \in NLRIs /\ gen \in Nat
    BY DEF SInv, Typed, SourceTyped
  <2>3. Agrees(table[n], Meaning(rib[n], localID), gen, TRUE)
    BY <2>1, <2>2, Zenon DEF SInv, Followed, Agrees
  <2>4. ~(table[n] # NoEntry /\ table[n].gen < gen)
    BY <2>2, <2>3 DEF Agrees
  <2>5. table' = SweepOld
    BY <1>1 DEF Fallback, Synced
  <2> QED  BY <2>2, <2>4, <2>5 DEF SweepOld
<1>2. CASE Subscribe \/ Recv \/ Break \/ Gobgpd \/ Calm
  BY <1>2 DEF Subscribe, Recv, Break, Gobgpd, Calm
<1>3. CASE Handle \/ Handled
  BY <1>3 DEF Handle, Handled
<1> QED  BY <1>1, <1>2, <1>3 DEF Next, Receiver, Timer

(* A late sweep, of a subscription that has ended, takes no candidate path *)
(* that this one has confirmed.                                            *)
THEOREM ConfirmedPathsStay ==
  ASSUME OneOfAKind
  PROVE  Spec => KeptIfDumped
<1>1. SInv /\ [Next]_vars => [StaysIfDumped]_vars
  BY SweptAside
<1> QED  BY <1>1, Invariance, PTL DEF Spec, KeptIfDumped, StaysIfDumped

(* Every variable has its type: what the reconciler holds is a candidate   *)
(* path that decodePath made of a route, of a generation that has begun.   *)
THEOREM SubscriptionTyped ==
  ASSUME OneOfAKind
  PROVE  Spec => []TypeOK
<1>1. SInv => TypeOK
  <2> SUFFICES ASSUME SInv
               PROVE  TypeOK
    OBVIOUS
  <2>1. ASSUME NEW n \in NLRIs, table[n] # NoEntry
        PROVE  table[n] \in Entry /\ table[n].gen =< gen
    <3>1. table[n] \in Entries(gen) /\ gen \in 0..MaxGen
      BY <2>1 DEF SInv, Typed, TableTyped, SourceTyped
    <3>2. Paths \subseteq CandidatePath
      BY WellDecoded DEF Paths
    <3> QED  BY <3>1, <3>2, SubscriptionAssumption DEF Entries, Entry
  <2>2. {swept, calm} \subseteq BOOLEAN
    BY DEF SInv, Typed, SourceTyped
  <2> QED  BY <2>1, <2>2 DEF TypeOK, SInv, Typed, RibTyped, WireTyped, SourceTyped
<1> QED  BY <1>1, Invariance, PTL

=============================================================================
