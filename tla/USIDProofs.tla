----------------------------- MODULE USIDProofs -----------------------------
(***************************************************************************)
(* What packing owes the segment list, for lists of any length, addresses  *)
(* of any length and every block that validates: an induction on what the  *)
(* loop of Compact has read.                                               *)
(***************************************************************************)
EXTENDS USIDProps, FoldProofs

-----------------------------------------------------------------------------
(* The bytes of an address.                                                *)

(* How many bytes come before the uSID after the first i.                  *)
Offset(i) == blockBytes + i * usidBytes

LEMMA SizesFit ==
  /\ addrBytes \in Nat /\ blockBytes \in Nat /\ usidBytes \in Nat \ {0}
  /\ PerCarrier \in Nat \ {0}
  /\ blockBytes + PerCarrier * usidBytes =< addrBytes
<1> DEFINE d == AddrBits - PrefixBits
<1>1. /\ AddrBits \in Nat /\ AddrBits % 8 = 0
      /\ PrefixBits \in 0..AddrBits /\ PrefixBits % 8 = 0
      /\ USIDBits \in Nat \ {0} /\ USIDBits % 8 = 0
      /\ PerCarrier >= 1
  BY USIDAssumption DEF Validate
<1>2. /\ addrBytes \in Nat /\ AddrBits = 8 * addrBytes
      /\ blockBytes \in Nat /\ PrefixBits = 8 * blockBytes
      /\ usidBytes \in Nat /\ USIDBits = 8 * usidBytes
  BY <1>1 DEF addrBytes, blockBytes, usidBytes
<1>3. d \in Nat
  BY <1>1
<1> HIDE DEF d
<1>4. (d \div USIDBits) \in Int /\ USIDBits * (d \div USIDBits) =< d
  BY <1>1, <1>3
<1>5. PerCarrier \in Int /\ USIDBits * PerCarrier =< 8 * addrBytes - 8 * blockBytes
  BY <1>2, <1>4 DEF PerCarrier, d
<1>6. 8 * (usidBytes * PerCarrier) =< 8 * addrBytes - 8 * blockBytes
  BY <1>2, <1>5
<1>7. usidBytes * PerCarrier \in Int /\ usidBytes * PerCarrier = PerCarrier * usidBytes
  BY <1>2, <1>5
<1> HIDE DEF PerCarrier
<1>8. usidBytes * PerCarrier =< addrBytes - blockBytes
  BY <1>2, <1>6, <1>7
<1> QED  BY <1>1, <1>2, <1>5, <1>7, <1>8

LEMMA Offsets ==
  /\ Offset(0) = blockBytes
  /\ \A i \in Nat : Offset(i) \in Nat /\ Offset(i + 1) = Offset(i) + usidBytes
  /\ \A i, j \in Nat : i =< j => Offset(i) =< Offset(j)
  /\ \A i \in 0..PerCarrier : Offset(i) =< addrBytes
<1>1. blockBytes \in Nat /\ usidBytes \in Nat /\ PerCarrier \in Nat
  BY SizesFit
<1>2. \A i, j \in Nat : i =< j => i * usidBytes =< j * usidBytes
  BY <1>1
<1>3. \A i \in Nat : i * usidBytes \in Nat /\ (i + 1) * usidBytes = i * usidBytes + usidBytes
  BY <1>1
<1>4. Offset(PerCarrier) =< addrBytes
  BY SizesFit DEF Offset
<1>5. \A i, j \in Nat : i =< j => Offset(i) =< Offset(j)
  BY <1>1, <1>2, <1>3 DEF Offset
<1>6. \A i \in Nat : Offset(i) \in Nat /\ Offset(i + 1) = Offset(i) + usidBytes
  BY <1>1, <1>3 DEF Offset
<1>7. \A i \in 0..PerCarrier : Offset(i) =< addrBytes
  <2> SUFFICES ASSUME NEW i \in 0..PerCarrier
               PROVE  Offset(i) =< addrBytes
    OBVIOUS
  <2>1. Offset(i) =< Offset(PerCarrier)
    BY <1>1, <1>5
  <2> QED  BY <1>1, <1>4, <1>6, <2>1, SizesFit
<1> QED  BY <1>1, <1>5, <1>6, <1>7 DEF Offset

LEMMA AddressIsSeq ==
  ASSUME NEW s \in Address
  PROVE  s \in Seq(Byte) /\ Len(s) = addrBytes
BY SizesFit DEF Address

(* A stretch of an address, byte by byte.                                  *)
LEMMA Stretch ==
  ASSUME NEW s \in Address, NEW m \in 1..(addrBytes + 1), NEW n \in 0..addrBytes
  PROVE  /\ SubSeq(s, m, n) \in Seq(Byte)
         /\ Len(SubSeq(s, m, n)) = IF m =< n THEN n - m + 1 ELSE 0
         /\ \A i \in 1..(n - m + 1) : SubSeq(s, m, n)[i] = s[m + i - 1]
<1>1. \A i \in m..n : s[i] \in Byte
  BY SizesFit DEF Address
<1>2. m \in Int /\ n \in Int
  BY SizesFit
<1> QED  BY <1>1, <1>2, SubSeqProperties

LEMMA ZeroStretch ==
  ASSUME NEW s \in Address, NEW m \in 1..(addrBytes + 1), NEW n \in 0..addrBytes
  PROVE  IsZero(SubSeq(s, m, n)) <=> \A i \in m..n : s[i] = 0
<1> DEFINE t == SubSeq(s, m, n)
           k == n - m + 1
<1>1. m \in Int /\ n \in Int
  BY SizesFit
<1>2. /\ t \in Seq(Byte)
      /\ Len(t) = IF m =< n THEN k ELSE 0
      /\ \A i \in 1..k : t[i] = s[m + i - 1]
  BY Stretch
<1> HIDE DEF t
<1>3. DOMAIN t = 1..k
  BY <1>1, <1>2
<1>4. IsZero(t) <=> \A i \in 1..k : t[i] = 0
  BY <1>3 DEF IsZero, ToSet
<1>5. ASSUME \A i \in 1..k : t[i] = 0, NEW j \in m..n
      PROVE  s[j] = 0
  <2>1. j - m + 1 \in 1..k /\ m + (j - m + 1) - 1 = j
    BY <1>1
  <2> QED  BY <1>2, <1>5, <2>1
<1>6. ASSUME \A j \in m..n : s[j] = 0, NEW i \in 1..k
      PROVE  t[i] = 0
  <2>1. m + i - 1 \in m..n
    BY <1>1
  <2> QED  BY <1>2, <1>6, <2>1
<1> QED  BY <1>4, <1>5, <1>6 DEF t

LEMMA SameStretch ==
  ASSUME NEW s \in Address, NEW r \in Address,
         NEW m \in 1..(addrBytes + 1), NEW n \in 0..addrBytes
  PROVE  SubSeq(s, m, n) = SubSeq(r, m, n) <=> \A i \in m..n : s[i] = r[i]
<1> DEFINE t == SubSeq(s, m, n)
           u == SubSeq(r, m, n)
           k == n - m + 1
<1>1. m \in Int /\ n \in Int
  BY SizesFit
<1>2. /\ t \in Seq(Byte) /\ u \in Seq(Byte)
      /\ Len(t) = IF m =< n THEN k ELSE 0
      /\ Len(u) = Len(t)
      /\ \A i \in 1..k : t[i] = s[m + i - 1] /\ u[i] = r[m + i - 1]
  BY Stretch
<1> HIDE DEF t, u
<1>3. DOMAIN t = 1..k /\ DOMAIN u = 1..k
  BY <1>1, <1>2
<1>4. t = u <=> \A i \in 1..k : t[i] = u[i]
  BY <1>2, <1>3
<1>5. ASSUME \A i \in 1..k : t[i] = u[i], NEW j \in m..n
      PROVE  s[j] = r[j]
  <2>1. j - m + 1 \in 1..k /\ m + (j - m + 1) - 1 = j
    BY <1>1
  <2> QED  BY <1>2, <1>5, <2>1
<1>6. ASSUME \A j \in m..n : s[j] = r[j], NEW i \in 1..k
      PROVE  t[i] = u[i]
  <2>1. m + i - 1 \in m..n
    BY <1>1
  <2> QED  BY <1>2, <1>6, <2>1
<1> QED  BY <1>4, <1>5, <1>6 DEF t, u

-----------------------------------------------------------------------------
(* Where an address sends a packet.                                        *)

HasBlock(s) == \A i \in 1..blockBytes : s[i] = Prefix[i]
ZeroFrom(s, n) == \A i \in (n + 1)..addrBytes : s[i] = 0
SlotUsed(s, n) == \E i \in (Offset(n - 1) + 1)..Offset(n) : s[i] # 0

(* Nothing but n uSIDs of the block.                                       *)
IsCarrier(s, n) ==
  /\ HasBlock(s)
  /\ \A k \in 1..n : SlotUsed(s, k)
  /\ ZeroFrom(s, Offset(n))

USIDsOf(s, n) == [i \in 1..n |-> Slot(s, i)]

LEMMA SlotBounds ==
  ASSUME NEW n \in 1..PerCarrier
  PROVE  /\ Offset(n - 1) + 1 \in 1..(addrBytes + 1) /\ Offset(n) \in 0..addrBytes
         /\ Offset(n) + 1 \in 1..(addrBytes + 1)
         /\ Offset(n) = Offset(n - 1) + usidBytes
         /\ Offset(n - 1) \in Nat /\ Offset(n) \in Nat
         /\ blockBytes =< Offset(n - 1)
         /\ n - 1 \in Nat /\ n \in Nat
<1>1. n \in Nat /\ n - 1 \in Nat /\ n - 1 \in 0..PerCarrier /\ n \in 0..PerCarrier
  BY SizesFit
<1>2. Offset(n - 1) \in Nat /\ Offset(n) \in Nat
  BY <1>1, Offsets
<1>3. Offset(n) = Offset(n - 1) + usidBytes
  <2>1. (n - 1) + 1 = n
    BY <1>1
  <2> QED  BY <1>1, <2>1, Offsets
<1>4. Offset(n - 1) =< addrBytes /\ Offset(n) =< addrBytes
  BY <1>1, Offsets
<1>5. blockBytes =< Offset(n - 1)
  BY <1>1, Offsets
<1> QED  BY <1>1, <1>2, <1>3, <1>4, <1>5, SizesFit

LEMMA InBlockIff ==
  ASSUME NEW s \in Address
  PROVE  InBlock(s) <=> HasBlock(s)
<1>1. Prefix \in Address
  BY USIDAssumption DEF Validate
<1>2. 1 \in 1..(addrBytes + 1) /\ blockBytes \in 0..addrBytes
  <2>1. Offset(0) \in Nat /\ Offset(0) =< addrBytes /\ Offset(0) = blockBytes
    BY SizesFit, Offsets
  <2> QED  BY <2>1, SizesFit
<1> QED  BY <1>1, <1>2, SameStretch DEF InBlock, BlockOf, HasBlock

LEMMA SlotIff ==
  ASSUME NEW s \in Address, NEW n \in 1..PerCarrier
  PROVE  /\ ~IsZero(Slot(s, n)) <=> SlotUsed(s, n)
         /\ IsZero(Padding(s, n)) <=> ZeroFrom(s, Offset(n))
         /\ Slot(s, n) \in Seq(Byte)
<1>1. /\ Slot(s, n) = SubSeq(s, Offset(n - 1) + 1, Offset(n))
      /\ Padding(s, n) = SubSeq(s, Offset(n) + 1, addrBytes)
  BY DEF Slot, Padding, Offset
<1>2. addrBytes \in 0..addrBytes
  BY SizesFit
<1>3. IsZero(Slot(s, n)) <=> \A i \in (Offset(n - 1) + 1)..Offset(n) : s[i] = 0
  BY <1>1, SlotBounds, ZeroStretch
<1>4. IsZero(Padding(s, n)) <=> \A i \in (Offset(n) + 1)..addrBytes : s[i] = 0
  BY <1>1, <1>2, SlotBounds, ZeroStretch
<1>5. Slot(s, n) \in Seq(Byte)
  BY <1>1, SlotBounds, Stretch
<1> QED  BY <1>3, <1>4, <1>5 DEF SlotUsed, ZeroFrom

(* One number of uSIDs at most fits an address.                            *)
LEMMA OneCount ==
  ASSUME NEW s \in Address, NEW n \in 1..PerCarrier, NEW m \in 1..PerCarrier,
         IsCarrier(s, n), IsCarrier(s, m)
  PROVE  n = m
<1>1. ASSUME NEW i \in 1..PerCarrier, NEW j \in 1..PerCarrier, i < j,
             IsCarrier(s, i), IsCarrier(s, j)
      PROVE  FALSE
  <2>1. i + 1 \in 1..j /\ i + 1 \in 1..PerCarrier /\ (i + 1) - 1 = i
    BY <1>1, SizesFit
  <2>2. PICK k \in (Offset(i) + 1)..Offset(i + 1) : s[k] # 0
    BY <1>1, <2>1 DEF IsCarrier, SlotUsed
  <2>3. Offset(i + 1) =< addrBytes /\ Offset(i + 1) \in Nat /\ Offset(i) \in Nat
    BY <2>1, SlotBounds
  <2>4. k \in (Offset(i) + 1)..addrBytes
    BY <2>2, <2>3, SizesFit
  <2> QED  BY <1>1, <2>2, <2>4 DEF IsCarrier, ZeroFrom
<1>2. n < m \/ m < n \/ n = m
  BY SizesFit
<1> QED  BY <1>1, <1>2

LEMMA CarrierIff ==
  ASSUME NEW s \in Address, NEW n \in 1..PerCarrier
  PROVE  IsCarrier(s, n) <=> /\ InBlock(s)
                             /\ \A k \in 1..n : ~IsZero(Slot(s, k))
                             /\ IsZero(Padding(s, n))
<1>1. \A k \in 1..n : k \in 1..PerCarrier
  BY SizesFit
<1>2. \A k \in 1..n : ~IsZero(Slot(s, k)) <=> SlotUsed(s, k)
  BY <1>1, SlotIff
<1> QED  BY <1>2, InBlockIff, SlotIff DEF IsCarrier

LEMMA WaypointsOfCarrier ==
  ASSUME NEW s \in Address, NEW n \in 1..PerCarrier, IsCarrier(s, n)
  PROVE  Waypoints(s) = USIDsOf(s, n)
<1> DEFINE Holds(k) == /\ \A i \in 1..k : ~IsZero(Slot(s, i))
                       /\ IsZero(Padding(s, k))
           H == {k \in 1..PerCarrier : Holds(k)}
<1>1. InBlock(s) /\ n \in H
  BY CarrierIff
<1>2. \A k \in H : IsCarrier(s, k)
  BY <1>1, CarrierIff
<1>3. H = {n}
  BY <1>1, <1>2, OneCount
<1>4. (CHOOSE k \in H : TRUE) = n
  BY <1>3
<1>5. Waypoints(s) = [i \in 1..(CHOOSE k \in H : TRUE) |-> Slot(s, i)]
  BY <1>1 DEF Waypoints
<1> QED  BY <1>4, <1>5 DEF USIDsOf

LEMMA WaypointsElsewhere ==
  ASSUME NEW s, ~InBlock(s)
  PROVE  Waypoints(s) = <<s>>
BY DEF Waypoints

(* What is visited is an address or the bytes of a uSID.                   *)
Waypoint == SID \cup OtherAddr \cup Seq(Byte)

LEMMA USIDsType ==
  ASSUME NEW s \in Address, NEW n \in 0..PerCarrier
  PROVE  /\ USIDsOf(s, n) \in Seq(Waypoint)
         /\ Len(USIDsOf(s, n)) = n
         /\ \A i \in 1..n : USIDsOf(s, n)[i] = Slot(s, i)
<1>1. \A i \in 1..n : i \in 1..PerCarrier
  BY SizesFit
<1>2. \A i \in 1..n : Slot(s, i) \in Waypoint
  BY <1>1, SlotIff DEF Waypoint
<1>3. n \in Nat
  BY SizesFit
<1> QED  BY <1>2, <1>3 DEF USIDsOf

LEMMA WaypointsType ==
  ASSUME NEW s \in SID \cup OtherAddr
  PROVE  Waypoints(s) \in Seq(Waypoint)
<1> DEFINE Holds(k) == /\ \A i \in 1..k : ~IsZero(Slot(s, i))
                       /\ IsZero(Padding(s, k))
           H == {k \in 1..PerCarrier : Holds(k)}
<1>1. CASE InBlock(s) /\ H # {}
  <2>1. s \in Address
    BY <1>1 DEF InBlock
  <2>2. PICK n \in 1..PerCarrier : IsCarrier(s, n)
    BY <1>1, <2>1, CarrierIff
  <2>3. n \in 0..PerCarrier
    BY SizesFit
  <2> QED  BY <2>1, <2>2, <2>3, WaypointsOfCarrier, USIDsType
<1>2. CASE ~(InBlock(s) /\ H # {})
  <2>1. Waypoints(s) = <<s>>
    BY <1>2 DEF Waypoints
  <2> QED  BY <2>1 DEF Waypoint
<1> QED  BY <1>1, <1>2

(* The route of a list grows by the way of an address.                     *)
LEMMA RouteGrows ==
  ASSUME NEW l \in Seq(SID \cup OtherAddr), NEW a \in SID \cup OtherAddr
  PROVE  /\ Route(l) \in Seq(Waypoint)
         /\ Route(Append(l, a)) = Route(l) \o Waypoints(a)
<1> DEFINE R(m) == [i \in DOMAIN m |-> Waypoints(m[i])]
           w == Waypoints(a)
           la == Append(l, a)
<1>1. \A i \in 1..Len(l) : l[i] \in SID \cup OtherAddr
  BY ElementOfSeq
<1>2. Len(l) \in Nat /\ DOMAIN l = 1..Len(l)
  OBVIOUS
<1>3. R(l) \in Seq(Seq(Waypoint)) /\ Len(R(l)) = Len(l)
  BY <1>1, <1>2, WaypointsType
<1>4. w \in Seq(Waypoint)
  BY WaypointsType
<1>5. /\ DOMAIN la = 1..(Len(l) + 1) /\ la[Len(l) + 1] = a
      /\ \A i \in 1..Len(l) : la[i] = l[i]
  BY AppendProperties
<1>6. R(la) = Append(R(l), w)
  <2> DEFINE q == R(la)
             r == Append(R(l), w)
  <2>1. /\ r \in Seq(Seq(Waypoint)) /\ Len(r) = Len(l) + 1
        /\ r[Len(l) + 1] = w /\ \A i \in 1..Len(l) : r[i] = R(l)[i]
    <3> HIDE DEF R, w
    <3> QED  BY <1>3, <1>4, AppendProperties
  <2>2. DOMAIN r = 1..(Len(l) + 1)
    BY <2>1
  <2>3. DOMAIN q = 1..(Len(l) + 1)
    BY <1>5
  <2>4. ASSUME NEW i \in 1..(Len(l) + 1)
        PROVE  q[i] = r[i]
    <3>1. CASE i = Len(l) + 1
      BY <1>5, <2>1, <3>1
    <3>2. CASE i # Len(l) + 1
      <4>1. i \in 1..Len(l)
        BY <1>2, <3>2
      <4> QED  BY <1>5, <2>1, <4>1
    <3> QED  BY <3>1, <3>2
  <2>5. \E k : r = [i \in 1..(Len(l) + 1) |-> r[i]]
    BY <2>1, <2>2
  <2> HIDE DEF q, r
  <2>6. q = [i \in 1..(Len(l) + 1) |-> q[i]]
    BY <1>5 DEF q
  <2>7. q = r
    BY <2>4, <2>5, <2>6
  <2> QED  BY <2>7 DEF q, r
<1> HIDE DEF R
<1>7. Route(l) = FlattenSeq(R(l)) /\ Route(la) = FlattenSeq(R(la))
  BY DEF Route, R
<1> HIDE DEF w, la
<1>8. FlattenSeq(R(l)) \in Seq(Waypoint)
  BY <1>3, FlattenType
<1>9. FlattenSeq(Append(R(l), w)) = FlattenSeq(R(l)) \o w
  BY <1>3, <1>4, FlattenAppend
<1> QED  BY <1>6, <1>7, <1>8, <1>9 DEF w, la

LEMMA RouteType ==
  ASSUME NEW l \in Seq(SID \cup OtherAddr)
  PROVE  Route(l) \in Seq(Waypoint)
<1>1. Prefix \in SID \cup OtherAddr
  BY USIDAssumption DEF Validate
<1> QED  BY <1>1, RouteGrows

-----------------------------------------------------------------------------
(* The carrier being filled.                                               *)

NoAddress == [i \in 1..addrBytes |-> 0]

Carrier ==
  [out : Seq(SID \cup OtherAddr), cur : Address, count : 0..(PerCarrier - 1)]

(* What is in cur is count uSIDs of the block.                             *)
Loaded(c) ==
  /\ c \in Carrier
  /\ c.count = 0 => c.cur = NoAddress
  /\ c.count # 0 => IsCarrier(c.cur, c.count)

Load(c) == USIDsOf(c.cur, c.count)

LEMMA NothingLoaded ==
  Loaded(NoUSIDs) /\ NoUSIDs.out = <<>> /\ NoUSIDs.count = 0 /\ NoUSIDs.cur = NoAddress
<1>1. NoAddress \in Address
  BY SizesFit, USIDAssumption DEF NoAddress, Address
<1>2. 0 \in 0..(PerCarrier - 1)
  BY SizesFit
<1> QED  BY <1>1, <1>2 DEF Loaded, NoUSIDs, NoAddress, Carrier

LEMMA Flushed ==
  ASSUME NEW c, Loaded(c)
  PROVE  /\ Loaded(Flush(c))
         /\ Flush(c).count = 0
         /\ Flush(c).out = IF c.count = 0 THEN c.out ELSE Append(c.out, c.cur)
         /\ Flush(c).out \in Seq(SID \cup OtherAddr)
<1>1. c \in Carrier
  BY DEF Loaded
<1>2. c.cur \in SID \cup OtherAddr /\ c.out \in Seq(SID \cup OtherAddr)
  BY <1>1, USIDAssumption DEF Carrier
<1>3. Append(c.out, c.cur) \in Seq(SID \cup OtherAddr)
  BY <1>2, AppendProperties
<1>4. CASE c.count = 0
  BY <1>2, <1>4 DEF Flush
<1>5. CASE c.count # 0
  <2>1. Flush(c) = [NoUSIDs EXCEPT !.out = Append(c.out, c.cur)]
    BY <1>5 DEF Flush
  <2>2. /\ Flush(c).out = Append(c.out, c.cur)
        /\ Flush(c).count = 0 /\ Flush(c).cur = NoAddress
        /\ Flush(c) = [out |-> Append(c.out, c.cur), cur |-> NoAddress, count |-> 0]
    BY <2>1 DEF NoUSIDs, NoAddress
  <2>3. NoAddress \in Address /\ 0 \in 0..(PerCarrier - 1)
    BY NothingLoaded DEF Loaded, Carrier
  <2>4. Flush(c) \in Carrier
    BY <1>3, <2>2, <2>3 DEF Carrier
  <2> QED  BY <1>3, <1>5, <2>2, <2>4 DEF Loaded
<1> QED  BY <1>4, <1>5

Single(a) == InBlock(a) /\ isSingleUSID(a)

LEMMA SingleIff ==
  ASSUME NEW a, Single(a)
  PROVE  /\ a \in Address
         /\ IsCarrier(a, 1)
         /\ Waypoints(a) = <<Slot(a, 1)>>
<1>1. a \in Address
  BY DEF Single, InBlock
<1>2. 1 \in 1..PerCarrier
  BY SizesFit
<1>3. Slot(a, 1) = FirstUSID(a) /\ Padding(a, 1) = AfterFirst(a)
  <2>1. (1 - 1) * usidBytes = 0 /\ 1 * usidBytes = usidBytes
    BY SizesFit
  <2>2. blockBytes + 0 + 1 = blockBytes + 1
    BY SizesFit
  <2> QED  BY <2>1, <2>2 DEF Slot, Padding, FirstUSID, AfterFirst
<1>4. \A k \in 1..1 : k = 1
  OBVIOUS
<1>5. IsCarrier(a, 1)
  BY <1>1, <1>2, <1>3, <1>4, CarrierIff DEF Single, isSingleUSID
<1>6. USIDsOf(a, 1) = <<Slot(a, 1)>>
  BY DEF USIDsOf
<1> QED  BY <1>1, <1>2, <1>5, <1>6, WaypointsOfCarrier

(* A uSID is added after those that are there.                             *)
LEMMA FilledBytes ==
  ASSUME NEW c, Loaded(c), NEW a, Single(a)
  PROVE  LET n == c.count + 1
             s == Filled(c, a).cur
         IN  /\ n \in 1..PerCarrier
             /\ Filled(c, a).count = n /\ Filled(c, a).out = c.out
             /\ s \in Address
             /\ HasBlock(s)
             /\ \A i \in (Offset(n - 1) + 1)..Offset(n) : s[i] = a[i - Offset(n - 1) + blockBytes]
             /\ c.count # 0 => \A i \in 1..Offset(n - 1) : s[i] = c.cur[i]
             /\ ZeroFrom(s, Offset(n))
<1> DEFINE n == c.count + 1
           s == Filled(c, a).cur
           pos == blockBytes + c.count * usidBytes
<1>1. c.count \in 0..(PerCarrier - 1) /\ c.cur \in Address /\ c \in Carrier
  BY DEF Loaded, Carrier
<1>2. n \in 1..PerCarrier /\ n - 1 = c.count /\ n - 1 \in 0..PerCarrier
  BY <1>1, SizesFit
<1>3. pos = Offset(n - 1)
  BY <1>2 DEF Offset
<1>4. pos \in Nat /\ Offset(n) = pos + usidBytes /\ pos + usidBytes =< addrBytes /\ blockBytes =< pos
  BY <1>2, <1>3, SlotBounds
<1>5. /\ Filled(c, a).count = n /\ Filled(c, a).out = c.out
      /\ s = [i \in 1..addrBytes |->
                IF i \in pos + 1..pos + usidBytes
                THEN a[i - c.count * usidBytes]
                ELSE IF c.count = 0 /\ i =< blockBytes THEN Prefix[i] ELSE c.cur[i]]
  BY <1>1 DEF Filled, Carrier
<1>6. a \in Address /\ Prefix \in Address
  BY SingleIff, USIDAssumption DEF Validate
<1>7. c.count * usidBytes \in Nat
  BY <1>1, SizesFit
<1>8. \A i \in 1..addrBytes : i \in pos + 1..pos + usidBytes => i - c.count * usidBytes \in 1..addrBytes
  BY <1>4, <1>7, SizesFit
<1>9. s \in Address
  <2>1. \A i \in 1..addrBytes : c.cur[i] \in Byte /\ Prefix[i] \in Byte /\ a[i] \in Byte
    BY <1>1, <1>6 DEF Address
  <2> QED  BY <1>5, <1>8, <2>1 DEF Address
<1>10. ASSUME NEW i \in (Offset(n - 1) + 1)..Offset(n)
       PROVE  s[i] = a[i - Offset(n - 1) + blockBytes]
  <2>1. i \in pos + 1..pos + usidBytes /\ i \in 1..addrBytes
    BY <1>3, <1>4, SizesFit
  <2>2. i - c.count * usidBytes = i - Offset(n - 1) + blockBytes
    BY <1>3, <1>4, <1>7, <2>1, SizesFit
  <2> QED  BY <1>5, <2>1, <2>2
<1>11. ASSUME c.count # 0, NEW i \in 1..Offset(n - 1)
       PROVE  s[i] = c.cur[i]
  <2>1. i \notin pos + 1..pos + usidBytes /\ i \in 1..addrBytes
    BY <1>3, <1>4, SizesFit
  <2> QED  BY <1>5, <1>11, <2>1
<1>12. HasBlock(s)
  <2> SUFFICES ASSUME NEW i \in 1..blockBytes
               PROVE  s[i] = Prefix[i]
    BY DEF HasBlock
  <2>1. i \notin pos + 1..pos + usidBytes /\ i \in 1..addrBytes /\ i =< blockBytes /\ i =< pos
    BY <1>4, SizesFit
  <2>2. CASE c.count = 0
    BY <1>5, <2>1, <2>2
  <2>3. CASE c.count # 0
    <3>1. s[i] = c.cur[i]
      BY <1>5, <2>1, <2>3
    <3>2. HasBlock(c.cur)
      BY <2>3 DEF Loaded, IsCarrier
    <3> QED  BY <3>1, <3>2 DEF HasBlock
  <2> QED  BY <2>2, <2>3
<1>13. ZeroFrom(s, Offset(n))
  <2> SUFFICES ASSUME NEW i \in (Offset(n) + 1)..addrBytes
               PROVE  s[i] = 0
    BY DEF ZeroFrom
  <2>1. i \notin pos + 1..pos + usidBytes /\ i \in 1..addrBytes /\ ~(i =< blockBytes)
    BY <1>4, SizesFit
  <2>2. s[i] = c.cur[i]
    BY <1>5, <2>1
  <2>3. CASE c.count = 0
    <3>1. c.cur = NoAddress
      BY <2>3 DEF Loaded
    <3> QED  BY <2>1, <2>2, <3>1 DEF NoAddress
  <2>4. CASE c.count # 0
    <3>1. ZeroFrom(c.cur, Offset(n - 1))
      BY <1>2, <2>4 DEF Loaded, IsCarrier
    <3>2. i \in (Offset(n - 1) + 1)..addrBytes
      BY <1>3, <1>4, SizesFit
    <3> QED  BY <2>2, <3>1, <3>2 DEF ZeroFrom
  <2> QED  BY <2>3, <2>4
<1> QED  BY <1>2, <1>5, <1>9, <1>10, <1>11, <1>12, <1>13

LEMMA FilledCarrier ==
  ASSUME NEW c, Loaded(c), NEW a, Single(a)
  PROVE  LET n == c.count + 1
             s == Filled(c, a).cur
         IN  /\ n \in 1..PerCarrier
             /\ Filled(c, a).count = n /\ Filled(c, a).out = c.out
             /\ s \in Address
             /\ IsCarrier(s, n)
             /\ USIDsOf(s, n) = Load(c) \o Waypoints(a)
<1> DEFINE n == c.count + 1
           s == Filled(c, a).cur
           k == n - 1
<1>1. /\ n \in 1..PerCarrier
      /\ Filled(c, a).count = n /\ Filled(c, a).out = c.out
      /\ s \in Address
      /\ HasBlock(s)
      /\ \A i \in (Offset(k) + 1)..Offset(n) : s[i] = a[i - Offset(k) + blockBytes]
      /\ c.count # 0 => \A i \in 1..Offset(k) : s[i] = c.cur[i]
      /\ ZeroFrom(s, Offset(n))
  BY FilledBytes
<1>2. c.count \in Nat /\ c.cur \in Address /\ k = c.count /\ c.count \in 0..PerCarrier
  BY SizesFit DEF Loaded, Carrier
<1> HIDE DEF s
<1>3. /\ Offset(n) = Offset(k) + usidBytes
      /\ Offset(k) \in Nat /\ Offset(k) =< addrBytes
      /\ Offset(n) \in Nat /\ Offset(n) =< addrBytes
      /\ Offset(0) = blockBytes /\ Offset(1) = blockBytes + usidBytes
  <2>1. Offset(0) = blockBytes /\ Offset(0 + 1) = Offset(0) + usidBytes
    BY Offsets
  <2> QED  BY <1>1, <2>1, SlotBounds, SizesFit
<1>4. a \in Address /\ IsCarrier(a, 1) /\ Waypoints(a) = <<Slot(a, 1)>>
  BY SingleIff
<1>5. SlotUsed(s, n)
  <2>1. PICK j \in (Offset(0) + 1)..Offset(1) : a[j] # 0
    <3>1. SlotUsed(a, 1)
      BY <1>4 DEF IsCarrier
    <3>2. 1 - 1 = 0
      OBVIOUS
    <3> QED  BY <3>1, <3>2 DEF SlotUsed
  <2> DEFINE i == j - blockBytes + Offset(k)
  <2>2. i \in (Offset(k) + 1)..Offset(n) /\ i - Offset(k) + blockBytes = j
    BY <1>3, <2>1, SizesFit
  <2> HIDE DEF i
  <2>3. s[i] = a[j]
    BY <1>1, <2>2
  <2> QED  BY <2>1, <2>2, <2>3 DEF SlotUsed
<1>6. ASSUME NEW m \in 1..c.count
      PROVE  SlotUsed(s, m) /\ Slot(s, m) = Slot(c.cur, m)
  <2>1. m \in 1..PerCarrier /\ c.count # 0
    BY <1>1, <1>2, SizesFit
  <2>2. Offset(m) =< Offset(k)
    BY <1>2, Offsets
  <2>3. \A i \in (Offset(m - 1) + 1)..Offset(m) : i \in 1..Offset(k)
    BY <1>3, <2>1, <2>2, SlotBounds
  <2>4. \A i \in (Offset(m - 1) + 1)..Offset(m) : s[i] = c.cur[i]
    BY <1>1, <2>1, <2>3
  <2>5. SlotUsed(c.cur, m)
    BY <2>1 DEF Loaded, IsCarrier
  <2>6. SlotUsed(s, m)
    BY <2>4, <2>5 DEF SlotUsed
  <2>7. Slot(s, m) = SubSeq(s, Offset(m - 1) + 1, Offset(m)) /\ Slot(c.cur, m) = SubSeq(c.cur, Offset(m - 1) + 1, Offset(m))
    BY DEF Slot, Offset
  <2>8. Slot(s, m) = Slot(c.cur, m)
    BY <1>1, <1>2, <2>1, <2>4, <2>7, SameStretch, SlotBounds
  <2> QED  BY <2>6, <2>8
<1>7. IsCarrier(s, n)
  <2>1. \A m \in 1..n : SlotUsed(s, m)
    <3>1. \A m \in 1..n : m = n \/ m \in 1..c.count
      BY <1>2
    <3> QED  BY <1>5, <1>6, <3>1
  <2> QED  BY <1>1, <2>1 DEF IsCarrier
<1>8. Slot(s, n) = Slot(a, 1)
  <2> DEFINE t == Slot(s, n)
             u == Slot(a, 1)
  <2>1. t = SubSeq(s, Offset(k) + 1, Offset(n)) /\ u = SubSeq(a, Offset(0) + 1, Offset(1))
    <3>1. 1 - 1 = 0
      OBVIOUS
    <3> QED  BY <3>1 DEF Slot, Offset
  <2>2. /\ Offset(k) + 1 \in 1..(addrBytes + 1) /\ Offset(n) \in 0..addrBytes
        /\ Offset(0) + 1 \in 1..(addrBytes + 1) /\ Offset(1) \in 0..addrBytes
        /\ Offset(n) - (Offset(k) + 1) + 1 = usidBytes
        /\ Offset(1) - (Offset(0) + 1) + 1 = usidBytes
        /\ Offset(k) + 1 =< Offset(n) /\ Offset(0) + 1 =< Offset(1)
    <3>1. 1 \in 1..PerCarrier /\ 1 - 1 = 0
      BY SizesFit
    <3>2. Offset(1) \in 0..addrBytes /\ Offset(0) + 1 \in 1..(addrBytes + 1)
      BY <3>1, SlotBounds
    <3> QED  BY <1>3, <3>2, SizesFit
  <2> HIDE DEF t, u, n, k
  <2>3. /\ t \in Seq(Byte) /\ Len(t) = usidBytes
        /\ \A i \in 1..usidBytes : t[i] = s[Offset(k) + 1 + i - 1]
    BY <1>1, <2>1, <2>2, Stretch
  <2>4. /\ u \in Seq(Byte) /\ Len(u) = usidBytes
        /\ \A i \in 1..usidBytes : u[i] = a[Offset(0) + 1 + i - 1]
    BY <1>4, <2>1, <2>2, Stretch
  <2>5. ASSUME NEW i \in 1..usidBytes
        PROVE  t[i] = u[i]
    <3> DEFINE j == Offset(k) + i
    <3>1. /\ j \in (Offset(k) + 1)..Offset(n)
          /\ Offset(k) + 1 + i - 1 = j
          /\ Offset(0) + 1 + i - 1 = j - Offset(k) + blockBytes
      BY <1>3, SizesFit
    <3> HIDE DEF j
    <3>2. s[j] = a[j - Offset(k) + blockBytes]
      BY <1>1, <3>1
    <3> QED  BY <2>3, <2>4, <3>1, <3>2
  <2>6. t = u
    BY <2>3, <2>4, <2>5
  <2> QED  BY <2>6 DEF t, u
<1>9. USIDsOf(s, n) = Load(c) \o Waypoints(a)
  <2> DEFINE p == USIDsOf(s, n)
             q == USIDsOf(c.cur, c.count)
  <2>1. n \in 0..PerCarrier /\ n = c.count + 1
    BY <1>1, SizesFit
  <2>2. /\ p \in Seq(Waypoint) /\ Len(p) = n
        /\ \A i \in 1..n : p[i] = Slot(s, i)
    BY <1>1, <2>1, USIDsType
  <2>3. /\ q \in Seq(Waypoint) /\ Len(q) = c.count
        /\ \A i \in 1..c.count : q[i] = Slot(c.cur, i)
    BY <1>2, USIDsType
  <2> DEFINE w == Slot(a, 1)
  <2>4. w \in Waypoint
    <3>1. 1 \in 1..PerCarrier
      BY SizesFit
    <3> QED  BY <1>4, <3>1, SlotIff DEF Waypoint
  <2> HIDE DEF p, q, w, n
  <2>5. /\ Append(q, w) \in Seq(Waypoint) /\ Len(Append(q, w)) = c.count + 1
        /\ \A i \in 1..c.count : Append(q, w)[i] = q[i]
        /\ Append(q, w)[c.count + 1] = w
    BY <2>3, <2>4, AppendProperties
  <2>6. ASSUME NEW i \in 1..n
        PROVE  p[i] = Append(q, w)[i]
    <3>1. CASE i = n
      BY <1>8, <2>1, <2>2, <2>5, <3>1 DEF w
    <3>2. CASE i # n
      <4>1. i \in 1..c.count
        BY <1>2, <2>1, <3>2
      <4> QED  BY <1>6, <2>2, <2>3, <2>5, <4>1
    <3> QED  BY <3>1, <3>2
  <2>7. p = Append(q, w)
    <3> DEFINE r == Append(q, w)
    <3> HIDE DEF r
    <3>1. r \in Seq(Waypoint) /\ Len(r) = n /\ \A i \in 1..n : p[i] = r[i]
      BY <2>1, <2>5, <2>6 DEF r
    <3>2. p = r
      BY <2>2, <3>1
    <3> QED  BY <3>2 DEF r
  <2>8. Append(q, w) = q \o <<w>>
    BY <2>3, <2>4, AppendIsConcat
  <2> QED  BY <1>4, <2>7, <2>8 DEF p, q, w, Load
<1> QED  BY <1>1, <1>7, <1>9 DEF s

-----------------------------------------------------------------------------
(* One turn of the loop.                                                   *)

(* The route of what is done and of what is being filled.                  *)
RouteSoFar(c) == Route(c.out) \o Load(c)

LEMMA LoadType ==
  ASSUME NEW c, Loaded(c)
  PROVE  /\ Load(c) \in Seq(Waypoint)
         /\ c.count = 0 => Load(c) = <<>>
         /\ c.count # 0 => Load(c) = Waypoints(c.cur) /\ c.count \in 1..PerCarrier
<1>1. c.cur \in Address /\ c.count \in 0..PerCarrier /\ c.count \in Nat
  BY SizesFit DEF Loaded, Carrier
<1>2. Load(c) \in Seq(Waypoint)
  BY <1>1, USIDsType DEF Load
<1>3. ASSUME c.count = 0
      PROVE  Load(c) = <<>>
  BY <1>3 DEF Load, USIDsOf
<1>4. ASSUME c.count # 0
      PROVE  Load(c) = Waypoints(c.cur) /\ c.count \in 1..PerCarrier
  <2>1. c.count \in 1..PerCarrier
    BY <1>1, <1>4
  <2> QED  BY <1>1, <1>4, <2>1, WaypointsOfCarrier DEF Loaded, Load
<1> QED  BY <1>2, <1>3, <1>4

LEMMA FlushedRoute ==
  ASSUME NEW c, Loaded(c)
  PROVE  Route(Flush(c).out) = RouteSoFar(c)
<1>1. c.out \in Seq(SID \cup OtherAddr) /\ c.cur \in SID \cup OtherAddr
  BY USIDAssumption DEF Loaded, Carrier
<1>2. Route(c.out) \in Seq(Waypoint) /\ Route(Append(c.out, c.cur)) = Route(c.out) \o Waypoints(c.cur)
  BY <1>1, RouteGrows
<1>3. CASE c.count = 0
  <2>1. Route(c.out) \o <<>> = Route(c.out)
    BY <1>2, ConcatEmptySeq
  <2> QED  BY <1>3, <2>1, Flushed, LoadType DEF RouteSoFar
<1>4. CASE c.count # 0
  BY <1>2, <1>4, Flushed, LoadType DEF RouteSoFar
<1> QED  BY <1>3, <1>4

(* What Pack does to a carrier.                                            *)
LEMMA PackedAround ==
  ASSUME NEW c, Loaded(c), NEW a \in SID \cup OtherAddr, ~Single(a)
  PROVE  /\ Loaded(Pack(c, a))
         /\ Pack(c, a).count = 0
         /\ Pack(c, a).out = Append(Flush(c).out, a)
<1> DEFINE f == Flush(c)
<1>1. Pack(c, a) = [f EXCEPT !.out = Append(f.out, a)]
  BY DEF Pack, Single
<1>2. /\ Loaded(f) /\ f.count = 0 /\ f.out \in Seq(SID \cup OtherAddr)
      /\ f \in Carrier /\ f.cur = NoAddress
  BY Flushed DEF Loaded
<1>3. Append(f.out, a) \in Seq(SID \cup OtherAddr)
  BY <1>2, AppendProperties
<1> HIDE DEF f
<1>4. /\ Pack(c, a) \in Carrier /\ Pack(c, a).count = 0 /\ Pack(c, a).cur = NoAddress
      /\ Pack(c, a).out = Append(f.out, a)
  BY <1>1, <1>2, <1>3 DEF Carrier
<1> QED  BY <1>4 DEF Loaded, f

LEMMA PackedIn ==
  ASSUME NEW c, Loaded(c), NEW a, Single(a)
  PROVE  /\ Loaded(Pack(c, a))
         /\ c.count + 1 # PerCarrier =>
              /\ Pack(c, a).count = c.count + 1
              /\ Pack(c, a).out = c.out
              /\ RouteSoFar(Pack(c, a)) = RouteSoFar(c) \o Waypoints(a)
         /\ c.count + 1 = PerCarrier =>
              /\ Pack(c, a).count = 0
              /\ \E s \in SID : Pack(c, a).out = Append(c.out, s)
              /\ RouteSoFar(Pack(c, a)) = RouteSoFar(c) \o Waypoints(a)
<1> DEFINE n == c.count + 1
           d == Filled(c, a)
           s == d.cur
<1>1. /\ n \in 1..PerCarrier
      /\ d.count = n /\ d.out = c.out
      /\ s \in Address
      /\ IsCarrier(s, n)
      /\ USIDsOf(s, n) = Load(c) \o Waypoints(a)
  BY FilledCarrier
<1>2. /\ c.count \in 0..(PerCarrier - 1) /\ c.out \in Seq(SID \cup OtherAddr) /\ c \in Carrier
  BY DEF Loaded, Carrier
<1>3. Pack(c, a) = IF n = PerCarrier THEN Flush(d) ELSE d
  BY DEF Pack, Single
<1>4. d = [out |-> c.out, cur |-> s, count |-> n]
  <2>1. PICK x : d = [c EXCEPT !.count = n, !.cur = x]
    BY DEF Filled
  <2>3. [c EXCEPT !.count = n, !.cur = x] = [out |-> c.out, cur |-> x, count |-> n]
    <3> HIDE DEF n
    <3> DEFINE y == [c EXCEPT !.count = n]
    <3>1. y = [out |-> c.out, cur |-> c.cur, count |-> n]
      BY <1>2 DEF Carrier
    <3> HIDE DEF y
    <3>2. [y EXCEPT !.cur = x] = [out |-> c.out, cur |-> x, count |-> n]
      BY <3>1
    <3> QED  BY <3>2 DEF y
  <2> HIDE DEF d
  <2> QED  BY <2>1, <2>3
<1>5. Route(c.out) \in Seq(Waypoint) /\ Load(c) \in Seq(Waypoint) /\ Waypoints(a) \in Seq(Waypoint)
  <2>1. a \in SID \cup OtherAddr
    BY SingleIff, USIDAssumption
  <2> QED  BY <1>2, <2>1, RouteGrows, LoadType, WaypointsType
<1>6. Route(c.out) \o (Load(c) \o Waypoints(a)) = RouteSoFar(c) \o Waypoints(a)
  BY <1>5, ConcatAssociative DEF RouteSoFar
<1> HIDE DEF d
<1>7. CASE n # PerCarrier
  <2>1. n \in 0..(PerCarrier - 1) /\ n # 0
    BY <1>1, <1>7, SizesFit
  <2>2. Loaded(d)
    <3>1. d \in Carrier
      BY <1>1, <1>2, <1>4, <2>1 DEF Carrier
    <3> QED  BY <1>1, <2>1, <3>1 DEF Loaded
  <2>3. RouteSoFar(d) = Route(c.out) \o (Load(c) \o Waypoints(a))
    BY <1>1 DEF RouteSoFar, Load
  <2> QED  BY <1>1, <1>3, <1>6, <1>7, <2>2, <2>3
<1>8. CASE n = PerCarrier
  <2>1. Flush(d) = [out |-> Append(c.out, s), cur |-> NoAddress, count |-> 0]
    <3>1. d.count # 0
      BY <1>1
    <3>2. Flush(d) = [NoUSIDs EXCEPT !.out = Append(d.out, d.cur)]
      BY <3>1 DEF Flush
    <3> QED  BY <1>1, <3>2 DEF NoUSIDs, NoAddress
  <2>2. s \in SID
    BY <1>1, USIDAssumption
  <2>3. Append(c.out, s) \in Seq(SID \cup OtherAddr)
    BY <1>2, <2>2, AppendProperties
  <2>4. Flush(d) \in Carrier
    BY <2>1, <2>3, NothingLoaded DEF Carrier, Loaded
  <2>5. Loaded(Flush(d))
    BY <2>1, <2>4 DEF Loaded
  <2>6. Waypoints(s) = Load(c) \o Waypoints(a)
    BY <1>1, WaypointsOfCarrier
  <2>7. Route(Append(c.out, s)) = Route(c.out) \o (Load(c) \o Waypoints(a))
    BY <1>2, <2>2, <2>6, RouteGrows
  <2>8. RouteSoFar(Flush(d)) = Route(c.out) \o (Load(c) \o Waypoints(a))
    <3>1. Load(Flush(d)) = <<>>
      BY <2>1, <2>5, LoadType
    <3>2. Route(Append(c.out, s)) \in Seq(Waypoint)
      BY <2>3, RouteType
    <3>3. Route(Append(c.out, s)) \o <<>> = Route(Append(c.out, s))
      BY <3>2, ConcatEmptySeq
    <3> QED  BY <2>1, <2>7, <3>1, <3>3 DEF RouteSoFar
  <2>9. Pack(c, a) = Flush(d)
    BY <1>3, <1>8
  <2>10. Pack(c, a).count = 0 /\ Pack(c, a).out = Append(c.out, s)
    BY <2>1, <2>9
  <2>11. \E x \in SID : Pack(c, a).out = Append(c.out, x)
    BY <2>2, <2>10
  <2> QED  BY <1>6, <1>8, <2>5, <2>8, <2>9, <2>10, <2>11
<1> QED  BY <1>7, <1>8

(* The route of what has been read grows by the way of the address.        *)
LEMMA PackRoute ==
  ASSUME NEW c, Loaded(c), NEW a \in SID \cup OtherAddr
  PROVE  Loaded(Pack(c, a)) /\ RouteSoFar(Pack(c, a)) = RouteSoFar(c) \o Waypoints(a)
<1>1. CASE Single(a)
  BY <1>1, PackedIn
<1>2. CASE ~Single(a)
  <2> DEFINE o == Flush(c).out
             p == Pack(c, a)
  <2>1. Loaded(p) /\ p.count = 0 /\ p.out = Append(o, a)
    BY <1>2, PackedAround
  <2>2. o \in Seq(SID \cup OtherAddr)
    BY Flushed
  <2> HIDE DEF o, p
  <2>3. Route(p.out) = Route(o) \o Waypoints(a) /\ Route(p.out) \in Seq(Waypoint)
    <3>1. p.out \in Seq(SID \cup OtherAddr)
      BY <2>1 DEF Loaded, Carrier
    <3> QED  BY <2>1, <2>2, <3>1, RouteGrows
  <2>4. RouteSoFar(p) = Route(p.out)
    <3>1. Load(p) = <<>>
      BY <2>1, LoadType
    <3> QED  BY <2>3, <3>1, ConcatEmptySeq DEF RouteSoFar
  <2>5. Route(o) = RouteSoFar(c)
    BY FlushedRoute DEF o
  <2> QED  BY <2>1, <2>3, <2>4, <2>5 DEF p
<1> QED  BY <1>1, <1>2

-----------------------------------------------------------------------------
(* The loop, turn by turn.                                                 *)

(* g holds the carriers of Compact before the first turn and after each.   *)
Turns(g, l) ==
  /\ g[0] = NoUSIDs
  /\ \A i \in 1..Len(l) : g[i] = Pack(g[i - 1], l[i])

LEMMA CompactTurns ==
  ASSUME NEW l \in Seq(SID \cup OtherAddr)
  PROVE  \E g \in [0..Len(l) -> {c \in Carrier : Loaded(c)}] :
            Turns(g, l) /\ Compact(l) = Flush(g[Len(l)]).out
<1> DEFINE n == Len(l)
           V == {c \in Carrier : Loaded(c)}
           G == [x \in V \X (1..n) |-> Pack(x[1], l[x[2]])]
           F(it) == [S \in SUBSET (1..n) |->
                       IF S = {} THEN NoUSIDs ELSE Pack(it[S \ {Max(S)}], l[Max(S)])]
           chosen == CHOOSE it : it = F(it)
<1>1. n \in Nat /\ DOMAIN l = 1..n /\ \A i \in 1..n : l[i] \in SID \cup OtherAddr
  BY ElementOfSeq
<1>2. NoUSIDs \in V
  BY NothingLoaded DEF Loaded
<1>3. \A c \in V, a \in SID \cup OtherAddr : Pack(c, a) \in V
  BY PackRoute DEF Loaded
<1> HIDE DEF V
<1>4. G \in [V \X (1..n) -> V]
  BY <1>1, <1>3
<1>5. FoldLeft(Pack, NoUSIDs, l) = chosen[1..n]
  BY <1>1 DEF FoldLeft, MapThenFoldSet
<1> HIDE DEF n
<1>6. \A S \in SUBSET (1..n) : S # {} => Max(S) \in 1..n
  BY <1>1, MaxOfInterval
<1>7. \E it : it = F(it)
  <2>1. PICK f \in [SUBSET (1..n) -> V] : Folds(f, n, NoUSIDs, G)
    <3> HIDE DEF G
    <3> QED  BY <1>1, <1>2, <1>4, FoldExists
  <2>2. \A S \in SUBSET (1..n) : S # {} =>
          G[<<f[S \ {Max(S)}], Max(S)>>] = Pack(f[S \ {Max(S)}], l[Max(S)])
    BY <1>6
  <2>3. f = F(f)
    BY <2>1, <2>2 DEF Folds
  <2> QED  BY <2>3
<1>8. chosen = F(chosen)
  <2> HIDE DEF F
  <2> QED  BY <1>7
<1> HIDE DEF chosen
<1>9. Follows(chosen, n, V, NoUSIDs, G)
  BY <1>6, <1>8 DEF Follows
<1>10. \A v \in V, i \in 1..n : G[<<v, i>>] = Pack(v, l[i])
  OBVIOUS
<1> HIDE DEF G
<1>u. Unfolds(chosen, n, V, NoUSIDs, G)
  BY <1>1, <1>2, <1>4, <1>9, FoldSteps
<1>11. PICK g \in [0..n -> V] : Steps(g, n, NoUSIDs, G) /\ chosen[1..n] = g[n]
  BY <1>u DEF Unfolds
<1>12. \A i \in 1..n : g[i] = Pack(g[i - 1], l[i])
  <2>1. \A i \in 1..n : g[i - 1] \in V
    BY <1>1
  <2> QED  BY <1>10, <1>11, <2>1 DEF Steps
<1>13. Turns(g, l) /\ Compact(l) = Flush(g[n]).out
  BY <1>5, <1>11, <1>12 DEF Steps, Turns, Compact, n
<1> QED  BY <1>13 DEF n, V

-----------------------------------------------------------------------------
(* What one turn adds.                                                     *)

Size(c) == Len(c.out) + (IF c.count = 0 THEN 0 ELSE 1)
AllSIDs(s) == \A i \in 1..Len(s) : s[i] \in SID

LEMMA SizeIs ==
  ASSUME NEW c, Len(c.out) \in Nat
  PROVE  Size(c) = IF c.count # 0 THEN Len(c.out) + 1 ELSE Len(c.out)
<1>1. CASE c.count = 0
  BY <1>1 DEF Size
<1>2. CASE c.count # 0
  BY <1>2 DEF Size
<1> QED  BY <1>1, <1>2

LEMMA AppendSIDs ==
  ASSUME NEW s \in Seq(SID \cup OtherAddr), NEW a \in SID \cup OtherAddr
  PROVE  /\ Append(s, a) \in Seq(SID \cup OtherAddr)
         /\ Len(Append(s, a)) = Len(s) + 1
         /\ AllSIDs(Append(s, a)) <=> AllSIDs(s) /\ a \in SID
<1>1. /\ Append(s, a) \in Seq(SID \cup OtherAddr)
      /\ Len(Append(s, a)) = Len(s) + 1 /\ Len(s) \in Nat
      /\ \A i \in 1..Len(s) : Append(s, a)[i] = s[i]
      /\ Append(s, a)[Len(s) + 1] = a
  BY AppendProperties
<1> DEFINE t == Append(s, a)
<1> HIDE DEF t
<1>2. \A i \in 1..Len(t) : i \in 1..Len(s) \/ i = Len(s) + 1
  BY <1>1 DEF t
<1>3. Len(s) + 1 \in 1..Len(t) /\ \A i \in 1..Len(s) : i \in 1..Len(t)
  BY <1>1 DEF t
<1>4. (\A i \in 1..Len(t) : t[i] \in SID) <=> (\A i \in 1..Len(s) : s[i] \in SID) /\ a \in SID
  BY <1>1, <1>2, <1>3 DEF t
<1> QED  BY <1>1, <1>4 DEF AllSIDs, t

LEMMA FlushedSize ==
  ASSUME NEW c, Loaded(c)
  PROVE  /\ Flush(c).out \in Seq(SID \cup OtherAddr)
         /\ Len(Flush(c).out) = Size(c)
         /\ AllSIDs(Flush(c).out) <=> AllSIDs(c.out)
<1>1. c.out \in Seq(SID \cup OtherAddr) /\ c.cur \in SID
  BY USIDAssumption DEF Loaded, Carrier
<1>2. c.cur \in SID \cup OtherAddr
  BY <1>1
<1>3. CASE c.count = 0
  BY <1>1, <1>3, Flushed DEF Size
<1>4. CASE c.count # 0
  <2>1. Flush(c).out = Append(c.out, c.cur)
    BY <1>4, Flushed
  <2>2. /\ Append(c.out, c.cur) \in Seq(SID \cup OtherAddr)
        /\ Len(Append(c.out, c.cur)) = Len(c.out) + 1
        /\ AllSIDs(Append(c.out, c.cur)) <=> AllSIDs(c.out)
    BY <1>1, <1>2, AppendSIDs
  <2>3. Size(c) = Len(c.out) + 1
    BY <1>4 DEF Size
  <2> QED  BY <2>1, <2>2, <2>3
<1> QED  BY <1>3, <1>4

LEMMA TurnSize ==
  ASSUME NEW c, Loaded(c), NEW a \in SID \cup OtherAddr
  PROVE  LET p == Pack(c, a)
         IN  /\ Loaded(p)
             /\ p.count = IF Single(a) /\ c.count + 1 # PerCarrier THEN c.count + 1 ELSE 0
             /\ Size(p) = IF Single(a) /\ c.count # 0 THEN Size(c) ELSE Size(c) + 1
             /\ AllSIDs(p.out) <=> AllSIDs(c.out) /\ a \in SID
<1> DEFINE p == Pack(c, a)
<1>1. /\ c.out \in Seq(SID \cup OtherAddr) /\ Len(c.out) \in Nat
      /\ c.count \in Nat /\ c.count =< PerCarrier - 1
  BY SizesFit DEF Loaded, Carrier
<1>2. CASE Single(a) /\ c.count + 1 # PerCarrier
  <2>1. p.count = c.count + 1 /\ p.out = c.out /\ Loaded(p)
    BY <1>2, PackedIn
  <2>2. a \in SID
    BY <1>2, SingleIff, USIDAssumption
  <2>3. Size(p) = IF c.count # 0 THEN Size(c) ELSE Size(c) + 1
    <3>1. p.count # 0
      BY <1>1, <2>1
    <3>2. Size(p) = Len(c.out) + 1
      BY <2>1, <3>1 DEF Size
    <3>3. Size(c) = IF c.count # 0 THEN Len(c.out) + 1 ELSE Len(c.out)
      BY <1>1, SizeIs
    <3> QED  BY <1>1, <3>2, <3>3
  <2> HIDE DEF p
  <2> QED  BY <1>2, <2>1, <2>2, <2>3 DEF p
<1>3. CASE Single(a) /\ c.count + 1 = PerCarrier
  <2>1. p.count = 0 /\ Loaded(p)
    BY <1>3, PackedIn
  <2>2. PICK s \in SID : p.out = Append(c.out, s)
    BY <1>3, PackedIn
  <2>3. a \in SID
    BY <1>3, SingleIff, USIDAssumption
  <2>4. s \in SID \cup OtherAddr
    OBVIOUS
  <2>5. Len(p.out) = Len(c.out) + 1 /\ (AllSIDs(p.out) <=> AllSIDs(c.out))
    BY <1>1, <2>2, <2>4, AppendSIDs
  <2> HIDE DEF p
  <2>6. Size(p) = IF c.count # 0 THEN Size(c) ELSE Size(c) + 1
    <3>1. Size(p) = Len(c.out) + 1
      BY <1>1, <2>1, <2>5 DEF Size
    <3>2. Size(c) = IF c.count # 0 THEN Len(c.out) + 1 ELSE Len(c.out)
      BY <1>1, SizeIs
    <3> QED  BY <1>1, <3>1, <3>2
  <2> QED  BY <1>3, <2>1, <2>3, <2>5, <2>6 DEF p
<1>4. CASE ~Single(a)
  <2> DEFINE o == Flush(c).out
  <2>1. Loaded(p) /\ p.count = 0 /\ p.out = Append(o, a)
    BY <1>4, PackedAround
  <2>2. o \in Seq(SID \cup OtherAddr) /\ Len(o) = Size(c) /\ (AllSIDs(o) <=> AllSIDs(c.out))
    BY FlushedSize
  <2> HIDE DEF o, p
  <2>3. Len(p.out) = Len(o) + 1 /\ (AllSIDs(p.out) <=> AllSIDs(o) /\ a \in SID)
    BY <2>1, <2>2, AppendSIDs
  <2>4. Size(p) = Size(c) + 1
    BY <1>1, <2>1, <2>2, <2>3 DEF Size
  <2> QED  BY <1>4, <2>1, <2>2, <2>3, <2>4 DEF p
<1> QED  BY <1>2, <1>3, <1>4

-----------------------------------------------------------------------------
(* Runs of single uSIDs.                                                   *)

IsRunStart(l, i, j) ==
  /\ \A k \in j..i : Single(l[k])
  /\ j = 1 \/ ~Single(l[j - 1])

RunStart(l, i) == CHOOSE j \in 1..i : IsRunStart(l, i, j)

(* A carrier is begun, or the address is passed through.                   *)
Opens(l, i) == Single(l[i]) => (i - RunStart(l, i)) % PerCarrier = 0

Opened(l, i) == {j \in 1..i : Opens(l, j)}

LEMMA OneRunStart ==
  ASSUME NEW l, NEW i \in Nat, NEW j \in 1..i, IsRunStart(l, i, j)
  PROVE  RunStart(l, i) = j
<1>1. ASSUME NEW k \in 1..i, NEW m \in 1..i, IsRunStart(l, i, k), IsRunStart(l, i, m), k < m
      PROVE  FALSE
  <2>1. m - 1 \in k..i /\ m # 1
    BY <1>1
  <2> QED  BY <1>1, <2>1 DEF IsRunStart
<1>2. ASSUME NEW k \in 1..i, IsRunStart(l, i, k)
      PROVE  k = j
  <2>1. k < j \/ j < k \/ k = j
    OBVIOUS
  <2> QED  BY <1>1, <1>2, <2>1
<1>3. RunStart(l, i) \in 1..i /\ IsRunStart(l, i, RunStart(l, i))
  BY DEF RunStart
<1> QED  BY <1>2, <1>3

(* A run goes on, or begins.                                               *)
LEMMA RunGoesOn ==
  ASSUME NEW l, NEW i \in Nat, NEW j \in 1..(i - 1), i # 0,
         IsRunStart(l, i - 1, j), Single(l[i])
  PROVE  RunStart(l, i) = j /\ IsRunStart(l, i, j)
<1>1. \A k \in j..i : k \in j..(i - 1) \/ k = i
  OBVIOUS
<1>2. IsRunStart(l, i, j)
  BY <1>1 DEF IsRunStart
<1>3. j \in 1..i
  OBVIOUS
<1> QED  BY <1>2, <1>3, OneRunStart

LEMMA RunBegins ==
  ASSUME NEW l, NEW i \in Nat \ {0}, i = 1 \/ ~Single(l[i - 1]), Single(l[i])
  PROVE  RunStart(l, i) = i /\ IsRunStart(l, i, i)
<1>1. \A k \in i..i : k = i
  OBVIOUS
<1>2. IsRunStart(l, i, i)
  BY <1>1 DEF IsRunStart
<1>3. i \in 1..i
  OBVIOUS
<1> QED  BY <1>2, <1>3, OneRunStart

LEMMA RunsStart ==
  ASSUME NEW l, NEW n \in Nat
  PROVE  \A i \in 1..n : Single(l[i]) =>
           RunStart(l, i) \in 1..i /\ IsRunStart(l, i, RunStart(l, i))
<1> DEFINE Has(i) == \E j \in 1..i : IsRunStart(l, i, j)
           T == {i \in 0..n : i # 0 /\ Single(l[i]) => Has(i)}
<1>1. 0 \in T
  OBVIOUS
<1>2. ASSUME NEW i \in 1..n, i - 1 \in T
      PROVE  i \in T
  <2>1. ASSUME Single(l[i])
        PROVE  Has(i)
    <3>1. CASE i = 1 \/ ~Single(l[i - 1])
      <4>1. i \in 1..i /\ i \in Nat \ {0}
        OBVIOUS
      <4>2. IsRunStart(l, i, i)
        BY <2>1, <3>1, <4>1, RunBegins
      <4> QED  BY <4>1, <4>2
    <3>2. CASE ~(i = 1 \/ ~Single(l[i - 1]))
      <4>1. PICK j \in 1..(i - 1) : IsRunStart(l, i - 1, j)
        BY <1>2, <3>2
      <4>2. i \in Nat /\ i # 0 /\ j \in 1..i
        OBVIOUS
      <4>3. IsRunStart(l, i, j)
        BY <2>1, <4>1, <4>2, RunGoesOn
      <4> QED  BY <4>2, <4>3
    <3> QED  BY <3>1, <3>2
  <2> HIDE DEF Has
  <2> QED  BY <2>1
<1> HIDE DEF T
<1>3. 0..n \subseteq T
  BY <1>1, <1>2, InductionUpTo
<1>4. ASSUME NEW i \in 1..n, Single(l[i])
      PROVE  RunStart(l, i) \in 1..i /\ IsRunStart(l, i, RunStart(l, i))
  <2>1. i \in 0..n /\ i # 0
    OBVIOUS
  <2>2. Has(i)
    BY <1>3, <1>4, <2>1 DEF T
  <2> QED  BY <2>2 DEF RunStart
<1> QED  BY <1>4

LEMMA NextRemainder ==
  ASSUME NEW p \in Nat \ {0}, NEW a \in Nat
  PROVE  (a + 1) % p = IF (a % p) + 1 = p THEN 0 ELSE (a % p) + 1
<1> DEFINE q == a \div p
           r == a % p
           u == (a + 1) \div p
           v == (a + 1) % p
<1>1. q \in Int /\ r \in 0..(p - 1) /\ a = p * q + r
  OBVIOUS
<1>2. u \in Int /\ v \in 0..(p - 1) /\ a + 1 = p * u + v
  OBVIOUS
<1> HIDE DEF q, r, u, v
<1>3. p * (u - q) = r + 1 - v /\ u - q \in Int
  BY <1>1, <1>2
<1> DEFINE d == u - q
<1>4. d \in Int /\ p * d = r + 1 - v
  BY <1>3
<1> HIDE DEF d
<1>5. d = 0 \/ d = 1
  <2>1. ASSUME d >= 2
        PROVE  FALSE
    <3>1. p * d >= p * 2
      BY <1>4, <2>1
    <3> QED  BY <1>1, <1>2, <1>4, <3>1
  <2>2. ASSUME d =< -1
        PROVE  FALSE
    <3>1. p * d =< p * (-1)
      BY <1>4, <2>2
    <3>2. p * (-1) = -p
      OBVIOUS
    <3> QED  BY <1>1, <1>2, <1>4, <3>1, <3>2
  <2> QED  BY <1>4, <2>1, <2>2
<1>6. CASE d = 0
  <2>1. v = r + 1
    BY <1>1, <1>2, <1>4, <1>6
  <2> QED  BY <1>1, <1>2, <2>1 DEF r, v
<1>7. CASE d = 1
  <2>1. v = r + 1 - p
    BY <1>1, <1>2, <1>4, <1>7
  <2> QED  BY <1>1, <1>2, <2>1 DEF r, v
<1> QED  BY <1>5, <1>6, <1>7

-----------------------------------------------------------------------------
(* What the loop has done after i turns.                                   *)

(* Invariant of the loop: the carriers, those done and the one that is     *)
(* being filled, are as many as were begun; the number in it is where the  *)
(* run is; an address that is no SID has been passed through.              *)
LoopInv(l, c, i) ==
  /\ Size(c) = Cardinality(Opened(l, i))
  /\ c.count = IF i # 0 /\ Single(l[i])
               THEN (i - RunStart(l, i) + 1) % PerCarrier ELSE 0
  /\ Size(c) =< i
  /\ i # 0 => Size(c) # 0
  /\ AllSIDs(c.out) <=> \A j \in 1..i : l[j] \in SID

(* Where the run of an address is, before and after it.                    *)
LEMMA RunPlace ==
  ASSUME NEW l \in Seq(SID \cup OtherAddr), NEW c, Loaded(c), NEW i \in 1..Len(l),
         LoopInv(l, c, i - 1), Single(l[i])
  PROVE  /\ Opens(l, i) <=> c.count = 0
         /\ (i - RunStart(l, i) + 1) % PerCarrier =
              IF c.count + 1 = PerCarrier THEN 0 ELSE c.count + 1
<1> DEFINE k == i - 1
           d == i - RunStart(l, i)
<1>1. PerCarrier \in Nat \ {0} /\ i \in Nat \ {0} /\ k \in Nat
  BY SizesFit
<1>2. d \in Nat /\ d % PerCarrier = c.count
  <2>1. CASE i = 1 \/ ~Single(l[i - 1])
    <3>1. RunStart(l, i) = i
      BY <1>1, <2>1, RunBegins
    <3>2. c.count = 0
      <4>1. c.count = IF k # 0 /\ Single(l[k]) THEN (k - RunStart(l, k) + 1) % PerCarrier ELSE 0
        BY DEF LoopInv
      <4> QED  BY <2>1, <4>1
    <3>3. 0 % PerCarrier = 0
      BY <1>1
    <3> QED  BY <1>1, <3>1, <3>2, <3>3
  <2>2. CASE ~(i = 1 \/ ~Single(l[i - 1]))
    <3>1. k \in 1..Len(l) /\ Single(l[k]) /\ k # 0
      BY <1>1, <2>2
    <3>2. RunStart(l, k) \in 1..k /\ IsRunStart(l, k, RunStart(l, k))
      BY <3>1, RunsStart
    <3>3. RunStart(l, i) = RunStart(l, k)
      BY <1>1, <3>2, RunGoesOn
    <3>4. c.count = (k - RunStart(l, k) + 1) % PerCarrier
      BY <3>1 DEF LoopInv
    <3>5. k - RunStart(l, k) + 1 = d /\ d \in Nat
      BY <1>1, <3>2, <3>3
    <3> HIDE DEF d, k
    <3> QED  BY <3>4, <3>5
  <2> QED  BY <2>1, <2>2
<1> HIDE DEF d
<1>3. (d + 1) % PerCarrier = IF (d % PerCarrier) + 1 = PerCarrier THEN 0 ELSE (d % PerCarrier) + 1
  BY <1>1, <1>2, NextRemainder
<1>4. Opens(l, i) <=> d % PerCarrier = 0
  BY DEF Opens, d
<1> QED  BY <1>2, <1>3, <1>4 DEF d

LEMMA OpenedGrows ==
  ASSUME NEW l, NEW i \in Nat \ {0}
  PROVE  /\ IsFiniteSet(Opened(l, i - 1)) => IsFiniteSet(Opened(l, i))
         /\ IsFiniteSet(Opened(l, i - 1)) =>
              Cardinality(Opened(l, i)) = IF Opens(l, i) THEN Cardinality(Opened(l, i - 1)) + 1
                                          ELSE Cardinality(Opened(l, i - 1))
<1> DEFINE O == Opened(l, i - 1)
<1>1. i \notin O
  BY DEF Opened
<1>2. CASE Opens(l, i)
  <2>1. Opened(l, i) = O \cup {i}
    BY <1>2 DEF Opened
  <2> HIDE DEF O
  <2>2. ASSUME IsFiniteSet(O)
        PROVE  IsFiniteSet(O \cup {i}) /\ Cardinality(O \cup {i}) = Cardinality(O) + 1
    BY <1>1, <2>2, FS_AddElement
  <2> QED  BY <1>2, <2>1, <2>2 DEF O
<1>3. CASE ~Opens(l, i)
  <2>1. Opened(l, i) = O
    <3>1. \A j \in 1..i : Opens(l, j) => j \in 1..(i - 1)
      BY <1>3
    <3>2. \A j \in 1..(i - 1) : j \in 1..i
      OBVIOUS
    <3> QED  BY <3>1, <3>2 DEF Opened
  <2> QED  BY <1>3, <2>1
<1> QED  BY <1>2, <1>3

LEMMA OpenedFinite ==
  ASSUME NEW l, NEW i \in Nat
  PROVE  IsFiniteSet(Opened(l, i)) /\ Cardinality(Opened(l, i)) \in Nat
<1>1. IsFiniteSet(1..i)
  BY FS_Interval
<1>2. IsFiniteSet(Opened(l, i))
  BY <1>1, FS_Subset DEF Opened
<1> QED  BY <1>2, FS_CardinalityType

LEMMA TurnKeepsInv ==
  ASSUME NEW l \in Seq(SID \cup OtherAddr), NEW c, Loaded(c), NEW i \in 1..Len(l),
         LoopInv(l, c, i - 1)
  PROVE  LoopInv(l, Pack(c, l[i]), i)
<1> DEFINE a == l[i]
           p == Pack(c, a)
           k == i - 1
<1>1. i \in Nat \ {0} /\ k \in Nat /\ a \in SID \cup OtherAddr
  BY ElementOfSeq
<1>2. /\ p.count = IF Single(a) /\ c.count + 1 # PerCarrier THEN c.count + 1 ELSE 0
      /\ Size(p) = IF Single(a) /\ c.count # 0 THEN Size(c) ELSE Size(c) + 1
      /\ AllSIDs(p.out) <=> AllSIDs(c.out) /\ a \in SID
  BY <1>1, TurnSize
<1>3. /\ Size(c) = Cardinality(Opened(l, k))
      /\ Size(c) =< k
      /\ k # 0 => Size(c) # 0
      /\ AllSIDs(c.out) <=> \A j \in 1..k : l[j] \in SID
  BY DEF LoopInv
<1>4. Cardinality(Opened(l, k)) \in Nat /\ IsFiniteSet(Opened(l, k))
  BY <1>1, OpenedFinite
<1>5. Cardinality(Opened(l, i)) = IF Opens(l, i) THEN Size(c) + 1 ELSE Size(c)
  BY <1>1, <1>3, <1>4, OpenedGrows
<1>6. AllSIDs(p.out) <=> \A j \in 1..i : l[j] \in SID
  <2>1. \A j \in 1..i : j \in 1..k \/ j = i
    BY <1>1
  <2>2. i \in 1..i /\ \A j \in 1..k : j \in 1..i
    BY <1>1
  <2>3. (\A j \in 1..i : l[j] \in SID) <=> (\A j \in 1..k : l[j] \in SID) /\ a \in SID
    BY <2>1, <2>2
  <2> QED  BY <1>2, <1>3, <2>3
<1>7. CASE Single(a)
  <2>1. /\ Opens(l, i) <=> c.count = 0
        /\ (i - RunStart(l, i) + 1) % PerCarrier =
             IF c.count + 1 = PerCarrier THEN 0 ELSE c.count + 1
    BY <1>7, RunPlace
  <2> HIDE DEF p
  <2>2. Size(p) = Cardinality(Opened(l, i))
    BY <1>2, <1>5, <1>7, <2>1
  <2>3. p.count = (i - RunStart(l, i) + 1) % PerCarrier
    BY <1>2, <1>7, <2>1
  <2>4. Size(p) =< i /\ Size(p) # 0
    <3>1. CASE c.count = 0
      BY <1>1, <1>2, <1>3, <1>4, <3>1
    <3>2. CASE c.count # 0
      <4>1. Size(c) # 0
        BY <1>3, <1>4, <3>2 DEF LoopInv
      <4> QED  BY <1>1, <1>2, <1>3, <1>4, <1>7, <3>2, <4>1
    <3> QED  BY <3>1, <3>2
  <2> HIDE DEF a
  <2> QED  BY <1>1, <1>6, <1>7, <2>2, <2>3, <2>4 DEF LoopInv, p, a
<1>8. CASE ~Single(a)
  <2>1. Opens(l, i)
    BY <1>8 DEF Opens
  <2> HIDE DEF p
  <2>2. Size(p) = Cardinality(Opened(l, i)) /\ p.count = 0 /\ Size(p) = Size(c) + 1
    BY <1>2, <1>5, <1>8, <2>1
  <2>3. Size(p) =< i /\ Size(p) # 0
    BY <1>1, <1>3, <1>4, <2>2
  <2> HIDE DEF a
  <2> QED  BY <1>1, <1>6, <1>8, <2>2, <2>3 DEF LoopInv, p, a
<1> QED  BY <1>7, <1>8

LEMMA LoopDone ==
  ASSUME NEW l \in Seq(SID \cup OtherAddr)
  PROVE  /\ Compact(l) \in Seq(SID \cup OtherAddr)
         /\ Route(Compact(l)) = Route(l)
         /\ Len(Compact(l)) = Cardinality(Opened(l, Len(l)))
         /\ Len(Compact(l)) =< Len(l)
         /\ Len(l) # 0 => Len(Compact(l)) # 0
         /\ AllSIDs(Compact(l)) <=> AllSIDs(l)
<1> DEFINE n == Len(l)
           V == {c \in Carrier : Loaded(c)}
           R(i) == Route(SubSeq(l, 1, i))
<1>1. n \in Nat /\ \A i \in 1..n : l[i] \in SID \cup OtherAddr
  BY ElementOfSeq
<1>2. PICK g \in [0..n -> V] : Turns(g, l) /\ Compact(l) = Flush(g[n]).out
  BY CompactTurns
<1>3. g[0] = NoUSIDs /\ \A i \in 1..n : g[i] = Pack(g[i - 1], l[i])
  BY <1>2 DEF Turns
<1>4. \A i \in 0..n : Loaded(g[i])
  BY <1>2
<1> HIDE DEF n, R
<1> DEFINE T == {i \in 0..n : RouteSoFar(g[i]) = R(i) /\ LoopInv(l, g[i], i)}
<1>5. 0 \in T
  <2>1. RouteSoFar(g[0]) = R(0)
    <3>1. Route(<<>>) \in Seq(Waypoint) /\ Load(NoUSIDs) = <<>>
      BY NothingLoaded, LoadType, RouteType
    <3>2. R(0) = Route(<<>>)
      BY WholeSeq DEF R
    <3> QED  BY <1>3, <3>1, <3>2, NothingLoaded, ConcatEmptySeq DEF RouteSoFar
  <2>2. LoopInv(l, NoUSIDs, 0)
    <3>1. Opened(l, 0) = {}
      BY DEF Opened
    <3>2. Cardinality(Opened(l, 0)) = 0
      BY <3>1, FS_EmptySet
    <3>3. Size(NoUSIDs) = 0
      BY NothingLoaded DEF Size
    <3>4. AllSIDs(NoUSIDs.out)
      BY NothingLoaded DEF AllSIDs
    <3> QED  BY <3>2, <3>3, <3>4, NothingLoaded DEF LoopInv
  <2>3. 0 \in 0..n
    BY <1>1
  <2> QED  BY <1>3, <2>1, <2>2, <2>3
<1>6. ASSUME NEW i \in 1..n, i - 1 \in T
      PROVE  i \in T
  <2>1. Loaded(g[i - 1]) /\ l[i] \in SID \cup OtherAddr
    BY <1>1, <1>4, <1>6
  <2>2. RouteSoFar(g[i - 1]) = R(i - 1) /\ LoopInv(l, g[i - 1], i - 1)
    BY <1>6
  <2>3. RouteSoFar(g[i]) = RouteSoFar(g[i - 1]) \o Waypoints(l[i])
    BY <1>3, <2>1, PackRoute
  <2>4. R(i) = R(i - 1) \o Waypoints(l[i])
    <3>1. /\ SubSeq(l, 1, i - 1) \in Seq(SID \cup OtherAddr)
          /\ SubSeq(l, 1, i) = Append(SubSeq(l, 1, i - 1), l[i])
      BY PrefixGrows DEF n
    <3> QED  BY <2>1, <3>1, RouteGrows DEF R
  <2>5. LoopInv(l, g[i], i)
    BY <1>3, <2>1, <2>2, TurnKeepsInv DEF n
  <2>6. i \in 0..n
    BY <1>1
  <2> QED  BY <2>2, <2>3, <2>4, <2>5, <2>6
<1> HIDE DEF T
<1>7. 0..n \subseteq T
  BY <1>1, <1>5, <1>6, InductionUpTo
<1>8. RouteSoFar(g[n]) = R(n) /\ LoopInv(l, g[n], n) /\ Loaded(g[n])
  <2>1. n \in 0..n
    BY <1>1
  <2> QED  BY <1>4, <1>7, <2>1 DEF T
<1>9. R(n) = Route(l)
  BY WholeSeq DEF R, n
<1>10. /\ Compact(l) \in Seq(SID \cup OtherAddr)
       /\ Len(Compact(l)) = Size(g[n])
       /\ AllSIDs(Compact(l)) <=> AllSIDs(g[n].out)
       /\ Route(Compact(l)) = RouteSoFar(g[n])
  BY <1>2, <1>8, FlushedSize, FlushedRoute
<1> QED  BY <1>8, <1>9, <1>10 DEF LoopInv, AllSIDs, n

-----------------------------------------------------------------------------

Listed == triedSIDs \in Seq(SID \cup OtherAddr)

LEMMA RouteIsSame ==
  Listed => SameRoute
BY LoopDone DEF Listed, SameRoute

LEMMA CarriersAreFew ==
  Listed => FewestCarriers
<1> SUFFICES ASSUME Listed
             PROVE  FewestCarriers
  OBVIOUS
<1>1. DOMAIN triedSIDs = 1..Len(triedSIDs) /\ Len(triedSIDs) \in Nat
  BY DEF Listed
<1>2. Len(Compact(triedSIDs)) = Cardinality({i \in DOMAIN triedSIDs : Opens(triedSIDs, i)})
  BY <1>1, LoopDone DEF Listed, Opened
<1> QED  BY <1>2 DEF FewestCarriers, Opens, RunStart, IsRunStart, Single

LEMMA ValidityIsKept ==
  Listed => ValidityKept
<1> SUFFICES ASSUME Listed, NEW w \in {0, 1}, NEW bad \in BOOLEAN, NEW v \in {{}, {2}}
             PROVE  LET sl == [weight |-> w, sids |-> triedSIDs, unsupported |-> bad,
                               verify |-> v, unresolvable |-> FALSE]
                    IN  /\ ListValid(sl) => ListValid(Compacted(sl))
                        /\ ListValid(Compacted(sl)) =>
                             ListValid(sl) \/ Len(triedSIDs) > MaxSIDsPerList
  BY Zenon DEF ValidityKept
<1> DEFINE l == triedSIDs
           m == Compact(l)
           sl == [weight |-> w, sids |-> l, unsupported |-> bad,
                  verify |-> v, unresolvable |-> FALSE]
           vm == IF v = {} THEN {} ELSE {1}
<1>1. /\ Compacted(sl).weight = w /\ Compacted(sl).sids = m
      /\ Compacted(sl).unsupported = bad /\ Compacted(sl).unresolvable = FALSE
  <2>1. Compacted(sl).weight = w /\ Compacted(sl).sids = m
    BY DEF Compacted
  <2>2. Compacted(sl).unsupported = bad
    BY DEF Compacted
  <2>3. Compacted(sl).unresolvable = FALSE
    BY DEF Compacted
  <2> QED  BY <2>1, <2>2, <2>3
<1>2. /\ l \in Seq(SID \cup OtherAddr) /\ m \in Seq(SID \cup OtherAddr)
      /\ Len(m) =< Len(l) /\ (Len(l) # 0 => Len(m) # 0)
      /\ AllSIDs(m) <=> AllSIDs(l)
  BY LoopDone DEF Listed
<1>3. Len(m) \in Nat /\ Len(l) \in Nat /\ DOMAIN l = 1..Len(l) /\ DOMAIN m = 1..Len(m)
  BY <1>2
<1>4. MaxSIDsPerList \in Nat
  BY AddrAssumption
<1> HIDE DEF l, m, vm
<1>5. ListValid(sl) <=> ~bad /\ Len(l) \in 1..MaxSIDsPerList /\ w # 0 /\ AllSIDs(l)
  BY <1>3 DEF ListValid, AllSIDs
<1>6. ListValid(Compacted(sl)) <=> ~bad /\ Len(m) \in 1..MaxSIDsPerList /\ w # 0 /\ AllSIDs(m)
  <2> DEFINE r == Compacted(sl)
  <2> HIDE DEF r
  <2>1. r.weight = w /\ r.sids = m /\ r.unsupported = bad /\ r.unresolvable = FALSE
    BY <1>1 DEF r
  <2>2. ListValid(r) <=> ~bad /\ Len(m) \in 1..MaxSIDsPerList /\ w # 0 /\ AllSIDs(m)
    BY <1>3, <2>1 DEF ListValid, AllSIDs
  <2> QED  BY <2>2 DEF r
<1>7. Len(l) \in 1..MaxSIDsPerList => Len(m) \in 1..MaxSIDsPerList
  BY <1>2, <1>3, <1>4
<1>8. Len(m) \in 1..MaxSIDsPerList => Len(l) \in 1..MaxSIDsPerList \/ Len(l) > MaxSIDsPerList
  <2>1. Len(m) # 0 => Len(l) # 0
    BY <1>2, <1>3
  <2> QED  BY <1>2, <1>3, <1>4, <2>1
<1> HIDE DEF sl
<1>9. ListValid(sl) => ListValid(Compacted(sl))
  BY <1>2, <1>5, <1>6, <1>7
<1>10. ListValid(Compacted(sl)) => ListValid(sl) \/ Len(l) > MaxSIDsPerList
  BY <1>2, <1>5, <1>6, <1>8
<1> QED  BY <1>9, <1>10 DEF sl, l

LEMMA ListedAlways ==
  PackingSpec => []Listed
<1>1. NoSIDs => Listed
  BY DEF NoSIDs, Listed
<1>2. Listed /\ [TrySIDs]_triedSIDs => Listed'
  <2> SUFFICES ASSUME Listed, [TrySIDs]_triedSIDs
               PROVE  Listed'
    OBVIOUS
  <2>1. CASE \E a \in TriedAddrs : triedSIDs' = Append(triedSIDs, a)
    <3>1. PICK a \in SID \cup OtherAddr : triedSIDs' = Append(triedSIDs, a)
      BY <2>1, TriedAssumption
    <3> QED  BY <3>1, AppendProperties DEF Listed
  <2>2. CASE triedSIDs' = <<>>
    BY <2>2 DEF Listed
  <2>3. CASE UNCHANGED triedSIDs
    BY <2>3 DEF Listed
  <2> QED  BY <2>1, <2>2, <2>3 DEF TrySIDs
<1> QED  BY <1>1, <1>2, PTL DEF PackingSpec

(* Compaction keeps the way of the packet, for every list: usid.go says    *)
(* that it does not break "the order and meaning even of a mixed list".    *)
THEOREM PackingKeepsTheRoute == PackingSpec => []SameRoute
BY ListedAlways, RouteIsSame, PTL

(* Compact begins a carrier where a run of single uSIDs begins and where   *)
(* the one before is full, and nowhere else.                               *)
THEOREM PackingIsTight == PackingSpec => []FewestCarriers
BY ListedAlways, CarriersAreFew, PTL

(* Compactor.Apply keeps a valid list valid, and makes no other list valid *)
(* than one that was too long.                                             *)
THEOREM PackingKeepsValidity == PackingSpec => []ValidityKept
BY ListedAlways, ValidityIsKept, PTL

=============================================================================
