-------------------------- MODULE ReconcilerProofs --------------------------
(***************************************************************************)
(* The reconciler, for all policies, addresses, updates and options: type  *)
(* correctness and the three invariants that tie its tables together; that *)
(* the dataplane is what it believes; and what is true once it has synced. *)
(*                                                                         *)
(* A handler rewrites one policy and the tables, and leaves the others'    *)
(* policies alone.  Sound(k, s) says that the handler's record s for       *)
(* policy k fits the policies of the others; every piece of a handler      *)
(* keeps it, and what Commit stores satisfies the invariant again.         *)
(***************************************************************************)
EXTENDS ReconcilerProps, TLAPS

-----------------------------------------------------------------------------
(* Every outcome of a port call is a dataplane and an answer.              *)

Outcomes == [dp : Dataplane, ok : BOOLEAN]

LEMMA RenderedType ==
  ASSUME NEW cp \in CandidatePath
  PROVE  Rendered(cp) \in SUBSET SIDList
BY DEF Rendered, ValidSegmentLists, CandidatePath, SegmentList, SIDList

LEMMA WithPolicyType ==
  ASSUME NEW d \in Dataplane, NEW b \in BSID, NEW L \in SUBSET SIDList
  PROVE  WithPolicy(d, b, L) \in Dataplane
BY DEF WithPolicy, Dataplane

LEMMA WithSteeringType ==
  ASSUME NEW d \in Dataplane, NEW e \in Endpoint, NEW b \in BSID \cup {NoAddr}
  PROVE  WithSteering(d, e, b) \in Dataplane
BY DEF WithSteering, Dataplane

LEMMA DoneType ==
  ASSUME NEW d \in Dataplane
  PROVE  Done(d) \subseteq Outcomes
BY DEF Done, Outcomes

LEMMA FailedType ==
  ASSUME NEW D \in SUBSET Dataplane
  PROVE  Failed(D) \subseteq Outcomes
<1>1. ASSUME NEW d \in D PROVE [dp |-> d, ok |-> FALSE] \in Outcomes
  BY DEF Outcomes
<1> QED  BY <1>1 DEF Failed

LEMMA DeletePolicyType ==
  ASSUME NEW d \in Dataplane, NEW b \in BSID
  PROVE  DeletePolicy(d, b) \subseteq Outcomes
<1> DEFINE gone == WithPolicy(d, b, {})
<1>1. gone \in Dataplane
  BY WithPolicyType
<1> HIDE DEF gone
<1>2. /\ Done(gone) \subseteq Outcomes
      /\ Failed({d}) \subseteq Outcomes
      /\ Failed({gone}) \subseteq Outcomes
  BY <1>1, DoneType, FailedType
<1> QED  BY <1>2 DEF DeletePolicy, gone

LEMMA InstallPolicyType ==
  ASSUME NEW d \in Dataplane, NEW b \in BSID, NEW L \in SUBSET SIDList
  PROVE  InstallPolicy(d, b, L) \subseteq Outcomes
<1> DEFINE full == WithPolicy(d, b, L)
           parts == {d} \cup {WithPolicy(d, b, M) : M \in ProperSubsets(L)}
<1>1. full \in Dataplane
  BY WithPolicyType
<1>2. parts \subseteq Dataplane
  BY WithPolicyType DEF ProperSubsets
<1> HIDE DEF full, parts
<1>3. /\ Done(full) \subseteq Outcomes
      /\ Failed(parts) \subseteq Outcomes
      /\ Failed({full}) \subseteq Outcomes
  BY <1>1, <1>2, DoneType, FailedType
<1> QED  BY <1>3 DEF InstallPolicy, full, parts

LEMMA UpdateInPlaceType ==
  ASSUME NEW d \in Dataplane, NEW b \in BSID, NEW L \in SUBSET SIDList
  PROVE  UpdateInPlace(d, b, L) \subseteq Outcomes
<1> DEFINE has == d.policies[b]
           toAdd == L \ has
           stale == has \ L
           partial == {has} \cup {has \cup A : A \in ProperSubsets(toAdd)}
                        \cup {(has \cup L) \ S : S \in ProperSubsets(stale)}
           halves == {WithPolicy(d, b, M) : M \in partial}
           lasts == {WithPolicy(d, b, M) : M \in {has \cup L, L}}
           full == WithPolicy(d, b, L)
<1>1. has \in SUBSET SIDList
  BY DEF Dataplane
<1>2. partial \subseteq SUBSET SIDList
  BY <1>1 DEF ProperSubsets
<1>3. full \in Dataplane /\ halves \subseteq Dataplane /\ lasts \subseteq Dataplane
  BY <1>1, <1>2, WithPolicyType
<1> HIDE DEF full, halves, lasts
<1>4. /\ Done(full) \subseteq Outcomes
      /\ Failed(halves) \subseteq Outcomes
      /\ Failed(lasts) \subseteq Outcomes
      /\ Failed({d}) \subseteq Outcomes
      /\ InstallPolicy(d, b, L) \subseteq Outcomes
  BY <1>3, DoneType, FailedType, InstallPolicyType
<1> QED  BY <1>4 DEF UpdateInPlace, full, halves, lasts

LEMMA SteerToType ==
  ASSUME NEW d \in Dataplane, NEW k \in Key, NEW b \in BSID
  PROVE  SteerTo(d, k, b) \subseteq Outcomes
<1> DEFINE e == EndpointOf[k]
           new == WithSteering(d, e, b)
           none == WithSteering(d, e, NoAddr)
<1>1. new \in Dataplane /\ none \in Dataplane
  BY PortAssumption, WithSteeringType
<1> HIDE DEF new, none
<1>2. /\ Done(d) \subseteq Outcomes /\ Done(new) \subseteq Outcomes
      /\ Failed({d, none}) \subseteq Outcomes /\ Failed({new}) \subseteq Outcomes
  BY <1>1, DoneType, FailedType
<1> QED  BY <1>2 DEF SteerTo, new, none

LEMMA UnsteeredType ==
  ASSUME NEW d \in Dataplane, NEW k \in Key
  PROVE  Unsteered(d, k) \subseteq Dataplane
BY PortAssumption, WithSteeringType DEF Unsteered

-----------------------------------------------------------------------------
(* The ports.                                                              *)

LEMMA AddType ==
  ASSUME NEW d \in Dataplane, NEW k \in Key, NEW cp \in CandidatePath,
         cp.bsid \in BSID
  PROVE  Add(d, k, cp) \subseteq Outcomes
<1> DEFINE S == InstallPolicy(d, cp.bsid, Rendered(cp))
<1>1. S \subseteq Outcomes
  BY RenderedType, InstallPolicyType
<1>2. Add(d, k, cp) = UNION {IF o.ok THEN SteerTo(o.dp, k, cp.bsid) ELSE {o} : o \in S}
  BY DEF Add, Then
<1> HIDE DEF S
<1>3. ASSUME NEW o \in S
      PROVE  (IF o.ok THEN SteerTo(o.dp, k, cp.bsid) ELSE {o}) \subseteq Outcomes
  BY <1>1, SteerToType DEF Outcomes
<1> QED  BY <1>2, <1>3

LEMMA ReplaceType ==
  ASSUME NEW d \in Dataplane, NEW k \in Key,
         NEW prev \in CandidatePath, prev.bsid \in BSID,
         NEW next \in CandidatePath, next.bsid \in BSID
  PROVE  Replace(d, k, prev, next) \subseteq Outcomes
<1>1. CASE prev.bsid = next.bsid
  BY <1>1, RenderedType, UpdateInPlaceType DEF Replace
<1>2. CASE prev.bsid # next.bsid
  <2> DEFINE S == Add(d, k, next)
             Superseded(x) == {[o EXCEPT !.ok = TRUE] : o \in DeletePolicy(x, prev.bsid)}
  <2>1. S \subseteq Outcomes
    BY AddType
  <2>2. Replace(d, k, prev, next) = UNION {IF o.ok THEN Superseded(o.dp) ELSE {o} : o \in S}
    BY <1>2 DEF Replace, Add, Then
  <2> HIDE DEF S
  <2>3. ASSUME NEW o \in S
        PROVE  (IF o.ok THEN Superseded(o.dp) ELSE {o}) \subseteq Outcomes
    <3>1. o \in Outcomes /\ o.dp \in Dataplane
      BY <2>1 DEF Outcomes
    <3>2. DeletePolicy(o.dp, prev.bsid) \subseteq Outcomes
      BY <3>1, DeletePolicyType
    <3>3. Superseded(o.dp) \subseteq Outcomes
      BY <3>2 DEF Outcomes
    <3> QED  BY <3>1, <3>3
  <2> QED  BY <2>2, <2>3
<1> QED  BY <1>1, <1>2

LEMMA RemoveType ==
  ASSUME NEW d \in Dataplane, NEW k \in Key, NEW cp \in CandidatePath,
         cp.bsid \in BSID
  PROVE  Remove(d, k, cp) \subseteq Outcomes
BY UnsteeredType, DeletePolicyType DEF Remove

LEMMA InstallDropType ==
  ASSUME NEW d \in Dataplane, NEW k \in Key
  PROVE  InstallDrop(d, k) \subseteq Outcomes
<1> DEFINE e == EndpointOf[k]
           Dropped(x) == [x EXCEPT !.drops = @ \cup {e}]
<1>1. ASSUME NEW x \in Dataplane
      PROVE  x \in Dataplane /\ Dropped(x) \in Dataplane
  BY PortAssumption DEF Dataplane
<1>2. ASSUME NEW x \in Dataplane
      PROVE  /\ Done(Dropped(x)) \subseteq Outcomes
             /\ Failed({x}) \subseteq Outcomes
             /\ Failed({Dropped(x)}) \subseteq Outcomes
  <2> HIDE DEF Dropped
  <2> QED  BY <1>1, DoneType, FailedType
<1>3. Unsteered(d, k) \subseteq Dataplane
  BY UnsteeredType
<1> QED  BY <1>2, <1>3 DEF InstallDrop

LEMMA RemoveDropType ==
  ASSUME NEW d \in Dataplane, NEW k \in Key
  PROVE  RemoveDrop(d, k) \subseteq Outcomes
<1> DEFINE gone == [d EXCEPT !.drops = @ \ {EndpointOf[k]}]
<1>1. gone \in Dataplane
  BY DEF Dataplane
<1> HIDE DEF gone
<1>2. /\ Done(gone) \subseteq Outcomes /\ Done(d) \subseteq Outcomes
      /\ Failed({d}) \subseteq Outcomes /\ Failed({gone}) \subseteq Outcomes
  BY <1>1, DoneType, FailedType
<1> QED  BY <1>2 DEF RemoveDrop, gone

-----------------------------------------------------------------------------
(* The invariant.                                                          *)

Work ==
  [ps : PolicyState, owner : [BSID -> Key \cup {NoKey}],
   dyn : SUBSET BSID, orph : SUBSET BSID, dp : Dataplane]

Others(k) == Key \ {k}

(* What does not depend on whether the policy is active.                   *)
Fits(k, s) ==
  /\ s \in Work
  /\ \A b \in BSID, j \in Others(k) :
       s.owner[b] = j <=> Active(j) /\ ActiveBSID(j) = b
  /\ \A b \in s.orph : s.owner[b] = NoKey
  /\ \A b \in BSID :
       b \in s.dyn <=> \/ s.ps.dynBSID = b
                       \/ \E j \in Others(k) : policies[j].dynBSID = b
  /\ \A j \in Others(k) :
       policies[j].dynBSID = s.ps.dynBSID => s.ps.dynBSID = NoAddr

OwnsActive(k, s) ==
  /\ s.ps.hasActive => s.ps.installed.bsid \in BSID
  /\ \A b \in BSID :
       s.owner[b] = k <=> s.ps.hasActive /\ s.ps.installed.bsid = b

Sound(k, s) == Fits(k, s) /\ OwnsActive(k, s)

(* The inductive invariant: OwnerExact needs active BSIDs to be addresses, *)
(* and the orphans are those the table of owners does not know.            *)
Tables ==
  /\ policies \in [Key -> PolicyState]
  /\ bsidOwner \in [BSID -> Key \cup {NoKey}]
  /\ dynUsed \subseteq BSID
  /\ orphans \subseteq BSID
  /\ dp \in Dataplane
  /\ \A k \in Key : Active(k) => ActiveBSID(k) \in BSID
  /\ OwnerExact
  /\ \A b \in orphans : bsidOwner[b] = NoKey
  /\ DynExact

Control ==
  /\ gen \in Nat
  /\ task \in {"idle", "sweep", "gc", "revalidate"}
  /\ todo \subseteq IF task = "gc" THEN BSID ELSE Key
  /\ sub \in BOOLEAN
  /\ unsynced \subseteq Nat
  /\ reach \subseteq SID
  /\ calm \in BOOLEAN

IInv == Tables /\ Control

(* A step as DynStable allows it.                                          *)
KeepsDyn ==
  \A k \in Key : policies[k].dynBSID # NoAddr =>
    \/ policies'[k].dynBSID = policies[k].dynBSID
    \/ policies'[k] = NewPolicy

LEMMA KeyIsNotNoKey == NoKey \notin Key
BY ReconcilerAssumption

LEMMA NoAddrIsNoBSID == NoAddr \notin BSID
BY AddrAssumption

-----------------------------------------------------------------------------
(* Pieces of a handler.                                                    *)

(* A call that changes the dataplane and perhaps the drop.                 *)
LEMMA TouchSound ==
  ASSUME NEW k \in Key, NEW s, Sound(k, s),
         NEW d \in Dataplane, NEW x \in BOOLEAN
  PROVE  /\ Sound(k, [s EXCEPT !.dp = d])
         /\ Sound(k, [s EXCEPT !.dp = d, !.ps.dropped = x])
<1>1. s \in Work
  BY DEF Sound, Fits
<1> DEFINE t == [s EXCEPT !.dp = d]
           u == [s EXCEPT !.dp = d, !.ps.dropped = x]
<1>2. /\ t \in Work /\ t.ps = s.ps
      /\ t.owner = s.owner /\ t.dyn = s.dyn /\ t.orph = s.orph
  BY <1>1 DEF Work
<1>3. /\ u \in Work /\ u.owner = s.owner /\ u.dyn = s.dyn /\ u.orph = s.orph
      /\ u.ps.hasActive = s.ps.hasActive /\ u.ps.installed = s.ps.installed
      /\ u.ps.dynBSID = s.ps.dynBSID
  BY <1>1 DEF Work, PolicyState
<1> HIDE DEF t, u
<1>4. Sound(k, t) /\ Sound(k, u)
  BY <1>2, <1>3 DEF Sound, Fits, OwnsActive
<1> QED  BY <1>4 DEF t, u

LEMMA ReleaseSound ==
  ASSUME NEW k \in Key, NEW s, Sound(k, s), NEW t \in Release(k, s)
  PROVE  /\ Sound(k, t)
         /\ t.ps.hasActive = s.ps.hasActive
         /\ t.ps.cps = s.ps.cps
         /\ t.ps.dynBSID = s.ps.dynBSID
         /\ t.owner = s.owner
<1>1. CASE ~s.ps.dropped
  BY <1>1 DEF Release
<1>2. CASE s.ps.dropped
  <2>1. s \in Work /\ s.dp \in Dataplane
    BY DEF Sound, Fits, Work
  <2>2. PICK o \in RemoveDrop(s.dp, k) :
          t = [s EXCEPT !.dp = o.dp, !.ps.dropped = ~o.ok]
    BY <1>2 DEF Release
  <2>3. o.dp \in Dataplane /\ (~o.ok) \in BOOLEAN
    BY <2>1, RemoveDropType DEF Outcomes
  <2>4. Sound(k, t)
    BY <2>2, <2>3, TouchSound
  <2> QED  BY <2>1, <2>2, <2>4 DEF Work, PolicyState
<1> QED  BY <1>1, <1>2

LEMMA EngageSound ==
  ASSUME NEW k \in Key, NEW s, Sound(k, s), NEW t \in Engage(k, s)
  PROVE  Sound(k, t) /\ t.ps.dynBSID = s.ps.dynBSID
<1>1. s \in Work /\ s.dp \in Dataplane /\ s.ps.dropped \in BOOLEAN
  BY DEF Sound, Fits, Work, PolicyState
<1>2. PICK o \in InstallDrop(s.dp, k) :
        t = [s EXCEPT !.dp = o.dp, !.ps.dropped = s.ps.dropped \/ o.ok]
  BY DEF Engage
<1>3. o.dp \in Dataplane /\ (s.ps.dropped \/ o.ok) \in BOOLEAN
  BY <1>1, InstallDropType DEF Outcomes
<1>4. Sound(k, t)
  BY <1>2, <1>3, TouchSound
<1> QED  BY <1>1, <1>2, <1>4 DEF Work, PolicyState

(* Without its BSID, the policy owns nothing.                              *)
LEMMA DisownFits ==
  ASSUME NEW k \in Key, NEW s, Sound(k, s), s.ps.hasActive
  PROVE  /\ Fits(k, Disown(s))
         /\ \A b \in BSID : Disown(s).owner[b] # k
         /\ Disown(s).ps = s.ps
<1> DEFINE t == Disown(s)
           a == s.ps.installed.bsid
<1>1. s \in Work /\ a \in BSID
  BY DEF Sound, Fits, OwnsActive
<1>2. /\ t \in Work /\ t.ps = s.ps /\ t.dyn = s.dyn /\ t.orph = s.orph
      /\ t.owner = [s.owner EXCEPT ![a] = NoKey]
  BY <1>1 DEF Work, Disown
<1>3. s.owner[a] = k /\ s.owner \in [BSID -> Key \cup {NoKey}]
  BY <1>1 DEF Sound, OwnsActive, Work
<1>4. \A b \in BSID : t.owner[b] = IF b = a THEN NoKey ELSE s.owner[b]
  BY <1>2, <1>3
<1> HIDE DEF t, a
<1>5. \A b \in BSID : s.owner[b] = k <=> b = a
  BY DEF Sound, OwnsActive, a
<1>6. \A b \in BSID : t.owner[b] # k
  BY <1>4, <1>5, KeyIsNotNoKey
<1>7. \A b \in BSID, j \in Others(k) : t.owner[b] = j <=> s.owner[b] = j
  BY <1>3, <1>4, KeyIsNotNoKey DEF Others
<1>8. \A b \in t.orph : t.owner[b] = NoKey
  BY <1>1, <1>2, <1>4 DEF Sound, Fits, Work
<1>9. Fits(k, t)
  BY <1>2, <1>7, <1>8 DEF Sound, Fits
<1> QED  BY <1>2, <1>6, <1>9 DEF t

LEMMA DownSound ==
  ASSUME NEW k \in Key, NEW s, Sound(k, s), s.ps.hasActive
  PROVE  /\ Sound(k, [Disown(s) EXCEPT !.ps.hasActive = FALSE])
         /\ [Disown(s) EXCEPT !.ps.hasActive = FALSE].ps.dynBSID = s.ps.dynBSID
<1> DEFINE t == Disown(s)
           u == [t EXCEPT !.ps.hasActive = FALSE]
<1>1. Fits(k, t) /\ (\A b \in BSID : t.owner[b] # k) /\ t.ps = s.ps
  BY DisownFits
<1>2. t \in Work
  BY <1>1 DEF Fits
<1> HIDE DEF t
<1>3. /\ u \in Work /\ u.owner = t.owner /\ u.dyn = t.dyn /\ u.orph = t.orph
      /\ u.ps.dynBSID = t.ps.dynBSID /\ u.ps.hasActive = FALSE
  BY <1>2 DEF Work, PolicyState
<1> HIDE DEF u
<1>4. Sound(k, u)
  BY <1>1, <1>3 DEF Sound, Fits, OwnsActive
<1> QED  BY <1>1, <1>3, <1>4 DEF u, t

(* A BSID that nobody else owns becomes that of a policy that owns none.   *)
LEMMA ClaimSound ==
  ASSUME NEW k \in Key, NEW s, Fits(k, s), \A b \in BSID : s.owner[b] # k,
         NEW cp \in CandidatePath, cp.bsid \in BSID, s.owner[cp.bsid] = NoKey
  PROVE  Sound(k, Claim(k, s, cp)) /\ Claim(k, s, cp).ps.dynBSID = s.ps.dynBSID
<1> DEFINE t == Claim(k, s, cp)
           a == cp.bsid
<1>1. s \in Work
  BY DEF Fits
<1>2. /\ t \in Work /\ t.dyn = s.dyn /\ t.orph = s.orph \ {a}
      /\ t.ps.hasActive = TRUE /\ t.ps.installed = cp
      /\ t.ps.dynBSID = s.ps.dynBSID
      /\ t.owner = [s.owner EXCEPT ![a] = k]
  BY <1>1 DEF Work, PolicyState, Claim
<1>3. \A b \in BSID : t.owner[b] = IF b = a THEN k ELSE s.owner[b]
  BY <1>1, <1>2 DEF Work
<1>4. a \in BSID /\ s.owner[a] = NoKey /\ t.ps.installed.bsid = a
  BY <1>2
<1> HIDE DEF t, a
<1>5. OwnsActive(k, t)
  BY <1>2, <1>3, <1>4 DEF OwnsActive
<1>6. \A b \in BSID, j \in Others(k) : t.owner[b] = j <=> s.owner[b] = j
  BY <1>3, <1>4, KeyIsNotNoKey DEF Others
<1>7. \A b \in t.orph : t.owner[b] = NoKey
  BY <1>1, <1>2, <1>3 DEF Fits, Work
<1>8. Fits(k, t)
  BY <1>2, <1>6, <1>7 DEF Fits
<1> QED  BY <1>2, <1>5, <1>8 DEF Sound, t

-----------------------------------------------------------------------------
(* The choice of the path.                                                 *)

LEMMA BoundSound ==
  ASSUME NEW k \in Key, NEW s, Sound(k, s), NEW t \in Bound(s)
  PROVE  /\ Sound(k, t)
         /\ s.ps.dynBSID # NoAddr => t.ps.dynBSID = s.ps.dynBSID
         /\ t.ps.cps = s.ps.cps
<1>1. CASE t = s
  BY <1>1
<1>2. CASE t # s
  <2>1. s.ps.dynBSID = NoAddr
    BY <1>2 DEF Bound
  <2>2. PICK b \in Free(s) :
          t = [s EXCEPT !.ps.dynBSID = b, !.dyn = s.dyn \cup {b}]
    BY <1>2 DEF Bound
  <2>3. b \in BSID /\ b \notin s.dyn
    BY <2>2, ReconcilerAssumption DEF Free
  <2>4. s \in Work
    BY DEF Sound, Fits
  <2>5. /\ t \in Work /\ t.owner = s.owner /\ t.orph = s.orph
        /\ t.dyn = s.dyn \cup {b} /\ t.ps.dynBSID = b
        /\ t.ps.hasActive = s.ps.hasActive /\ t.ps.installed = s.ps.installed
        /\ t.ps.cps = s.ps.cps
    BY <2>2, <2>3, <2>4 DEF Work, PolicyState
  <2>6. \A c \in BSID :
          c \in t.dyn <=> \/ t.ps.dynBSID = c
                          \/ \E j \in Others(k) : policies[j].dynBSID = c
    BY <2>1, <2>3, <2>5, NoAddrIsNoBSID DEF Sound, Fits
  <2>7. \A j \in Others(k) : policies[j].dynBSID # b
    BY <2>3 DEF Sound, Fits
  <2>8. Fits(k, t)
    BY <2>5, <2>6, <2>7 DEF Sound, Fits
  <2>9. OwnsActive(k, t)
    BY <2>5 DEF Sound, OwnsActive
  <2> QED  BY <2>1, <2>5, <2>8, <2>9 DEF Sound
<1> QED  BY <1>1, <1>2

LEMMA VerifiedType ==
  ASSUME NEW cp \in CandidatePath, NEW seen
  PROVE  Verified(cp, seen) \in CandidatePath
<1>1. CASE ~VerifySIDs
  BY <1>1 DEF Verified
<1>2. CASE VerifySIDs
  <2> DEFINE Miss(sl) == \E j \in DOMAIN sl.sids :
                 (j = 1 \/ j \in sl.verify) /\ sl.sids[j] \notin seen
             sls == {[sl EXCEPT !.unresolvable = sl.unresolvable \/ Miss(sl)]
                       : sl \in cp.sls}
  <2>1. ASSUME NEW sl \in cp.sls
        PROVE  [sl EXCEPT !.unresolvable = sl.unresolvable \/ Miss(sl)] \in SegmentList
    <3>1. sl \in SegmentList
      BY DEF CandidatePath
    <3>2. (sl.unresolvable \/ Miss(sl)) \in BOOLEAN
      OBVIOUS
    <3> HIDE DEF Miss
    <3> QED  BY <3>1, <3>2 DEF SegmentList
  <2>2. sls \in SUBSET SegmentList
    BY <2>1
  <2>3. Verified(cp, seen) = [cp EXCEPT !.sls = sls]
    BY <1>2 DEF Verified
  <2> HIDE DEF sls
  <2> QED  BY <2>2, <2>3 DEF CandidatePath
<1> QED  BY <1>1, <1>2

(* The chosen path is one to claim: typed, with an address for BSID that   *)
(* no other policy owns.                                                   *)
LEMMA BestIsClaimable ==
  ASSUME NEW k \in Key, NEW s \in Work, NEW seen, NEW cp \in Best(k, s, seen)
  PROVE  /\ cp \in CandidatePath
         /\ cp.bsid \in BSID
         /\ s.owner[cp.bsid] \in {NoKey, k}
<1>1. cp \in Candidates(k, s, seen) /\ Valid(cp)
  BY DEF Best, SelectActive
<1>2. HasBSID(cp)
  BY <1>1 DEF Candidates, NeedsBSID, Valid
<1>3. PICK c \in s.ps.cps : cp = BoundPath(Verified(c.path, seen), s.ps.dynBSID)
  BY <1>1 DEF Candidates
<1>4. c.path \in CandidatePath /\ s.ps.dynBSID \in BSID \cup {NoAddr}
  BY DEF Work, PolicyState, Candidate
<1>5. Verified(c.path, seen) \in CandidatePath
  BY <1>4, VerifiedType
<1>6. cp \in CandidatePath
  <2> DEFINE v == Verified(c.path, seen)
  <2>1. v \in CandidatePath
    BY <1>5
  <2> HIDE DEF v
  <2>2. BoundPath(v, s.ps.dynBSID) \in CandidatePath
    BY <2>1, <1>4 DEF BoundPath, CandidatePath
  <2> QED  BY <2>2, <1>3 DEF v
<1> QED  BY <1>1, <1>2, <1>6 DEF HasBSID, Candidates

-----------------------------------------------------------------------------
(* The branches of reconcile.                                              *)

LEMMA TakeDownSound ==
  ASSUME NEW k \in Key, NEW s, Sound(k, s), s.ps.hasActive,
         NEW t \in TakeDown(k, s)
  PROVE  Sound(k, t) /\ t.ps.dynBSID = s.ps.dynBSID
<1>1. /\ s \in Work /\ s.dp \in Dataplane
      /\ s.ps.installed \in CandidatePath /\ s.ps.installed.bsid \in BSID
  BY DEF Sound, Fits, OwnsActive, Work, PolicyState
<1> DEFINE after(o) == [s EXCEPT !.dp = o.dp]
           down(o) == [Disown(after(o)) EXCEPT !.ps.hasActive = FALSE]
<1>2. PICK o \in Remove(s.dp, k, s.ps.installed) :
        \/ ~o.ok /\ t = after(o)
        \/ o.ok /\ s.ps.installed.drop /\ t \in Engage(k, down(o))
        \/ o.ok /\ ~s.ps.installed.drop /\ t = down(o)
  BY DEF TakeDown
<1>3. o.dp \in Dataplane
  BY <1>1, RemoveType DEF Outcomes
<1>4. Sound(k, after(o)) /\ after(o).ps = s.ps
  BY <1>1, <1>3, TouchSound DEF Work
<1>5. Sound(k, down(o)) /\ down(o).ps.dynBSID = s.ps.dynBSID
  <2> HIDE DEF after
  <2> QED  BY <1>4, DownSound
<1> HIDE DEF after, down
<1> QED  BY <1>2, <1>4, <1>5, EngageSound

LEMMA SwitchSound ==
  ASSUME NEW k \in Key, NEW s, Sound(k, s), s.ps.hasActive,
         NEW cp \in CandidatePath, cp.bsid \in BSID,
         s.owner[cp.bsid] \in {NoKey, k},
         NEW t \in Switch(k, s, cp)
  PROVE  Sound(k, t) /\ t.ps.dynBSID = s.ps.dynBSID
<1>1. /\ s \in Work /\ s.dp \in Dataplane
      /\ s.ps.installed \in CandidatePath /\ s.ps.installed.bsid \in BSID
  BY DEF Sound, Fits, OwnsActive, Work, PolicyState
<1> DEFINE after(o) == [s EXCEPT !.dp = o.dp]
<1>2. PICK o \in Replace(s.dp, k, s.ps.installed, cp) :
        t = IF o.ok THEN Claim(k, Disown(after(o)), cp) ELSE after(o)
  BY DEF Switch
<1>3. o.dp \in Dataplane
  BY <1>1, ReplaceType DEF Outcomes
<1>4. Sound(k, after(o)) /\ after(o).ps = s.ps /\ after(o).owner = s.owner
  BY <1>1, <1>3, TouchSound DEF Work
<1> HIDE DEF after
<1>5. /\ Fits(k, Disown(after(o)))
      /\ \A b \in BSID : Disown(after(o)).owner[b] # k
      /\ Disown(after(o)).ps = s.ps
  BY <1>4, DisownFits
<1>6. Disown(after(o)).owner[cp.bsid] = NoKey
  <2>1. after(o) \in Work
    BY <1>4 DEF Sound, Fits
  <2>2. Disown(after(o)).owner =
          [after(o).owner EXCEPT ![after(o).ps.installed.bsid] = NoKey]
    BY <2>1 DEF Disown, Work
  <2>3. s.owner \in [BSID -> Key \cup {NoKey}]
    BY <1>1 DEF Work
  <2>4. Disown(after(o)).owner[cp.bsid] \in {NoKey, s.owner[cp.bsid]}
    BY <2>2, <2>3, <1>4
  <2> QED  BY <2>4, <1>5
<1>7. /\ Sound(k, Claim(k, Disown(after(o)), cp))
      /\ Claim(k, Disown(after(o)), cp).ps.dynBSID = s.ps.dynBSID
  BY <1>5, <1>6, ClaimSound
<1> QED  BY <1>2, <1>4, <1>7

LEMMA BringUpSound ==
  ASSUME NEW k \in Key, NEW s, Sound(k, s), ~s.ps.hasActive,
         NEW cp \in CandidatePath, cp.bsid \in BSID,
         s.owner[cp.bsid] \in {NoKey, k},
         NEW t \in BringUp(k, s, cp)
  PROVE  Sound(k, t) /\ t.ps.dynBSID = s.ps.dynBSID
<1> DEFINE after(r, o) == [r EXCEPT !.dp = o.dp]
<1>1. PICK r \in Release(k, s) :
        \/ r.ps.dropped /\ t = r
        \/ \E o \in Add(r.dp, k, cp) :
             t = IF o.ok THEN Claim(k, after(r, o), cp) ELSE after(r, o)
  BY DEF BringUp
<1>2. /\ Sound(k, r) /\ ~r.ps.hasActive /\ r.ps.dynBSID = s.ps.dynBSID
      /\ r.owner = s.owner
  BY ReleaseSound
<1>3. r \in Work /\ r.dp \in Dataplane
  BY <1>2 DEF Sound, Fits, Work
<1>4. ASSUME NEW o \in Add(r.dp, k, cp)
      PROVE  /\ Sound(k, after(r, o)) /\ after(r, o).ps = r.ps
             /\ after(r, o).owner = s.owner
  <2>1. o.dp \in Dataplane
    BY <1>3, AddType DEF Outcomes
  <2> QED  BY <1>2, <1>3, <2>1, TouchSound DEF Work
<1> HIDE DEF after
<1>5. ASSUME NEW o \in Add(r.dp, k, cp)
      PROVE  /\ Sound(k, Claim(k, after(r, o), cp))
             /\ Claim(k, after(r, o), cp).ps.dynBSID = s.ps.dynBSID
  <2>1. Fits(k, after(r, o)) /\ \A b \in BSID : after(r, o).owner[b] # k
    BY <1>2, <1>4 DEF Sound, OwnsActive
  <2>2. after(r, o).owner[cp.bsid] = NoKey
    BY <1>4, <2>1
  <2> QED  BY <1>2, <1>4, <2>1, <2>2, ClaimSound
<1> QED  BY <1>1, <1>2, <1>4, <1>5

LEMMA DecideSound ==
  ASSUME NEW k \in Key, NEW s, Sound(k, s), NEW seen,
         NEW t \in Decide(k, s, Best(k, s, seen))
  PROVE  Sound(k, t) /\ t.ps.dynBSID = s.ps.dynBSID
<1> DEFINE best == Best(k, s, seen)
<1>1. CASE best = {}
  BY <1>1, TakeDownSound DEF Decide
<1>2. CASE best # {}
  <2>1. PICK cp \in best :
          \/ ~s.ps.hasActive /\ t \in BringUp(k, s, cp)
          \/ s.ps.hasActive /\ t = s
          \/ s.ps.hasActive /\ t \in Switch(k, s, cp)
    BY <1>2 DEF Decide, Pursue
  <2>2. s \in Work
    BY DEF Sound, Fits
  <2>3. cp \in CandidatePath /\ cp.bsid \in BSID /\ s.owner[cp.bsid] \in {NoKey, k}
    BY <2>2, BestIsClaimable
  <2> HIDE DEF best
  <2> QED  BY <2>1, <2>3, BringUpSound, SwitchSound
<1> QED  BY <1>1, <1>2

LEMMA ReconcileSound ==
  ASSUME NEW k \in Key, NEW s, Sound(k, s), NEW t \in Reconcile(k, s)
  PROVE  /\ Sound(k, t)
         /\ s.ps.dynBSID # NoAddr => t.ps.dynBSID = s.ps.dynBSID
<1>1. PICK r \in Bound(s), seen \in Lookups : t \in Decide(k, r, Best(k, r, seen))
  BY DEF Reconcile
<1>2. Sound(k, r) /\ (s.ps.dynBSID # NoAddr => r.ps.dynBSID = s.ps.dynBSID)
  BY BoundSound
<1> QED  BY <1>1, <1>2, DecideSound

LEMMA ZeroPathType == ZeroPath \in CandidatePath /\ NewPolicy \in PolicyState
<1>1. ZeroPath \in CandidatePath
  BY DEF ZeroPath, CandidatePath, Originator
<1> QED  BY <1>1 DEF NewPolicy, PolicyState

LEMMA CleanupSound ==
  ASSUME NEW k \in Key, NEW s, Sound(k, s), NEW t \in CleanupIfGone(k, s)
  PROVE  Sound(k, t) /\ (t.ps.dynBSID = s.ps.dynBSID \/ t.ps = NewPolicy)
<1> DEFINE gone(r) == [r EXCEPT !.dyn = r.dyn \ {r.ps.dynBSID}, !.ps = NewPolicy]
<1>1. CASE t = s
  BY <1>1
<1>2. CASE t # s
  <2>1. ~s.ps.hasActive
    BY <1>2 DEF CleanupIfGone
  <2>2. PICK r \in Release(k, s) : t = r \/ t = gone(r)
    BY <1>2 DEF CleanupIfGone
  <2>3. Sound(k, r) /\ ~r.ps.hasActive /\ r.ps.dynBSID = s.ps.dynBSID
    BY <2>1, ReleaseSound
  <2>4. r \in Work
    BY <2>3 DEF Sound, Fits
  <2>5. /\ gone(r) \in Work /\ gone(r).ps = NewPolicy
        /\ gone(r).owner = r.owner /\ gone(r).orph = r.orph
        /\ gone(r).dyn = r.dyn \ {r.ps.dynBSID}
    BY <2>4, ZeroPathType DEF Work
  <2>6. NewPolicy.dynBSID = NoAddr /\ ~NewPolicy.hasActive
    BY DEF NewPolicy
  <2> HIDE DEF gone
  <2>7. OwnsActive(k, gone(r))
    BY <2>3, <2>5, <2>6 DEF Sound, OwnsActive
  <2>8. \A b \in BSID :
          b \in gone(r).dyn <=> \/ gone(r).ps.dynBSID = b
                                \/ \E j \in Others(k) : policies[j].dynBSID = b
    BY <2>3, <2>5, <2>6, NoAddrIsNoBSID DEF Sound, Fits
  <2>9. Fits(k, gone(r))
    BY <2>3, <2>5, <2>6, <2>8 DEF Sound, Fits
  <2> QED  BY <2>2, <2>3, <2>5, <2>7, <2>9 DEF Sound
<1> QED  BY <1>1, <1>2

-----------------------------------------------------------------------------
(* What a handler starts from, and what it stores.                         *)

LEMMA ViewSound ==
  ASSUME Tables, NEW k \in Key, NEW ps \in PolicyState,
         ps.installed = policies[k].installed,
         ps.hasActive = policies[k].hasActive,
         ps.dynBSID = policies[k].dynBSID
  PROVE  Sound(k, View(ps))
<1> DEFINE s == View(ps)
<1>1. /\ s \in Work /\ s.ps = ps /\ s.owner = bsidOwner
      /\ s.dyn = dynUsed /\ s.orph = orphans
  BY DEF Tables, View, Work
<1> HIDE DEF s
<1>2. OwnsActive(k, s)
  BY <1>1 DEF Tables, OwnerExact, OwnsActive, Active, ActiveBSID
<1>3. \A b \in BSID, j \in Others(k) :
        s.owner[b] = j <=> Active(j) /\ ActiveBSID(j) = b
  BY <1>1 DEF Tables, OwnerExact, Others
<1>4. \A b \in BSID :
        b \in s.dyn <=> \/ s.ps.dynBSID = b
                        \/ \E j \in Others(k) : policies[j].dynBSID = b
  BY <1>1, NoAddrIsNoBSID DEF Tables, DynExact, Others
<1>5. \A j \in Others(k) :
        policies[j].dynBSID = s.ps.dynBSID => s.ps.dynBSID = NoAddr
  BY <1>1 DEF Tables, DynExact, Others
<1>6. Fits(k, s)
  BY <1>1, <1>3, <1>4, <1>5 DEF Tables, Fits
<1> QED  BY <1>2, <1>6 DEF Sound, s

LEMMA CommitTables ==
  ASSUME Tables, NEW k \in Key, NEW s, Sound(k, s), Commit(k, s)
  PROVE  Tables'
<1>1. s \in Work
  BY DEF Sound, Fits
<1>2. /\ policies' \in [Key -> PolicyState]
      /\ policies'[k] = s.ps
      /\ \A j \in Others(k) : policies'[j] = policies[j]
  BY <1>1 DEF Tables, Commit, Work, Others
<1>3. /\ bsidOwner' = s.owner /\ dynUsed' = s.dyn
      /\ orphans' = s.orph /\ dp' = s.dp
  BY DEF Commit
<1>4. /\ bsidOwner' \in [BSID -> Key \cup {NoKey}]
      /\ dynUsed' \subseteq BSID /\ orphans' \subseteq BSID /\ dp' \in Dataplane
  BY <1>1, <1>3 DEF Work
<1>5. \A j \in Key : Active(j)' => ActiveBSID(j)' \in BSID
  BY <1>2 DEF Tables, Sound, OwnsActive, Active, ActiveBSID, Others
<1>6. OwnerExact'
  <2> SUFFICES ASSUME NEW b \in BSID, NEW j \in Key
               PROVE  bsidOwner'[b] = j <=> Active(j)' /\ ActiveBSID(j)' = b
    BY DEF OwnerExact
  <2>1. CASE j = k
    BY <2>1, <1>2, <1>3 DEF Sound, OwnsActive, Active, ActiveBSID
  <2>2. CASE j # k
    BY <2>2, <1>2, <1>3 DEF Sound, Fits, Active, ActiveBSID, Others
  <2> QED  BY <2>1, <2>2
<1>7. \A b \in orphans' : bsidOwner'[b] = NoKey
  BY <1>3 DEF Sound, Fits
<1>8. DynExact'
  <2>1. \A b \in BSID : b \in dynUsed' <=> \E j \in Key : policies'[j].dynBSID = b
    BY <1>2, <1>3 DEF Sound, Fits, Others
  <2>2. \A j \in Key : policies'[j].dynBSID \in BSID \cup {NoAddr}
    BY <1>2 DEF PolicyState
  <2>3. dynUsed' = {policies'[j].dynBSID : j \in Key} \ {NoAddr}
    BY <1>4, <2>1, <2>2, NoAddrIsNoBSID
  <2>4. ASSUME NEW i \in Key, NEW j \in Key,
               policies'[i].dynBSID = policies'[j].dynBSID, i # j
        PROVE  policies'[j].dynBSID = NoAddr
    BY <2>4, <1>2 DEF Tables, DynExact, Sound, Fits, Others
  <2> QED  BY <2>3, <2>4 DEF DynExact
<1> QED  BY <1>2, <1>4, <1>5, <1>6, <1>7, <1>8 DEF Tables

(* A handler that has changed the paths of a policy and settles it.        *)
LEMMA SettleKeeps ==
  ASSUME Tables, NEW k \in Key, NEW C \in SUBSET Candidate,
         Settle(k, [policies[k] EXCEPT !.cps = C])
  PROVE  Tables' /\ KeepsDyn
<1> DEFINE ps == [policies[k] EXCEPT !.cps = C]
<1>1. /\ ps \in PolicyState
      /\ ps.installed = policies[k].installed
      /\ ps.hasActive = policies[k].hasActive
      /\ ps.dynBSID = policies[k].dynBSID
  BY DEF Tables, PolicyState
<1> HIDE DEF ps
<1>2. Sound(k, View(ps)) /\ View(ps).ps = ps
  BY <1>1, ViewSound DEF View
<1>3. PICK s \in Reconcile(k, View(ps)) : \E t \in CleanupIfGone(k, s) : Commit(k, t)
  BY DEF Settle, ps
<1>4. PICK t \in CleanupIfGone(k, s) : Commit(k, t)
  BY <1>3
<1>5. Sound(k, s) /\ (ps.dynBSID # NoAddr => s.ps.dynBSID = ps.dynBSID)
  BY <1>2, ReconcileSound
<1>6. Sound(k, t) /\ (t.ps.dynBSID = s.ps.dynBSID \/ t.ps = NewPolicy)
  BY <1>5, CleanupSound
<1>7. Tables'
  BY <1>4, <1>6, CommitTables
<1>8. /\ policies'[k] = t.ps
      /\ \A j \in Others(k) : policies'[j] = policies[j]
  BY <1>4 DEF Tables, Commit, Others
<1>9. KeepsDyn
  BY <1>1, <1>5, <1>6, <1>8 DEF KeepsDyn, Others
<1> QED  BY <1>7, <1>9

LEMMA SameTables ==
  ASSUME Tables, UNCHANGED <<mem, dp>>
  PROVE  Tables' /\ KeepsDyn
BY DEF Tables, mem, Active, ActiveBSID, OwnerExact, DynExact, KeepsDyn

-----------------------------------------------------------------------------
(* Init and the steps.                                                     *)

LEMMA FreshTables ==
  ASSUME policies' = [k \in Key |-> NewPolicy],
         bsidOwner' = [b \in BSID |-> NoKey],
         dynUsed' = {}, orphans' = {}, dp' \in Dataplane
  PROVE  Tables'
<1>1. ~NewPolicy.hasActive /\ NewPolicy.dynBSID = NoAddr
  BY DEF NewPolicy
<1>2. policies' \in [Key -> PolicyState]
  BY ZeroPathType
<1>3. OwnerExact'
  BY <1>1, KeyIsNotNoKey DEF OwnerExact, Active
<1>4. DynExact'
  BY <1>1 DEF DynExact
<1> QED  BY <1>1, <1>2, <1>3, <1>4 DEF Tables, Active

LEMMA InitIInv == Init => IInv
<1> SUFFICES ASSUME Init PROVE IInv
  OBVIOUS
<1>1. ~NewPolicy.hasActive /\ NewPolicy.dynBSID = NoAddr
  BY DEF NewPolicy
<1>2. /\ policies \in [Key -> PolicyState] /\ bsidOwner \in [BSID -> Key \cup {NoKey}]
      /\ dynUsed = {} /\ orphans = {} /\ dp \in Dataplane
      /\ \A k \in Key : policies[k] = NewPolicy
      /\ \A b \in BSID : bsidOwner[b] = NoKey
  BY ZeroPathType, ReconcilerAssumption DEF Init
<1>3. OwnerExact
  BY <1>1, <1>2, KeyIsNotNoKey DEF OwnerExact, Active
<1>4. DynExact
  BY <1>1, <1>2 DEF DynExact
<1>5. Tables
  BY <1>1, <1>2, <1>3, <1>4 DEF Tables, Active
<1>6. Control
  BY DEF Init, Control
<1> QED  BY <1>5, <1>6 DEF IInv

LEMMA ApplyKeeps ==
  ASSUME IInv, Apply
  PROVE  IInv' /\ KeepsDyn
<1>1. PICK u \in Updates : Announce(u.key, u.path) \/ Withdraw(u.key, u.path.disc)
  BY DEF Apply
<1>2. u.key \in Key /\ u.path \in CandidatePath
  BY ReconcilerAssumption
<1>3. policies[u.key].cps \in SUBSET Candidate
  BY <1>2 DEF IInv, Tables, PolicyState
<1>4. CASE Announce(u.key, u.path)
  <2> DEFINE C == {c \in policies[u.key].cps : c.path.disc # u.path.disc}
                     \cup {[path |-> u.path, gen |-> gen]}
  <2>1. C \in SUBSET Candidate
    BY <1>2, <1>3 DEF IInv, Control, Candidate
  <2>2. Settle(u.key, [policies[u.key] EXCEPT !.cps = C])
    BY <1>4 DEF Announce
  <2> HIDE DEF C
  <2>3. Tables' /\ KeepsDyn
    BY <1>2, <2>1, <2>2, SettleKeeps DEF IInv
  <2> QED  BY <1>4, <2>3 DEF Announce, IInv, Control, loop
<1>5. CASE Withdraw(u.key, u.path.disc)
  <2> DEFINE C == {c \in policies[u.key].cps : c.path.disc # u.path.disc}
  <2>1. C \in SUBSET Candidate
    BY <1>3
  <2>2. Settle(u.key, [policies[u.key] EXCEPT !.cps = C])
    BY <1>5 DEF Withdraw
  <2> HIDE DEF C
  <2>3. Tables' /\ KeepsDyn
    BY <1>2, <2>1, <2>2, SettleKeeps DEF IInv
  <2> QED  BY <1>5, <2>3 DEF Withdraw, IInv, Control, loop
<1> QED  BY <1>1, <1>4, <1>5

LEMMA RunKeeps ==
  ASSUME IInv, Run
  PROVE  IInv' /\ KeepsDyn
<1>1. /\ UNCHANGED <<policies, bsidOwner, dynUsed, dp>>
      /\ orphans' \subseteq BSID
      /\ \A b \in orphans' : bsidOwner'[b] = NoKey
  BY DEF Run, IInv, Tables, InstalledBSIDs
<1>2. Tables'
  BY <1>1 DEF IInv, Tables, Active, ActiveBSID, OwnerExact, DynExact
<1>3. Control'
  BY DEF Run, IInv, Control, loop
<1> QED  BY <1>1, <1>2, <1>3 DEF IInv, KeepsDyn

LEMMA SweepKeeps ==
  ASSUME IInv, NEW k \in todo, Sweep(k)
  PROVE  IInv' /\ KeepsDyn
<1>1. k \in Key
  BY DEF Sweep, IInv, Control
<1> DEFINE C == {c \in policies[k].cps : c.gen >= gen}
<1>2. C \in SUBSET Candidate
  BY <1>1 DEF IInv, Tables, PolicyState
<1>3. \/ UNCHANGED <<mem, dp>>
      \/ Settle(k, [policies[k] EXCEPT !.cps = C])
  BY DEF Sweep
<1> HIDE DEF C
<1>4. Tables' /\ KeepsDyn
  BY <1>1, <1>2, <1>3, SettleKeeps, SameTables DEF IInv
<1>5. Control'
  BY DEF Sweep, IInv, Control
<1> QED  BY <1>4, <1>5 DEF IInv

LEMMA RevalidateKeeps ==
  ASSUME IInv, NEW k \in todo, RevalidateNext(k)
  PROVE  IInv' /\ KeepsDyn
<1>1. k \in Key
  BY DEF RevalidateNext, IInv, Control
<1>2. /\ policies[k].cps \in SUBSET Candidate
      /\ policies[k] = [policies[k] EXCEPT !.cps = policies[k].cps]
  BY <1>1 DEF IInv, Tables, PolicyState
<1>3. Settle(k, [policies[k] EXCEPT !.cps = policies[k].cps])
  BY <1>2 DEF RevalidateNext
<1>4. Tables' /\ KeepsDyn
  BY <1>1, <1>2, <1>3, SettleKeeps DEF IInv
<1>5. Control'
  BY DEF RevalidateNext, IInv, Control
<1> QED  BY <1>4, <1>5 DEF IInv

LEMMA CollectKeeps ==
  ASSUME IInv, NEW b \in todo, CollectOrphan(b)
  PROVE  IInv' /\ KeepsDyn
<1>1. b \in BSID
  BY DEF CollectOrphan, IInv, Control
<1>2. /\ UNCHANGED <<policies, bsidOwner, dynUsed>>
      /\ orphans' \subseteq orphans
  BY DEF CollectOrphan
<1>3. dp' \in Dataplane
  BY <1>1, DeletePolicyType DEF CollectOrphan, RemoveBSID, Outcomes, IInv, Tables
<1>4. Tables'
  BY <1>2, <1>3 DEF IInv, Tables, Active, ActiveBSID, OwnerExact, DynExact
<1>5. Control'
  BY DEF CollectOrphan, IInv, Control
<1> QED  BY <1>2, <1>4, <1>5 DEF IInv, KeepsDyn

LEMMA SweepDoneKeeps ==
  ASSUME IInv, SweepDone
  PROVE  IInv' /\ KeepsDyn
<1>1. /\ UNCHANGED <<policies, bsidOwner, dynUsed, dp>>
      /\ orphans' \subseteq orphans
  BY DEF SweepDone
<1>2. Tables'
  BY <1>1 DEF IInv, Tables, Active, ActiveBSID, OwnerExact, DynExact
<1>3. Control'
  BY DEF SweepDone, Enter, Present, IInv, Tables, Control
<1> QED  BY <1>1, <1>2, <1>3 DEF IInv, KeepsDyn

LEMMA RestartKeeps ==
  ASSUME IInv, Restart
  PROVE  IInv' /\ KeepsDyn
<1>1. Tables'
  BY FreshTables DEF Restart, IInv, Tables
<1>2. Control'
  BY DEF Restart, Enter, IInv, Control
<1>3. KeepsDyn
  BY DEF Restart, KeepsDyn
<1> QED  BY <1>1, <1>2, <1>3 DEF IInv

(* The steps that touch neither tables nor dataplane.                      *)
LEMMA QuietKeeps ==
  ASSUME IInv,
         \/ Synced \/ CollectDone \/ RevalidateStart \/ RevalidateDone
         \/ Disconnect \/ Fib \/ Calm \/ UNCHANGED vars
  PROVE  IInv' /\ KeepsDyn
<1>1. UNCHANGED <<mem, dp>>
  BY DEF Synced, SyncedStart, CollectDone, RevalidateStart, RevalidateDone,
         Disconnect, Fib, FibChange, Calm, vars
<1>2. Tables' /\ KeepsDyn
  BY <1>1, SameTables DEF IInv
<1>3. Control'
  <2> USE DEF IInv, Control, Enter, Present, loop
  <2>1. CASE Synced
    BY <2>1 DEF Synced, SyncedStart
  <2>2. CASE CollectDone \/ RevalidateStart \/ RevalidateDone
    BY <2>2 DEF CollectDone, RevalidateStart, RevalidateDone
  <2>3. CASE Disconnect \/ Calm \/ UNCHANGED vars
    BY <2>3 DEF Disconnect, Calm, vars
  <2>4. CASE Fib
    BY <2>4 DEF Fib, FibChange
  <2> QED  BY <2>1, <2>2, <2>3, <2>4
<1> QED  BY <1>2, <1>3 DEF IInv

LEMMA StepKeeps == IInv /\ [Next]_vars => IInv' /\ KeepsDyn
<1> SUFFICES ASSUME IInv, [Next]_vars PROVE IInv' /\ KeepsDyn
  OBVIOUS
<1>1. CASE Run
  BY <1>1, RunKeeps
<1>2. CASE Apply
  BY <1>2, ApplyKeeps
<1>3. CASE SweepOne
  BY <1>3, SweepKeeps DEF SweepOne
<1>4. CASE SweepDone
  BY <1>4, SweepDoneKeeps
<1>5. CASE CollectOne
  BY <1>5, CollectKeeps DEF CollectOne
<1>6. CASE RevalidateOne
  BY <1>6, RevalidateKeeps DEF RevalidateOne
<1>7. CASE Restart
  BY <1>7, RestartKeeps
<1>8. CASE \/ Synced \/ CollectDone \/ RevalidateStart \/ RevalidateDone
           \/ Disconnect \/ Fib \/ Calm \/ UNCHANGED vars
  BY <1>8, QuietKeeps
<1> QED  BY <1>1, <1>2, <1>3, <1>4, <1>5, <1>6, <1>7, <1>8 DEF Next, Iterate

(* The invariant gives the properties.                                     *)
LEMMA IInvEnough == IInv => TypeOK /\ OwnerExact /\ OrphansUnclaimed /\ DynExact
<1> SUFFICES ASSUME IInv PROVE TypeOK /\ OwnerExact /\ OrphansUnclaimed /\ DynExact
  OBVIOUS
<1>1. TypeOK
  BY DEF IInv, Tables, Control, TypeOK
<1>2. OwnerExact /\ DynExact
  BY DEF IInv, Tables
<1>3. OrphansUnclaimed
  BY <1>2, KeyIsNotNoKey DEF IInv, Tables, OwnerExact, OrphansUnclaimed
<1> QED  BY <1>1, <1>2, <1>3

-----------------------------------------------------------------------------
(* IInv holds always: the Reconciler's tables fit together in every state. *)
THEOREM Invariance == Spec => []IInv
<1>1. Init => IInv
  BY InitIInv
<1>2. IInv /\ [Next]_vars => IInv'
  BY StepKeeps
<1> QED  BY <1>1, <1>2, PTL DEF Spec

(* Every variable of the reconciler keeps its type.                        *)
THEOREM TypeCorrect == Spec => []TypeOK
BY Invariance, IInvEnough, PTL

(* bsidOwner says exactly whose active BSID an address is, in every        *)
(* interleaving, whatever VPP refuses and whenever the daemon restarts.    *)
THEOREM OwnersExact == Spec => []OwnerExact
BY Invariance, IInvEnough, PTL

(* The orphan collection of synced never deletes a policy in use.          *)
THEOREM OrphanGCSafe == Spec => []OrphansUnclaimed
BY Invariance, IInvEnough, PTL

(* No address of the pool leaks and none is bound to two policies.         *)
THEOREM DynamicBSIDsExact == Spec => []DynExact
BY Invariance, IInvEnough, PTL

(* ensureDynBSID's binding stays for as long as the policy lives.          *)
THEOREM DynamicBSIDsStable == Spec => DynStable
<1>1. IInv /\ [Next]_vars => [KeepsDyn]_vars
  BY StepKeeps
<1> QED  BY <1>1, Invariance, PTL DEF Spec, DynStable, KeepsDyn

-----------------------------------------------------------------------------
(***************************************************************************)
(* What the reconciler believes is so in the dataplane: a policy that it   *)
(* takes for active is there, and an endpoint that it takes for dropped    *)
(* has the drop route.  Both need every reply to arrive (Unacked = FALSE), *)
(* and the second that no two policies share an endpoint.                  *)
(***************************************************************************)

(* Lists # {} as a predicate on the policies a dataplane holds.            *)
Holds(d, b) == d.policies[b] # {}

(* The policies of d and e agree but for those in B.                       *)
SamePolicies(d, e, B) == \A b \in BSID \ B : e.policies[b] = d.policies[b]

-----------------------------------------------------------------------------
(* What the port calls do to the policies.                                 *)

LEMMA WithPolicyEffect ==
  ASSUME NEW d \in Dataplane, NEW b \in BSID, NEW M
  PROVE  /\ SamePolicies(d, WithPolicy(d, b, M), {b})
         /\ WithPolicy(d, b, M).policies[b] = M
         /\ WithPolicy(d, b, M).drops = d.drops
BY DEF WithPolicy, Dataplane, SamePolicies

LEMMA DeleteEffect ==
  ASSUME NEW d \in Dataplane, NEW b \in BSID, NEW o \in DeletePolicy(d, b)
  PROVE  /\ SamePolicies(d, o.dp, {b})
         /\ o.dp.drops = d.drops
         /\ ~o.ok /\ ~Unacked => o.dp = d
<1>1. o.dp = d \/ o.dp = WithPolicy(d, b, {})
  BY DEF DeletePolicy, Done, Failed
<1>2. ~o.ok /\ ~Unacked => o.dp = d
  BY DEF DeletePolicy, Done, Failed, Silent
<1> QED  BY <1>1, <1>2 DEF WithPolicy, Dataplane, SamePolicies

LEMMA InstallEffect ==
  ASSUME NEW d \in Dataplane, NEW b \in BSID, NEW L, NEW o \in InstallPolicy(d, b, L)
  PROVE  /\ SamePolicies(d, o.dp, {b})
         /\ o.dp.drops = d.drops
         /\ o.ok => o.dp.policies[b] = L
<1>1. \/ o.dp = d /\ ~o.ok
      \/ \E M : o.dp = WithPolicy(d, b, M) /\ (o.ok => M = L)
  BY DEF InstallPolicy, Done, Failed
<1>2. CASE o.dp = d /\ ~o.ok
  BY <1>2 DEF SamePolicies
<1>3. CASE \E M : o.dp = WithPolicy(d, b, M) /\ (o.ok => M = L)
  <2>1. PICK M : o.dp = WithPolicy(d, b, M) /\ (o.ok => M = L)
    BY <1>3
  <2>2. /\ SamePolicies(d, WithPolicy(d, b, M), {b})
        /\ WithPolicy(d, b, M).policies[b] = M
        /\ WithPolicy(d, b, M).drops = d.drops
    BY WithPolicyEffect
  <2> QED  BY <2>1, <2>2
<1> QED  BY <1>1, <1>2, <1>3

LEMMA SteerEffect ==
  ASSUME NEW d \in Dataplane, NEW k \in Key, NEW b, NEW o \in SteerTo(d, k, b)
  PROVE  o.dp.policies = d.policies /\ o.dp.drops = d.drops
<1>1. o.dp = d \/ \E x : o.dp = WithSteering(d, EndpointOf[k], x)
  BY DEF SteerTo, Done, Failed
<1> QED  BY <1>1 DEF WithSteering, Dataplane

LEMMA UnsteerEffect ==
  ASSUME NEW d \in Dataplane, NEW k \in Key, NEW x \in Unsteered(d, k)
  PROVE  x.policies = d.policies /\ x.drops = d.drops
<1>1. x = d \/ x = WithSteering(d, EndpointOf[k], NoAddr)
  BY DEF Unsteered
<1> QED  BY <1>1 DEF WithSteering, Dataplane

LEMMA AddEffect ==
  ASSUME NEW d \in Dataplane, NEW k \in Key, NEW cp \in CandidatePath,
         cp.bsid \in BSID, NEW o \in Add(d, k, cp)
  PROVE  /\ SamePolicies(d, o.dp, {cp.bsid})
         /\ o.dp.drops = d.drops
         /\ o.ok => o.dp.policies[cp.bsid] = Rendered(cp)
<1>1. PICK i \in InstallPolicy(d, cp.bsid, Rendered(cp)) :
        \/ i.ok /\ o \in SteerTo(i.dp, k, cp.bsid)
        \/ ~i.ok /\ o = i
  BY DEF Add, Then
<1>2. i.dp \in Dataplane
  BY RenderedType, InstallPolicyType DEF Outcomes
<1>3. /\ SamePolicies(d, i.dp, {cp.bsid}) /\ i.dp.drops = d.drops
      /\ i.ok => i.dp.policies[cp.bsid] = Rendered(cp)
  BY InstallEffect
<1> QED  BY <1>1, <1>2, <1>3, SteerEffect DEF SamePolicies

(* However far an in-place update gets, a list is there.                   *)
LEMMA UpdateEffect ==
  ASSUME NEW d \in Dataplane, NEW b \in BSID, NEW L, L # {},
         NEW o \in UpdateInPlace(d, b, L)
  PROVE  /\ SamePolicies(d, o.dp, {b})
         /\ o.dp.drops = d.drops
         /\ o.ok => o.dp.policies[b] = L
         /\ Holds(d, b) => Holds(o.dp, b)
<1> DEFINE has == d.policies[b]
<1>1. CASE has = {}
  <2>1. o \in InstallPolicy(d, b, L) \/ (o.dp = d /\ ~o.ok)
    BY <1>1 DEF UpdateInPlace, Failed
  <2> QED  BY <1>1, <2>1, InstallEffect DEF SamePolicies, Holds
<1>2. CASE has # {}
  <2>1. \E M : /\ o.dp = WithPolicy(d, b, M)
               /\ o.ok => M = L
               /\ M # {}
    <3>1. CASE o \in Done(WithPolicy(d, b, L))
      BY <3>1 DEF Done
    <3>2. CASE o \notin Done(WithPolicy(d, b, L))
      <4>1. PICK M : /\ o = [dp |-> WithPolicy(d, b, M), ok |-> FALSE]
                     /\ \/ M = has
                        \/ \E A : M = has \cup A
                        \/ \E S \in SUBSET (has \ L) : M = (has \cup L) \ S
                        \/ M = has \cup L
                        \/ M = L
        BY <1>2, <3>2 DEF UpdateInPlace, Failed, ProperSubsets
      <4> QED  BY <1>2, <4>1
    <3> QED  BY <3>1, <3>2
  <2> QED  BY <1>2, <2>1 DEF WithPolicy, Dataplane, SamePolicies, Holds
<1> QED  BY <1>1, <1>2

LEMMA ReplaceEffect ==
  ASSUME NEW d \in Dataplane, NEW k \in Key,
         NEW prev \in CandidatePath, prev.bsid \in BSID,
         NEW next \in CandidatePath, next.bsid \in BSID,
         Rendered(next) # {}, NEW o \in Replace(d, k, prev, next)
  PROVE  /\ SamePolicies(d, o.dp, {prev.bsid, next.bsid})
         /\ o.dp.drops = d.drops
         /\ o.ok => o.dp.policies[next.bsid] = Rendered(next)
         /\ ~o.ok /\ Holds(d, prev.bsid) => Holds(o.dp, prev.bsid)
<1>1. CASE prev.bsid = next.bsid
  <2>1. o \in UpdateInPlace(d, next.bsid, Rendered(next))
    BY <1>1 DEF Replace
  <2> QED  BY <1>1, <2>1, UpdateEffect DEF SamePolicies
<1>2. CASE prev.bsid # next.bsid
  <2>1. PICK i \in Add(d, k, next) :
          \/ /\ i.ok
             /\ \E x \in DeletePolicy(i.dp, prev.bsid) : o = [x EXCEPT !.ok = TRUE]
          \/ ~i.ok /\ o = i
    BY <1>2 DEF Replace, Add, Then
  <2>2. i.dp \in Dataplane
    BY AddType DEF Outcomes
  <2>3. /\ SamePolicies(d, i.dp, {next.bsid}) /\ i.dp.drops = d.drops
        /\ i.ok => i.dp.policies[next.bsid] = Rendered(next)
    BY AddEffect
  <2>4. CASE ~i.ok
    BY <1>2, <2>1, <2>3, <2>4 DEF SamePolicies, Holds
  <2>5. CASE i.ok
    <3>1. PICK x \in DeletePolicy(i.dp, prev.bsid) : o = [x EXCEPT !.ok = TRUE]
      BY <2>1, <2>5
    <3>2. x \in Outcomes
      BY <2>2, DeletePolicyType
    <3>3. o.dp = x.dp /\ o.ok
      BY <3>1, <3>2 DEF Outcomes
    <3>4. SamePolicies(i.dp, o.dp, {prev.bsid}) /\ o.dp.drops = d.drops
      BY <2>2, <2>3, <3>3, DeleteEffect
    <3> QED  BY <1>2, <2>3, <2>5, <3>3, <3>4 DEF SamePolicies
  <2> QED  BY <2>4, <2>5
<1> QED  BY <1>1, <1>2

LEMMA RemoveEffect ==
  ASSUME NEW d \in Dataplane, NEW k \in Key, NEW cp \in CandidatePath,
         cp.bsid \in BSID, NEW o \in Remove(d, k, cp)
  PROVE  /\ SamePolicies(d, o.dp, {cp.bsid})
         /\ o.dp.drops = d.drops
         /\ ~o.ok /\ ~Unacked => o.dp.policies = d.policies
<1>1. PICK x : x \in Unsteered(d, k) \cup {d} /\ o \in DeletePolicy(x, cp.bsid)
  BY DEF Remove
<1>2. x \in Dataplane /\ x.policies = d.policies /\ x.drops = d.drops
  BY <1>1, UnsteeredType, UnsteerEffect
<1> QED  BY <1>1, <1>2, DeleteEffect DEF SamePolicies

LEMMA InstallDropEffect ==
  ASSUME NEW d \in Dataplane, NEW k \in Key, NEW o \in InstallDrop(d, k)
  PROVE  /\ o.dp.policies = d.policies
         /\ d.drops \subseteq o.dp.drops
         /\ o.ok => EndpointOf[k] \in o.dp.drops
<1> DEFINE Dropped(x) == [x EXCEPT !.drops = x.drops \cup {EndpointOf[k]}]
<1>1. PICK x : /\ x \in Unsteered(d, k) \cup {d}
               /\ o.dp = Dropped(x) \/ (o.dp = x /\ ~o.ok)
  <2>1. CASE k \notin Steerable
    BY <2>1 DEF InstallDrop, Failed
  <2>2. CASE k \in Steerable
    <3>1. PICK x \in Unsteered(d, k) :
            \/ o \in Done(Dropped(x))
            \/ o \in Failed({x})
            \/ o \in Failed({Dropped(x)})
      BY <2>2 DEF InstallDrop
    <3> HIDE DEF Dropped
    <3>2. o.dp = Dropped(x) \/ (o.dp = x /\ ~o.ok)
      BY <3>1 DEF Done, Failed
    <3> QED  BY <3>2
  <2> QED  BY <2>1, <2>2
<1>2. x \in Dataplane /\ x.policies = d.policies /\ x.drops = d.drops
  BY <1>1, UnsteeredType, UnsteerEffect
<1>3. /\ Dropped(x).policies = d.policies
      /\ Dropped(x).drops = d.drops \cup {EndpointOf[k]}
  BY <1>2 DEF Dataplane
<1> HIDE DEF Dropped
<1> QED  BY <1>1, <1>2, <1>3

LEMMA RemoveDropEffect ==
  ASSUME NEW d \in Dataplane, NEW k \in Key, NEW o \in RemoveDrop(d, k)
  PROVE  /\ o.dp.policies = d.policies
         /\ d.drops \ {EndpointOf[k]} \subseteq o.dp.drops
         /\ ~o.ok /\ ~Unacked => o.dp = d
<1> DEFINE gone == [d EXCEPT !.drops = d.drops \ {EndpointOf[k]}]
<1>1. o.dp = d \/ o.dp = gone
  BY DEF RemoveDrop, Done, Failed
<1>2. ~o.ok /\ ~Unacked => o.dp = d
  BY DEF RemoveDrop, Done, Failed, Silent
<1>3. gone.policies = d.policies /\ gone.drops = d.drops \ {EndpointOf[k]}
  BY DEF Dataplane
<1> HIDE DEF gone
<1> QED  BY <1>1, <1>2, <1>3

-----------------------------------------------------------------------------
(* No two policies have the same endpoint.                                 *)
Alone == \A i, j \in Key : EndpointOf[i] = EndpointOf[j] => i = j

(* ActiveInDataplane and DropEngaged for the record s of a handler of k.   *)
OthersHeld(k, d) == \A j \in Others(k) : Active(j) => Holds(d, ActiveBSID(j))
OthersBarred(k, d) ==
  \A j \in Others(k) : policies[j].dropped => EndpointOf[j] \in d.drops

Held(k, s) ==
  /\ s.ps.hasActive => Holds(s.dp, s.ps.installed.bsid)
  /\ OthersHeld(k, s.dp)

Barred(k, s) ==
  /\ s.ps.dropped => ~s.ps.hasActive /\ EndpointOf[k] \in s.dp.drops
  /\ OthersBarred(k, s.dp)

Solid(k, s) == Held(k, s) /\ (Alone => Barred(k, s))

Replies == Unacked = FALSE

(* A call that touches no BSID of another policy leaves theirs in place.   *)
LEMMA OthersStay ==
  ASSUME Tables, NEW k \in Key, NEW s, Fits(k, s), OthersHeld(k, s.dp),
         NEW e, NEW B, SamePolicies(s.dp, e, B),
         \A b \in B \cap BSID : s.owner[b] \in {NoKey, k}
  PROVE  OthersHeld(k, e)
<1> SUFFICES ASSUME NEW j \in Others(k), Active(j)
             PROVE  Holds(e, ActiveBSID(j))
  BY DEF OthersHeld
<1>1. ActiveBSID(j) \in BSID /\ j # k /\ j # NoKey
  BY KeyIsNotNoKey DEF Tables, Others
<1>2. s.owner[ActiveBSID(j)] = j
  BY <1>1 DEF Fits
<1>3. ActiveBSID(j) \notin B
  BY <1>1, <1>2
<1>4. e.policies[ActiveBSID(j)] = s.dp.policies[ActiveBSID(j)]
  BY <1>1, <1>3 DEF SamePolicies
<1> QED  BY <1>4 DEF OthersHeld, Holds

LEMMA ReleaseSolid ==
  ASSUME Replies, NEW k \in Key, NEW s, Sound(k, s), Solid(k, s),
         NEW t \in Release(k, s)
  PROVE  Solid(k, t)
<1>1. CASE ~s.ps.dropped
  BY <1>1 DEF Release
<1>2. CASE s.ps.dropped
  <2>1. s \in Work /\ s.dp \in Dataplane
    BY DEF Sound, Fits, Work
  <2>2. PICK o \in RemoveDrop(s.dp, k) :
          t = [s EXCEPT !.dp = o.dp, !.ps.dropped = ~o.ok]
    BY <1>2 DEF Release
  <2>3. /\ t.dp = o.dp /\ t.ps.dropped = ~o.ok
        /\ t.ps.hasActive = s.ps.hasActive
        /\ t.ps.installed = s.ps.installed
    BY <2>1, <2>2 DEF Work, PolicyState
  <2>4. /\ o.dp.policies = s.dp.policies
        /\ s.dp.drops \ {EndpointOf[k]} \subseteq o.dp.drops
        /\ ~o.ok => o.dp = s.dp
    BY <2>1, RemoveDropEffect DEF Replies
  <2>5. Held(k, t)
    BY <2>3, <2>4 DEF Solid, Held, OthersHeld, Holds
  <2>6. ASSUME Alone PROVE Barred(k, t)
    <3>1. \A j \in Others(k) : EndpointOf[j] # EndpointOf[k]
      BY <2>6 DEF Alone, Others
    <3> QED  BY <1>2, <2>3, <2>4, <2>6, <3>1 DEF Solid, Barred, OthersBarred
  <2> QED  BY <2>5, <2>6 DEF Solid
<1> QED  BY <1>1, <1>2

LEMMA EngageSolid ==
  ASSUME NEW k \in Key, NEW s, Sound(k, s), Solid(k, s), ~s.ps.hasActive,
         NEW t \in Engage(k, s)
  PROVE  Solid(k, t)
<1>1. s \in Work /\ s.dp \in Dataplane
  BY DEF Sound, Fits, Work
<1>2. PICK o \in InstallDrop(s.dp, k) :
        t = [s EXCEPT !.dp = o.dp, !.ps.dropped = s.ps.dropped \/ o.ok]
  BY DEF Engage
<1>3. /\ t.dp = o.dp /\ t.ps.dropped = (s.ps.dropped \/ o.ok)
      /\ t.ps.hasActive = s.ps.hasActive
  BY <1>1, <1>2 DEF Work, PolicyState
<1>4. /\ o.dp.policies = s.dp.policies
      /\ s.dp.drops \subseteq o.dp.drops
      /\ o.ok => EndpointOf[k] \in o.dp.drops
  BY <1>1, InstallDropEffect
<1> QED  BY <1>3, <1>4 DEF Solid, Held, Barred, OthersHeld, OthersBarred, Holds

LEMMA DownSolid ==
  ASSUME NEW k \in Key, NEW s, Sound(k, s), s.ps.hasActive,
         OthersHeld(k, s.dp),
         Alone => ~s.ps.dropped /\ OthersBarred(k, s.dp)
  PROVE  Solid(k, [Disown(s) EXCEPT !.ps.hasActive = FALSE])
<1> DEFINE t == Disown(s)
           u == [t EXCEPT !.ps.hasActive = FALSE]
<1>1. Fits(k, t) /\ t.ps = s.ps
  BY DisownFits
<1>2. t \in Work /\ s \in Work
  BY <1>1 DEF Fits, Sound
<1>3. t.dp = s.dp
  BY <1>2 DEF Work, Disown
<1> HIDE DEF t
<1>4. /\ u.dp = t.dp /\ u.ps.hasActive = FALSE /\ u.ps.dropped = t.ps.dropped
  BY <1>2 DEF Work, PolicyState
<1> HIDE DEF u
<1>5. Solid(k, u)
  BY <1>1, <1>3, <1>4 DEF Solid, Held, Barred
<1> QED  BY <1>5 DEF u, t

LEMMA ClaimSolid ==
  ASSUME NEW k \in Key, NEW s \in Work, NEW cp \in CandidatePath,
         Holds(s.dp, cp.bsid), OthersHeld(k, s.dp),
         Alone => ~s.ps.dropped /\ OthersBarred(k, s.dp)
  PROVE  Solid(k, Claim(k, s, cp))
<1> DEFINE t == Claim(k, s, cp)
<1>1. /\ t.dp = s.dp /\ t.ps.installed = cp /\ t.ps.dropped = s.ps.dropped
  BY DEF Work, PolicyState, Claim
<1> HIDE DEF t
<1>2. Solid(k, t)
  BY <1>1 DEF Solid, Held, Barred
<1> QED  BY <1>2 DEF t

LEMMA TakeDownSolid ==
  ASSUME Replies, Tables, NEW k \in Key, NEW s, Sound(k, s), Solid(k, s),
         s.ps.hasActive, NEW t \in TakeDown(k, s)
  PROVE  Solid(k, t)
<1>1. /\ s \in Work /\ s.dp \in Dataplane /\ Fits(k, s)
      /\ s.ps.installed \in CandidatePath /\ s.ps.installed.bsid \in BSID
      /\ s.owner[s.ps.installed.bsid] = k
  BY DEF Sound, Fits, OwnsActive, Work, PolicyState
<1> DEFINE after(o) == [s EXCEPT !.dp = o.dp]
           down(o) == [Disown(after(o)) EXCEPT !.ps.hasActive = FALSE]
<1>2. PICK o \in Remove(s.dp, k, s.ps.installed) :
        \/ ~o.ok /\ t = after(o)
        \/ o.ok /\ s.ps.installed.drop /\ t \in Engage(k, down(o))
        \/ o.ok /\ ~s.ps.installed.drop /\ t = down(o)
  BY DEF TakeDown
<1>3. o.dp \in Dataplane
  BY <1>1, RemoveType DEF Outcomes
<1>4. /\ Sound(k, after(o)) /\ after(o).ps = s.ps /\ after(o).dp = o.dp
  BY <1>1, <1>3, TouchSound DEF Work
<1>5. /\ SamePolicies(s.dp, o.dp, {s.ps.installed.bsid})
      /\ o.dp.drops = s.dp.drops
      /\ ~o.ok => o.dp.policies = s.dp.policies
  <2> DEFINE d == s.dp
             cp == s.ps.installed
  <2>1. d \in Dataplane /\ cp \in CandidatePath /\ cp.bsid \in BSID
    BY <1>1
  <2>2. o \in Remove(d, k, cp)
    OBVIOUS
  <2> HIDE DEF after, down, d, cp
  <2>3. /\ SamePolicies(d, o.dp, {cp.bsid})
        /\ o.dp.drops = d.drops
        /\ ~o.ok => o.dp.policies = d.policies
    BY <2>1, <2>2, RemoveEffect DEF Replies
  <2> QED  BY <2>3 DEF d, cp
<1>6. OthersHeld(k, o.dp)
  BY <1>1, <1>5, OthersStay DEF Solid, Held
<1>7. Alone => ~s.ps.dropped /\ OthersBarred(k, o.dp)
  BY <1>5 DEF Solid, Barred, OthersBarred
<1> HIDE DEF after
<1>8. /\ Sound(k, down(o)) /\ Solid(k, down(o)) /\ ~down(o).ps.hasActive
  <2>1. Sound(k, down(o)) /\ Solid(k, down(o))
    BY <1>4, <1>6, <1>7, DownSound, DownSolid
  <2>2. Disown(after(o)) \in Work
    BY <1>4, DisownFits DEF Fits
  <2>3. ~down(o).ps.hasActive
    BY <2>2 DEF Work, PolicyState
  <2> QED  BY <2>1, <2>3
<1> HIDE DEF down
<1>9. CASE ~o.ok /\ t = after(o)
  BY <1>4, <1>5, <1>6, <1>7, <1>9 DEF Solid, Held, Barred, Holds
<1> QED  BY <1>2, <1>8, <1>9, EngageSolid

LEMMA SwitchSolid ==
  ASSUME Tables, NEW k \in Key, NEW s, Sound(k, s), Solid(k, s),
         s.ps.hasActive, NEW cp \in CandidatePath, cp.bsid \in BSID,
         s.owner[cp.bsid] \in {NoKey, k}, Rendered(cp) # {},
         NEW t \in Switch(k, s, cp)
  PROVE  Solid(k, t)
<1>1. /\ s \in Work /\ s.dp \in Dataplane /\ Fits(k, s)
      /\ s.ps.installed \in CandidatePath /\ s.ps.installed.bsid \in BSID
      /\ s.owner[s.ps.installed.bsid] = k
  BY DEF Sound, Fits, OwnsActive, Work, PolicyState
<1> DEFINE after(o) == [s EXCEPT !.dp = o.dp]
<1>2. PICK o \in Replace(s.dp, k, s.ps.installed, cp) :
        t = IF o.ok THEN Claim(k, Disown(after(o)), cp) ELSE after(o)
  BY DEF Switch
<1>3. o.dp \in Dataplane
  BY <1>1, ReplaceType DEF Outcomes
<1>4. Sound(k, after(o)) /\ after(o).ps = s.ps /\ after(o).dp = o.dp
  BY <1>1, <1>3, TouchSound DEF Work
<1>5. /\ SamePolicies(s.dp, o.dp, {s.ps.installed.bsid, cp.bsid})
      /\ o.dp.drops = s.dp.drops
      /\ o.ok => o.dp.policies[cp.bsid] = Rendered(cp)
      /\ ~o.ok /\ Holds(s.dp, s.ps.installed.bsid)
           => Holds(o.dp, s.ps.installed.bsid)
  <2> DEFINE d == s.dp
             prev == s.ps.installed
  <2>1. /\ d \in Dataplane /\ prev \in CandidatePath /\ prev.bsid \in BSID
        /\ o \in Replace(d, k, prev, cp)
    BY <1>1
  <2> HIDE DEF after, d, prev
  <2>2. /\ SamePolicies(d, o.dp, {prev.bsid, cp.bsid})
        /\ o.dp.drops = d.drops
        /\ o.ok => o.dp.policies[cp.bsid] = Rendered(cp)
        /\ ~o.ok /\ Holds(d, prev.bsid) => Holds(o.dp, prev.bsid)
    BY <2>1, ReplaceEffect
  <2> QED  BY <2>2 DEF d, prev
<1>6. OthersHeld(k, o.dp)
  BY <1>1, <1>5, OthersStay DEF Solid, Held
<1>7. Alone => ~s.ps.dropped /\ OthersBarred(k, o.dp)
  BY <1>5 DEF Solid, Barred, OthersBarred
<1> HIDE DEF after
<1>8. CASE ~o.ok
  BY <1>2, <1>4, <1>5, <1>6, <1>7, <1>8 DEF Solid, Held, Barred
<1>9. CASE o.ok
  <2>1. /\ Disown(after(o)) \in Work /\ after(o) \in Work
        /\ Disown(after(o)).ps = s.ps
    BY <1>4, DisownFits DEF Fits, Sound
  <2>2. Disown(after(o)).dp = o.dp
    BY <1>4, <2>1 DEF Work, Disown
  <2>3. Holds(o.dp, cp.bsid)
    BY <1>5, <1>9 DEF Holds
  <2>4. Solid(k, Claim(k, Disown(after(o)), cp))
    BY <1>6, <1>7, <2>1, <2>2, <2>3, ClaimSolid
  <2> QED  BY <1>2, <1>9, <2>4
<1> QED  BY <1>8, <1>9

LEMMA BringUpSolid ==
  ASSUME Replies, Tables, NEW k \in Key, NEW s, Sound(k, s), Solid(k, s),
         ~s.ps.hasActive, NEW cp \in CandidatePath, cp.bsid \in BSID,
         s.owner[cp.bsid] \in {NoKey, k}, Rendered(cp) # {},
         NEW t \in BringUp(k, s, cp)
  PROVE  Solid(k, t)
<1> DEFINE after(r, o) == [r EXCEPT !.dp = o.dp]
<1>1. PICK r \in Release(k, s) :
        \/ r.ps.dropped /\ t = r
        \/ /\ ~r.ps.dropped
           /\ \E o \in Add(r.dp, k, cp) :
                t = IF o.ok THEN Claim(k, after(r, o), cp) ELSE after(r, o)
  BY DEF BringUp
<1>2. /\ Sound(k, r) /\ ~r.ps.hasActive /\ r.owner = s.owner /\ Solid(k, r)
  BY ReleaseSound, ReleaseSolid
<1>3. CASE t = r
  BY <1>2, <1>3
<1>4. CASE t # r
  <2>1. PICK o \in Add(r.dp, k, cp) :
          t = IF o.ok THEN Claim(k, after(r, o), cp) ELSE after(r, o)
    BY <1>1, <1>4
  <2>2. r \in Work /\ r.dp \in Dataplane /\ Fits(k, r) /\ ~r.ps.dropped
    BY <1>1, <1>2, <1>4 DEF Sound, Fits, Work
  <2>3. o.dp \in Dataplane
    BY <2>2, AddType DEF Outcomes
  <2>4. /\ after(r, o) \in Work /\ after(r, o).ps = r.ps
        /\ after(r, o).dp = o.dp
    BY <2>2, <2>3 DEF Work
  <2> HIDE DEF after
  <2>5. /\ SamePolicies(r.dp, o.dp, {cp.bsid})
        /\ o.dp.drops = r.dp.drops
        /\ o.ok => o.dp.policies[cp.bsid] = Rendered(cp)
    BY <2>2, AddEffect
  <2>6. OthersHeld(k, o.dp)
    BY <1>2, <2>2, <2>5, OthersStay DEF Solid, Held
  <2>7. Alone => OthersBarred(k, o.dp)
    BY <1>2, <2>5 DEF Solid, Barred, OthersBarred
  <2>8. CASE o.ok
    <3>1. Holds(o.dp, cp.bsid)
      BY <2>5, <2>8 DEF Holds
    <3>2. Solid(k, Claim(k, after(r, o), cp))
      BY <2>2, <2>4, <2>6, <2>7, <3>1, ClaimSolid
    <3> QED  BY <2>1, <2>8, <3>2
  <2>9. CASE ~o.ok
    BY <1>2, <2>1, <2>2, <2>4, <2>6, <2>7, <2>9 DEF Solid, Held, Barred
  <2> QED  BY <2>8, <2>9
<1> QED  BY <1>3, <1>4

-----------------------------------------------------------------------------
(* A handler.                                                              *)

LEMMA DecideSolid ==
  ASSUME Replies, Tables, NEW k \in Key, NEW s, Sound(k, s), Solid(k, s),
         NEW seen, NEW t \in Decide(k, s, Best(k, s, seen))
  PROVE  Solid(k, t)
<1> DEFINE best == Best(k, s, seen)
<1>1. CASE best = {}
  BY <1>1, TakeDownSolid DEF Decide
<1>2. CASE best # {}
  <2>1. PICK cp \in best :
          \/ ~s.ps.hasActive /\ t \in BringUp(k, s, cp)
          \/ s.ps.hasActive /\ t = s
          \/ s.ps.hasActive /\ t \in Switch(k, s, cp)
    BY <1>2 DEF Decide, Pursue
  <2>2. s \in Work
    BY DEF Sound, Fits
  <2>3. cp \in CandidatePath /\ cp.bsid \in BSID /\ s.owner[cp.bsid] \in {NoKey, k}
    BY <2>2, BestIsClaimable
  <2>4. Rendered(cp) # {}
    <3>1. Valid(cp)
      BY DEF Best, SelectActive
    <3> QED  BY <3>1 DEF Valid, Rendered
  <2> HIDE DEF best
  <2> QED  BY <2>1, <2>3, <2>4, BringUpSolid, SwitchSolid
<1> QED  BY <1>1, <1>2

LEMMA ReconcileSolid ==
  ASSUME Replies, Tables, NEW k \in Key, NEW s, Sound(k, s), Solid(k, s),
         NEW t \in Reconcile(k, s)
  PROVE  Solid(k, t)
<1>1. PICK r \in Bound(s), seen \in Lookups : t \in Decide(k, r, Best(k, r, seen))
  BY DEF Reconcile
<1>2. Solid(k, r)
  <2>1. r = s \/ \E b, D : r = [s EXCEPT !.ps.dynBSID = b, !.dyn = D]
    BY <1>1 DEF Bound
  <2>2. s \in Work
    BY DEF Sound, Fits
  <2>3. /\ r.dp = s.dp /\ r.ps.hasActive = s.ps.hasActive
        /\ r.ps.installed = s.ps.installed /\ r.ps.dropped = s.ps.dropped
    BY <2>1, <2>2 DEF Work, PolicyState
  <2> QED  BY <2>3 DEF Solid, Held, Barred
<1> QED  BY <1>1, <1>2, BoundSound, DecideSolid

LEMMA CleanupSolid ==
  ASSUME Replies, NEW k \in Key, NEW s, Sound(k, s), Solid(k, s),
         NEW t \in CleanupIfGone(k, s)
  PROVE  Solid(k, t)
<1>1. CASE t = s
  BY <1>1
<1>2. CASE t # s
  <2>1. PICK r \in Release(k, s) :
          \/ t = r
          \/ t = [r EXCEPT !.dyn = r.dyn \ {r.ps.dynBSID}, !.ps = NewPolicy]
    BY <1>2 DEF CleanupIfGone
  <2>2. Sound(k, r) /\ Solid(k, r)
    BY ReleaseSound, ReleaseSolid
  <2>3. CASE t = r
    BY <2>2, <2>3
  <2>4. CASE t # r
    <3>1. t.dp = r.dp /\ t.ps = NewPolicy
      BY <2>1, <2>2, <2>4 DEF Sound, Fits, Work
    <3>2. ~NewPolicy.hasActive /\ ~NewPolicy.dropped
      BY DEF NewPolicy
    <3> QED  BY <2>2, <3>1, <3>2 DEF Solid, Held, Barred
  <2> QED  BY <2>3, <2>4
<1> QED  BY <1>1, <1>2

(* Both properties, and for the collection: what it still has to delete    *)
(* is an orphan now, and was not only when the loop began.                 *)
DInv ==
  /\ ActiveInDataplane
  /\ Alone => DropEngaged
  /\ task = "gc" => todo \subseteq orphans

LEMMA SettleSolid ==
  ASSUME Replies, Tables, ActiveInDataplane, Alone => DropEngaged,
         NEW k \in Key, NEW C \in SUBSET Candidate,
         Settle(k, [policies[k] EXCEPT !.cps = C])
  PROVE  ActiveInDataplane' /\ (Alone => DropEngaged')
<1> DEFINE ps == [policies[k] EXCEPT !.cps = C]
<1>1. /\ ps \in PolicyState
      /\ ps.installed = policies[k].installed
      /\ ps.hasActive = policies[k].hasActive
      /\ ps.dynBSID = policies[k].dynBSID
      /\ ps.dropped = policies[k].dropped
  BY DEF Tables, PolicyState
<1>2. PICK s \in Reconcile(k, View(ps)) : \E t \in CleanupIfGone(k, s) : Commit(k, t)
  BY DEF Settle
<1> HIDE DEF ps
<1>3. PICK t \in CleanupIfGone(k, s) : Commit(k, t)
  BY <1>2
<1>4. Sound(k, View(ps)) /\ View(ps).ps = ps /\ View(ps).dp = dp
  BY <1>1, ViewSound DEF View
<1>5. Solid(k, View(ps))
  <2>1. Held(k, View(ps))
    BY <1>1, <1>4
       DEF Held, OthersHeld, Others, Holds, ActiveInDataplane, Active, ActiveBSID
  <2>2. Alone => Barred(k, View(ps))
    BY <1>1, <1>4 DEF Barred, OthersBarred, Others, DropEngaged, Active
  <2> QED  BY <2>1, <2>2 DEF Solid
<1>6. Sound(k, s) /\ Solid(k, s)
  BY <1>2, <1>4, <1>5, ReconcileSound, ReconcileSolid
<1>7. Sound(k, t) /\ Solid(k, t)
  BY <1>3, <1>6, CleanupSound, CleanupSolid
<1>8. /\ policies'[k] = t.ps /\ dp' = t.dp
      /\ \A j \in Others(k) : policies'[j] = policies[j]
  BY <1>3 DEF Tables, Commit, Others
<1>9. ActiveInDataplane'
  BY <1>7, <1>8
     DEF Solid, Held, OthersHeld, Others, Holds, ActiveInDataplane, Active, ActiveBSID
<1>10. Alone => DropEngaged'
  BY <1>7, <1>8 DEF Solid, Barred, OthersBarred, Others, DropEngaged, Active
<1> QED  BY <1>9, <1>10

-----------------------------------------------------------------------------
(* The steps.                                                              *)

LEMMA DInvInit == IInv /\ Init => DInv
<1>1. ~NewPolicy.hasActive /\ ~NewPolicy.dropped
  BY DEF NewPolicy
<1> QED  BY <1>1 DEF Init, DInv, ActiveInDataplane, DropEngaged, Active

LEMMA ApplySolid ==
  ASSUME Replies, IInv, DInv, Apply
  PROVE  DInv'
<1>1. PICK u \in Updates : Announce(u.key, u.path) \/ Withdraw(u.key, u.path.disc)
  BY DEF Apply
<1> DEFINE C == {c \in policies[u.key].cps : c.path.disc # u.path.disc}
           D == C \cup {[path |-> u.path, gen |-> gen]}
<1>2. u.key \in Key /\ u.path \in CandidatePath
  BY ReconcilerAssumption
<1>3. C \in SUBSET Candidate /\ D \in SUBSET Candidate
  BY <1>2 DEF IInv, Tables, Control, PolicyState, Candidate
<1>4. \/ Settle(u.key, [policies[u.key] EXCEPT !.cps = C])
      \/ Settle(u.key, [policies[u.key] EXCEPT !.cps = D])
  BY <1>1 DEF Announce, Withdraw
<1>5. task' = task /\ task = "idle"
  BY <1>1 DEF Announce, Withdraw, loop
<1> HIDE DEF C, D
<1> QED  BY <1>2, <1>3, <1>4, <1>5, SettleSolid DEF IInv, DInv

LEMMA LoopSolid ==
  ASSUME Replies, IInv, DInv, NEW k \in todo, Sweep(k) \/ RevalidateNext(k)
  PROVE  DInv'
<1>1. k \in Key /\ task' = task /\ task # "gc"
  BY DEF Sweep, RevalidateNext, IInv, Control
<1> DEFINE C == {c \in policies[k].cps : c.gen >= gen}
<1>2. C \in SUBSET Candidate /\ policies[k].cps \in SUBSET Candidate
  BY <1>1 DEF IInv, Tables, PolicyState
<1>3. policies[k] = [policies[k] EXCEPT !.cps = policies[k].cps]
  BY <1>1 DEF IInv, Tables, PolicyState
<1>4. \/ UNCHANGED <<mem, dp>>
      \/ Settle(k, [policies[k] EXCEPT !.cps = C])
      \/ Settle(k, [policies[k] EXCEPT !.cps = policies[k].cps])
  BY <1>3 DEF Sweep, RevalidateNext
<1> HIDE DEF C
<1>5. CASE UNCHANGED <<mem, dp>>
  BY <1>1, <1>5
     DEF mem, DInv, ActiveInDataplane, DropEngaged, Active, ActiveBSID
<1>6. CASE ~UNCHANGED <<mem, dp>>
  BY <1>1, <1>2, <1>4, <1>6, SettleSolid DEF IInv, DInv
<1> QED  BY <1>5, <1>6

(* Deleting an orphan deletes no active policy: no policy owns it.         *)
LEMMA CollectSolid ==
  ASSUME IInv, DInv, NEW b \in todo, CollectOrphan(b)
  PROVE  DInv'
<1>1. /\ b \in BSID /\ bsidOwner[b] = NoKey
  BY DEF CollectOrphan, IInv, Control, Tables, DInv
<1>2. /\ UNCHANGED <<policies, task>> /\ todo' = todo \ {b}
      /\ orphans \ {b} \subseteq orphans'
  BY DEF CollectOrphan
<1>3. SamePolicies(dp, dp', {b}) /\ dp'.drops = dp.drops
  BY <1>1, DeleteEffect DEF CollectOrphan, RemoveBSID, IInv, Tables
<1>4. \A k \in Key : Active(k) => ActiveBSID(k) \in BSID \ {b}
  BY <1>1, KeyIsNotNoKey DEF IInv, Tables, OwnerExact
<1>5. ActiveInDataplane'
  BY <1>2, <1>3, <1>4
     DEF SamePolicies, DInv, ActiveInDataplane, Active, ActiveBSID
<1> QED  BY <1>2, <1>3, <1>5 DEF DInv, DropEngaged, Active

LEMMA RestartSolid ==
  ASSUME Restart
  PROVE  DInv'
<1>1. ~NewPolicy.hasActive /\ ~NewPolicy.dropped
  BY DEF NewPolicy
<1> QED  BY <1>1
         DEF Restart, Enter, DInv, ActiveInDataplane, DropEngaged, Active

(* The steps that touch neither policies nor dataplane.                    *)
LEMMA OtherSolid ==
  ASSUME DInv,
         \/ Run \/ Synced \/ SweepDone \/ CollectDone \/ RevalidateStart
         \/ RevalidateDone \/ Disconnect \/ Fib \/ Calm \/ UNCHANGED vars
  PROVE  DInv'
<1>1. UNCHANGED <<policies, dp>>
  BY DEF Run, Synced, SyncedStart, SweepDone, CollectDone, RevalidateStart,
         RevalidateDone, Disconnect, Fib, FibChange, Calm, mem, vars
<1>2. task' = "gc" => todo' \subseteq orphans'
  <2> USE DEF DInv, Enter, mem, loop
  <2>1. CASE Run \/ Synced \/ SweepDone
    BY <2>1 DEF Run, Synced, SyncedStart, SweepDone
  <2>2. CASE CollectDone \/ RevalidateStart \/ RevalidateDone
    BY <2>2 DEF CollectDone, RevalidateStart, RevalidateDone
  <2>3. CASE Disconnect \/ Fib \/ Calm \/ UNCHANGED vars
    BY <2>3 DEF Disconnect, Fib, FibChange, Calm, vars
  <2> QED  BY <2>1, <2>2, <2>3
<1> QED  BY <1>1, <1>2
         DEF DInv, ActiveInDataplane, DropEngaged, Active, ActiveBSID

LEMMA DInvStep == ASSUME Replies PROVE IInv /\ DInv /\ [Next]_vars => DInv'
<1> SUFFICES ASSUME IInv, DInv, [Next]_vars PROVE DInv'
  OBVIOUS
<1>1. CASE Apply
  BY <1>1, ApplySolid
<1>2. CASE SweepOne \/ RevalidateOne
  BY <1>2, LoopSolid DEF SweepOne, RevalidateOne
<1>3. CASE CollectOne
  BY <1>3, CollectSolid DEF CollectOne
<1>4. CASE Restart
  BY <1>4, RestartSolid
<1>5. CASE \/ Run \/ Synced \/ SweepDone \/ CollectDone \/ RevalidateStart
           \/ RevalidateDone \/ Disconnect \/ Fib \/ Calm \/ UNCHANGED vars
  BY <1>5, OtherSolid
<1> QED  BY <1>1, <1>2, <1>3, <1>4, <1>5 DEF Next, Iterate

LEMMA DInvariance == ASSUME Replies PROVE Spec => []DInv
<1>1. Init => DInv
  BY InitIInv, DInvInit
<1>2. IInv /\ DInv /\ [Next]_vars => DInv'
  BY DInvStep
<1> QED  BY <1>1, <1>2, Invariance, PTL DEF Spec

(* A policy that is up is in the dataplane: no refused replacement, failed *)
(* roll-back, best-effort deletion or collected orphan takes away what an  *)
(* active path was installed as, as long as replies are not lost.          *)
THEOREM ActiveStaysInstalled == ASSUME Replies PROVE Spec => []ActiveInDataplane
<1>1. DInv => ActiveInDataplane
  BY DEF DInv
<1> QED  BY <1>1, DInvariance, PTL

(* A dropped policy is down and its endpoint has the drop route, however   *)
(* often the release fails, when no other policy has that endpoint.        *)
THEOREM DropStaysEngaged ==
  ASSUME Replies, Alone PROVE Spec => []DropEngaged
<1>1. DInv => DropEngaged
  BY DEF DInv
<1> QED  BY <1>1, DInvariance, PTL

-----------------------------------------------------------------------------
(***************************************************************************)
(* What holds once a subscription's initial state is in.  The candidate    *)
(* paths are those of this subscription whatever fails; and with a         *)
(* dataplane that answers (Answers) the dataplane is exactly what the      *)
(* policies ask for: segment lists, steerings and drop routes.             *)
(***************************************************************************)

-----------------------------------------------------------------------------
(* Handlers leave the candidate paths as they were set before reconcile,   *)
(* and install one of them or none.                                        *)

LEMMA EngageKeepsPaths ==
  ASSUME NEW k, NEW s \in Work, NEW t \in Engage(k, s)
  PROVE  t.ps.cps = s.ps.cps /\ t.ps.installed = s.ps.installed
<1>1. PICK o \in InstallDrop(s.dp, k) :
        t = [s EXCEPT !.dp = o.dp, !.ps.dropped = s.ps.dropped \/ o.ok]
  BY DEF Engage
<1> QED  BY <1>1 DEF Work, PolicyState

(* Releasing a drop is no change to the paths, the active one included.    *)
LEMMA ReleaseKeepsPaths ==
  ASSUME NEW k, NEW s \in Work, NEW t \in Release(k, s)
  PROVE  t.ps.cps = s.ps.cps /\ t.ps.installed = s.ps.installed
<1>1. CASE ~s.ps.dropped
  BY <1>1 DEF Release
<1>2. CASE s.ps.dropped
  <2>1. PICK o \in RemoveDrop(s.dp, k) :
          t = [s EXCEPT !.dp = o.dp, !.ps.dropped = ~o.ok]
    BY <1>2 DEF Release
  <2> QED  BY <2>1 DEF Work, PolicyState
<1> QED  BY <1>1, <1>2

LEMMA TakeDownKeepsPaths ==
  ASSUME NEW k \in Key, NEW s, Sound(k, s), s.ps.hasActive,
         NEW t \in TakeDown(k, s)
  PROVE  t.ps.cps = s.ps.cps /\ t.ps.installed = s.ps.installed
<1>1. s \in Work /\ s.dp \in Dataplane /\ s.ps.installed \in CandidatePath
      /\ s.ps.installed.bsid \in BSID
  BY DEF Sound, Fits, OwnsActive, Work, PolicyState
<1> DEFINE after(o) == [s EXCEPT !.dp = o.dp]
           down(o) == [Disown(after(o)) EXCEPT !.ps.hasActive = FALSE]
<1>2. PICK o \in Remove(s.dp, k, s.ps.installed) :
        \/ ~o.ok /\ t = after(o)
        \/ o.ok /\ s.ps.installed.drop /\ t \in Engage(k, down(o))
        \/ o.ok /\ ~s.ps.installed.drop /\ t = down(o)
  BY DEF TakeDown
<1>3. /\ after(o).ps = s.ps /\ down(o).ps.cps = s.ps.cps
      /\ down(o).ps.installed = s.ps.installed
  <2>1. after(o).ps = s.ps
    BY <1>1 DEF Work
  <2>2. Disown(after(o)).ps = s.ps
    BY <1>1 DEF Work, Disown
  <2>3. down(o) = [Disown(after(o)) EXCEPT !.ps = [s.ps EXCEPT !.hasActive = FALSE]]
    BY <2>2
  <2> QED  BY <2>1, <1>1 DEF Work, PolicyState, Disown
<1>4. down(o) \in Work
  <2>1. o.dp \in Dataplane
    BY <1>1, RemoveType DEF Outcomes
  <2>2. Sound(k, after(o)) /\ after(o).ps = s.ps
    BY <1>1, <2>1, TouchSound DEF Work
  <2> HIDE DEF after
  <2>3. Sound(k, down(o))
    BY <2>2, DownSound
  <2> QED  BY <2>3 DEF Sound, Fits
<1> HIDE DEF after, down
<1>5. \A u \in Engage(k, down(o)) :
        u.ps.cps = down(o).ps.cps /\ u.ps.installed = down(o).ps.installed
  BY <1>4, EngageKeepsPaths
<1> QED  BY <1>2, <1>3, <1>5

LEMMA DecideKeepsPaths ==
  ASSUME NEW k \in Key, NEW s, Sound(k, s), NEW best, NEW t \in Decide(k, s, best)
  PROVE  t.ps.cps = s.ps.cps /\ t.ps.installed \in best \cup {s.ps.installed}
<1>1. s \in Work
  BY DEF Sound, Fits
<1>2. CASE best = {}
  BY <1>2, TakeDownKeepsPaths DEF Decide
<1>3. CASE best # {}
  <2>1. PICK cp \in best :
          \/ ~s.ps.hasActive /\ t \in BringUp(k, s, cp)
          \/ s.ps.hasActive /\ t = s
          \/ s.ps.hasActive /\ t \in Switch(k, s, cp)
    BY <1>3 DEF Decide, Pursue
  <2>2. CASE t \in Switch(k, s, cp)
    <3>1. PICK o \in Replace(s.dp, k, s.ps.installed, cp) :
            t = IF o.ok THEN Claim(k, Disown([s EXCEPT !.dp = o.dp]), cp)
                ELSE [s EXCEPT !.dp = o.dp]
      BY <2>2 DEF Switch
    <3>2. CASE o.ok
      BY <1>1, <3>1, <3>2 DEF Work, PolicyState, Claim, Disown
    <3>3. CASE ~o.ok
      BY <1>1, <3>1, <3>3 DEF Work
    <3> QED  BY <3>2, <3>3
  <2>3. CASE t \in BringUp(k, s, cp)
    <3>1. PICK r \in Release(k, s) :
            \/ t = r
            \/ \E o \in Add(r.dp, k, cp) :
                 t = IF o.ok THEN Claim(k, [r EXCEPT !.dp = o.dp], cp)
                     ELSE [r EXCEPT !.dp = o.dp]
      BY <2>3 DEF BringUp
    <3>2. /\ r \in Work /\ r.ps.cps = s.ps.cps
          /\ r.ps.installed = s.ps.installed
      BY <1>1, ReleaseSound, ReleaseKeepsPaths DEF Sound, Fits
    <3>3. ASSUME NEW o \in Add(r.dp, k, cp)
          PROVE  /\ [r EXCEPT !.dp = o.dp].ps = r.ps
                 /\ Claim(k, [r EXCEPT !.dp = o.dp], cp).ps.cps = r.ps.cps
                 /\ Claim(k, [r EXCEPT !.dp = o.dp], cp).ps.installed = cp
      BY <3>2 DEF Work, PolicyState, Claim
    <3> QED  BY <3>1, <3>2, <3>3
  <2> QED  BY <2>1, <2>2, <2>3
<1> QED  BY <1>2, <1>3

(* p is one of the paths in C, but for what verification and the binding   *)
(* of a dynamic BSID have changed.                                         *)
OneOf(C, p) == \E c \in C : CPKey(p) = CPKey(c.path) /\ p.drop = c.path.drop

LEMMA BestIsOneOf ==
  ASSUME NEW k \in Key, NEW s \in Work, NEW seen, NEW cp \in Best(k, s, seen)
  PROVE  OneOf(s.ps.cps, cp)
<1>1. PICK c \in s.ps.cps : cp = BoundPath(Verified(c.path, seen), s.ps.dynBSID)
  BY DEF Best, SelectActive, Candidates
<1> DEFINE v == Verified(c.path, seen)
<1>2. c.path \in CandidatePath
  BY DEF Work, PolicyState, Candidate
<1>3. CPKey(v) = CPKey(c.path) /\ v.drop = c.path.drop /\ DOMAIN v = DOMAIN c.path
  BY <1>2 DEF Verified, CPKey, CandidatePath
<1>4. "bsid" \in DOMAIN v /\ DOMAIN v = DOMAIN c.path
  BY <1>2, <1>3 DEF CandidatePath
<1> HIDE DEF v
<1>5. CPKey(cp) = CPKey(v) /\ cp.drop = v.drop
  BY <1>1, <1>2, <1>3, <1>4 DEF BoundPath, CPKey, CandidatePath, v
<1> QED  BY <1>3, <1>5 DEF OneOf

(* What a handler does to the candidate paths is what it set them to, and  *)
(* what it installs is one of them.                                        *)
LEMMA SettlePaths ==
  ASSUME Tables, NEW k \in Key, NEW C \in SUBSET Candidate,
         Settle(k, [policies[k] EXCEPT !.cps = C])
  PROVE  /\ policies'[k].cps = C
         /\ \/ policies'[k].installed \in {policies[k].installed, ZeroPath}
            \/ OneOf(C, policies'[k].installed)
         /\ \A j \in Others(k) : policies'[j] = policies[j]
<1> DEFINE ps == [policies[k] EXCEPT !.cps = C]
<1>1. /\ ps \in PolicyState /\ ps.cps = C
      /\ ps.installed = policies[k].installed
      /\ ps.hasActive = policies[k].hasActive
      /\ ps.dynBSID = policies[k].dynBSID
  BY DEF Tables, PolicyState
<1> HIDE DEF ps
<1>2. Sound(k, View(ps)) /\ View(ps).ps = ps
  BY <1>1, ViewSound DEF View
<1>3. PICK s \in Reconcile(k, View(ps)) : \E t \in CleanupIfGone(k, s) : Commit(k, t)
  BY DEF Settle, ps
<1>4. PICK t \in CleanupIfGone(k, s) : Commit(k, t)
  BY <1>3
<1>5. /\ s.ps.cps = C
      /\ s.ps.installed = ps.installed \/ OneOf(C, s.ps.installed)
  <2>1. PICK r \in Bound(View(ps)), seen \in Lookups :
          s \in Decide(k, r, Best(k, r, seen))
    BY <1>3 DEF Reconcile
  <2>2. Sound(k, r) /\ r.ps.cps = ps.cps
    BY <1>2, BoundSound
  <2>3. r.ps.installed = ps.installed
    <3> DEFINE v == View(ps)
    <3>1. r = v \/ \E b, D : r = [v EXCEPT !.ps.dynBSID = b, !.dyn = D]
      BY <2>1 DEF Bound
    <3>2. v \in Work /\ v.ps = ps
      BY <1>2 DEF Sound, Fits
    <3> HIDE DEF v
    <3> QED  BY <3>1, <3>2 DEF Work, PolicyState
  <2>4. /\ s.ps.cps = r.ps.cps
        /\ s.ps.installed \in Best(k, r, seen) \cup {r.ps.installed}
    BY <2>1, <2>2, DecideKeepsPaths
  <2>5. \A cp \in Best(k, r, seen) : OneOf(C, cp)
    BY <1>1, <2>2, BestIsOneOf DEF Sound, Fits
  <2> QED  BY <1>1, <2>2, <2>3, <2>4, <2>5
<1>6. t.ps.cps = s.ps.cps /\ t.ps.installed \in {s.ps.installed, ZeroPath}
  <2>1. Sound(k, s)
    BY <1>2, <1>3, ReconcileSound
  <2>2. CASE t = s
    BY <2>2
  <2>3. CASE t # s
    <3>1. s.ps.cps = {}
      BY <2>3 DEF CleanupIfGone
    <3>2. PICK r \in Release(k, s) :
            \/ t = r
            \/ t = [r EXCEPT !.dyn = r.dyn \ {r.ps.dynBSID}, !.ps = NewPolicy]
      BY <2>3 DEF CleanupIfGone
    <3>3. r \in Work /\ r.ps.cps = s.ps.cps /\ r.ps.installed = s.ps.installed
      BY <2>1, ReleaseSound, ReleaseKeepsPaths DEF Sound, Fits
    <3>4. NewPolicy.cps = {} /\ NewPolicy.installed = ZeroPath
      BY DEF NewPolicy
    <3> QED  BY <3>1, <3>2, <3>3, <3>4 DEF Work
  <2> QED  BY <2>2, <2>3
<1> QED  BY <1>1, <1>4, <1>5, <1>6 DEF Tables, Commit, Others

-----------------------------------------------------------------------------
(* Generations.                                                            *)

Fresh(k) == \A c \in policies[k].cps : c.gen = gen

(* synced of this subscription has swept, or another one has since.        *)
Swept == sub /\ gen \notin unsynced /\ task # "sweep"

(* The sweep has made fresh what it has passed.                            *)
GInv ==
  /\ \A k \in Key : \A c \in policies[k].cps : c.gen =< gen
  /\ task = "sweep" => \A k \in Key \ todo : Fresh(k)
  /\ Swept => \A k \in Key : Fresh(k)

LEMMA GInvInit == Init => GInv
BY DEF Init, GInv, Swept, Fresh, NewPolicy

LEMMA RunGInv ==
  ASSUME IInv, GInv, Run
  PROVE  GInv'
<1>1. \A k \in Key : \A c \in policies[k].cps : c.gen \in Nat
  BY DEF IInv, Tables, PolicyState, Candidate
<1>2. gen \in Nat
  BY DEF IInv, Control
<1> QED  BY <1>1, <1>2 DEF Run, GInv, Swept, Fresh, loop

LEMMA ApplyGInv ==
  ASSUME IInv, GInv, Apply
  PROVE  GInv'
<1>1. PICK u \in Updates : Announce(u.key, u.path) \/ Withdraw(u.key, u.path.disc)
  BY DEF Apply
<1> DEFINE C == {c \in policies[u.key].cps : c.path.disc # u.path.disc}
           D == C \cup {[path |-> u.path, gen |-> gen]}
<1>2. u.key \in Key /\ u.path \in CandidatePath
  BY ReconcilerAssumption
<1>3. C \in SUBSET Candidate /\ D \in SUBSET Candidate
  BY <1>2 DEF IInv, Tables, Control, PolicyState, Candidate
<1>4. \/ Settle(u.key, [policies[u.key] EXCEPT !.cps = C])
      \/ Settle(u.key, [policies[u.key] EXCEPT !.cps = D])
  BY <1>1 DEF Announce, Withdraw
<1>5. task = "idle" /\ sub /\ UNCHANGED <<gen, task, todo, sub, unsynced>>
  BY <1>1 DEF Announce, Withdraw, loop
<1>6. \A c \in D : c.gen = gen \/ c \in policies[u.key].cps
  OBVIOUS
<1>7. C \subseteq D
  OBVIOUS
<1> HIDE DEF C, D
<1>8. /\ policies'[u.key].cps = C \/ policies'[u.key].cps = D
      /\ \A j \in Others(u.key) : policies'[j] = policies[j]
  BY <1>2, <1>3, <1>4, SettlePaths DEF IInv
<1>9. gen \in Nat
  BY DEF IInv, Control
<1> QED  BY <1>5, <1>6, <1>7, <1>8, <1>9 DEF GInv, Swept, Fresh, Others

LEMMA SweepGInv ==
  ASSUME IInv, GInv, NEW k \in todo, Sweep(k)
  PROVE  GInv'
<1> DEFINE C == {c \in policies[k].cps : c.gen >= gen}
<1>1. k \in Key /\ gen \in Nat
  BY DEF Sweep, IInv, Control
<1>2. C \in SUBSET Candidate
  BY <1>1 DEF IInv, Tables, PolicyState
<1>3. \A c \in C : c.gen = gen
  BY <1>1, <1>2 DEF GInv, Candidate
<1>4. C \subseteq policies[k].cps
  OBVIOUS
<1>5. /\ policies'[k].cps = C
      /\ \A j \in Others(k) : policies'[j] = policies[j]
  <2>1. CASE C = policies[k].cps
    BY <1>1, <2>1 DEF Sweep, mem, Others
  <2>2. CASE C # policies[k].cps
    <3>1. Settle(k, [policies[k] EXCEPT !.cps = C])
      BY <2>2 DEF Sweep
    <3> HIDE DEF C
    <3> QED  BY <1>1, <1>2, <3>1, SettlePaths DEF IInv
  <2> QED  BY <2>1, <2>2
<1> HIDE DEF C
<1>6. task = "sweep" /\ todo' = todo \ {k} /\ UNCHANGED <<gen, task, sub, unsynced>>
  BY DEF Sweep
<1> QED  BY <1>1, <1>3, <1>4, <1>5, <1>6 DEF GInv, Swept, Fresh, Others

LEMMA RevalidateGInv ==
  ASSUME IInv, GInv, NEW k \in todo, RevalidateNext(k)
  PROVE  GInv'
<1>1. k \in Key
  BY DEF RevalidateNext, IInv, Control
<1>2. /\ policies[k].cps \in SUBSET Candidate
      /\ policies[k] = [policies[k] EXCEPT !.cps = policies[k].cps]
  BY <1>1 DEF IInv, Tables, PolicyState
<1>3. Settle(k, [policies[k] EXCEPT !.cps = policies[k].cps])
  BY <1>2 DEF RevalidateNext
<1>4. /\ policies'[k].cps = policies[k].cps
      /\ \A j \in Others(k) : policies'[j] = policies[j]
  BY <1>1, <1>2, <1>3, SettlePaths DEF IInv
<1>5. \A j \in Key : policies'[j].cps = policies[j].cps
  BY <1>4 DEF Others
<1> QED  BY <1>5 DEF RevalidateNext, GInv, Swept, Fresh

(* Present is all that has paths.                                          *)
LEMMA SyncedGInv ==
  ASSUME IInv, GInv, Synced
  PROVE  GInv'
<1>1. \A k \in Key \ Present : policies[k].cps = {}
  BY DEF Present, NewPolicy
<1>2. task' = "sweep" /\ todo' = Present /\ UNCHANGED <<policies, gen, sub>>
  BY DEF Synced, SyncedStart, Enter, mem
<1> QED  BY <1>1, <1>2 DEF GInv, Swept, Fresh

LEMMA OtherGInv ==
  ASSUME IInv, GInv,
         \/ SweepDone \/ CollectOne \/ CollectDone \/ RevalidateStart
         \/ RevalidateDone \/ Disconnect \/ Fib \/ Calm \/ UNCHANGED vars
  PROVE  GInv'
<1> USE DEF GInv, Swept, Fresh, Enter, mem, loop
<1>1. CASE SweepDone
  BY <1>1 DEF SweepDone
<1>2. CASE CollectOne \/ CollectDone
  BY <1>2 DEF CollectOne, CollectOrphan, CollectDone
<1>3. CASE RevalidateStart \/ RevalidateDone
  BY <1>3 DEF RevalidateStart, RevalidateDone
<1>4. CASE Disconnect
  BY <1>4 DEF Disconnect
<1>5. CASE Fib \/ Calm \/ UNCHANGED vars
  BY <1>5 DEF Fib, FibChange, Calm, vars
<1> QED  BY <1>1, <1>2, <1>3, <1>4, <1>5

LEMMA GInvStep == IInv /\ GInv /\ [Next]_vars => GInv'
<1> SUFFICES ASSUME IInv, GInv, [Next]_vars PROVE GInv'
  OBVIOUS
<1>1. CASE Restart
  BY <1>1 DEF Restart, Enter, GInv, Swept, Fresh, NewPolicy
<1>2. CASE SweepOne
  BY <1>2, SweepGInv DEF SweepOne
<1>3. CASE RevalidateOne
  BY <1>3, RevalidateGInv DEF RevalidateOne
<1>4. CASE Run \/ Apply \/ Synced
  BY <1>4, RunGInv, ApplyGInv, SyncedGInv
<1>5. CASE \/ SweepDone \/ CollectOne \/ CollectDone \/ RevalidateStart
           \/ RevalidateDone \/ Disconnect \/ Fib \/ Calm \/ UNCHANGED vars
  BY <1>5, OtherGInv
<1> QED  BY <1>1, <1>2, <1>3, <1>4, <1>5 DEF Next, Iterate

(* Once synced has run, no candidate path of an earlier subscription is    *)
(* left, whatever VPP refuses, and also when the synced that ran last was  *)
(* a late one of an earlier subscription.                                  *)
THEOREM GhostsSwept == Spec => []NoGhosts
<1>1. GInv => NoGhosts
  BY DEF GInv, NoGhosts, InSync, Swept, Fresh
<1>2. IInv /\ GInv /\ [Next]_vars => GInv'
  BY GInvStep
<1>3. Spec => []GInv
  BY GInvInit, <1>2, Invariance, PTL DEF Spec
<1> QED  BY <1>1, <1>3, PTL

-----------------------------------------------------------------------------
(* The port calls when VPP does what it is asked.                          *)

Answers == Refusals = FALSE

(* e is d with the policy of b consisting of L.                            *)
Sets(d, e, b, L) ==
  \A c \in BSID : e.policies[c] = IF c = b THEN L ELSE d.policies[c]

(* e is d with the endpoint of k, where it is steered, pointing to b.      *)
Steers(d, e, k, b) ==
  \A x \in Endpoint : e.steering[x] = IF k \in Steerable /\ x = EndpointOf[k]
                                      THEN b ELSE d.steering[x]

SameSteering(d, e) == \A x \in Endpoint : e.steering[x] = d.steering[x]

LEMMA NoFaults == ASSUME Answers PROVE ~Faulty /\ ~Silent
BY DEF Faulty, Silent, Answers

LEMMA DeleteAnswered ==
  ASSUME Answers, NEW d, NEW b
  PROVE  DeletePolicy(d, b) = {[dp |-> WithPolicy(d, b, {}), ok |-> TRUE]}
BY NoFaults DEF DeletePolicy, Done

LEMMA InstallAnswered ==
  ASSUME Answers, NEW d, NEW b, NEW L
  PROVE  InstallPolicy(d, b, L) = {[dp |-> WithPolicy(d, b, L), ok |-> TRUE]}
BY NoFaults DEF InstallPolicy, Done

LEMMA UpdateAnswered ==
  ASSUME Answers, NEW d, NEW b, NEW L
  PROVE  UpdateInPlace(d, b, L) = {[dp |-> WithPolicy(d, b, L), ok |-> TRUE]}
BY NoFaults, InstallAnswered DEF UpdateInPlace, Done

LEMMA SteerAnswered ==
  ASSUME Answers, NEW d, NEW k, NEW b, NEW o \in SteerTo(d, k, b)
  PROVE  o = [dp |-> IF k \in Steerable THEN WithSteering(d, EndpointOf[k], b)
                     ELSE d,
              ok |-> TRUE]
BY NoFaults DEF SteerTo, Done

LEMMA UnsteerAnswered ==
  ASSUME Answers, NEW d, NEW k
  PROVE  Unsteered(d, k) = {WithSteering(d, EndpointOf[k], NoAddr)}
BY NoFaults DEF Unsteered

LEMMA WithSteeringFields ==
  ASSUME NEW d \in Dataplane, NEW e, NEW b
  PROVE  /\ WithSteering(d, e, b).policies = d.policies
         /\ WithSteering(d, e, b).drops = d.drops
         /\ \A x \in Endpoint :
              WithSteering(d, e, b).steering[x] = IF x = e THEN b ELSE d.steering[x]
BY DEF WithSteering, Dataplane

LEMMA WithPolicyFields ==
  ASSUME NEW d \in Dataplane, NEW b, NEW L
  PROVE  /\ Sets(d, WithPolicy(d, b, L), b, L)
         /\ WithPolicy(d, b, L).steering = d.steering
         /\ WithPolicy(d, b, L).drops = d.drops
BY DEF WithPolicy, Dataplane, Sets

LEMMA AddAnswered ==
  ASSUME Answers, NEW d \in Dataplane, NEW k \in Key, NEW cp \in CandidatePath,
         cp.bsid \in BSID, NEW o \in Add(d, k, cp)
  PROVE  /\ o.ok
         /\ Sets(d, o.dp, cp.bsid, Rendered(cp))
         /\ Steers(d, o.dp, k, cp.bsid)
         /\ o.dp.drops = d.drops
<1> DEFINE b == cp.bsid
           L == Rendered(cp)
           x == WithPolicy(d, b, L)
           y == WithSteering(x, EndpointOf[k], b)
<1>1. x \in Dataplane
  BY RenderedType, WithPolicyType
<1>2. InstallPolicy(d, b, L) = {[dp |-> x, ok |-> TRUE]}
  BY InstallAnswered
<1>3. o \in SteerTo(x, k, b)
  <2>1. PICK i \in InstallPolicy(d, b, L) :
          \/ i.ok /\ o \in SteerTo(i.dp, k, b)
          \/ ~i.ok /\ o = i
    BY DEF Add, Then
  <2> HIDE DEF x
  <2> QED  BY <1>2, <2>1
<1>4. Sets(d, x, b, L) /\ x.steering = d.steering /\ x.drops = d.drops
  BY WithPolicyFields
<1> HIDE DEF x
<1>5. CASE k \in Steerable
  <2>1. o = [dp |-> y, ok |-> TRUE]
    BY <1>1, <1>3, <1>5, SteerAnswered
  <2>2. y.policies = x.policies /\ y.drops = x.drops
    BY <1>1, WithSteeringFields
  <2>3. Steers(x, y, k, b)
    BY <1>1, <1>5, WithSteeringFields DEF Steers
  <2> HIDE DEF y
  <2> QED  BY <1>4, <2>1, <2>2, <2>3 DEF Steers, Sets
<1>6. CASE k \notin Steerable
  <2>1. o = [dp |-> x, ok |-> TRUE]
    BY <1>1, <1>3, <1>6, SteerAnswered
  <2> QED  BY <1>4, <1>6, <2>1 DEF Steers
<1> QED  BY <1>5, <1>6

(* In place, the steering is not touched; it has the BSID already.         *)
LEMMA ReplaceAnswered ==
  ASSUME Answers, NEW d \in Dataplane, NEW k \in Key,
         NEW prev \in CandidatePath, prev.bsid \in BSID,
         NEW next \in CandidatePath, next.bsid \in BSID,
         NEW o \in Replace(d, k, prev, next)
  PROVE  /\ o.ok
         /\ o.dp.drops = d.drops
         /\ \A c \in BSID : o.dp.policies[c] =
              IF c = next.bsid THEN Rendered(next)
              ELSE IF c = prev.bsid THEN {} ELSE d.policies[c]
         /\ prev.bsid = next.bsid => SameSteering(d, o.dp)
         /\ prev.bsid # next.bsid => Steers(d, o.dp, k, next.bsid)
<1>1. CASE prev.bsid = next.bsid
  <2> DEFINE x == WithPolicy(d, next.bsid, Rendered(next))
  <2>1. o = [dp |-> x, ok |-> TRUE]
    <3>1. o \in UpdateInPlace(d, next.bsid, Rendered(next))
      BY <1>1 DEF Replace
    <3> QED  BY <3>1, UpdateAnswered
  <2>2. /\ Sets(d, x, next.bsid, Rendered(next))
        /\ x.steering = d.steering /\ x.drops = d.drops
    BY WithPolicyFields
  <2> HIDE DEF x
  <2> QED  BY <1>1, <2>1, <2>2 DEF Sets, SameSteering
<1>2. CASE prev.bsid # next.bsid
  <2>1. PICK i \in Add(d, k, next) :
          \/ /\ i.ok
             /\ \E x \in DeletePolicy(i.dp, prev.bsid) : o = [x EXCEPT !.ok = TRUE]
          \/ ~i.ok /\ o = i
    BY <1>2 DEF Replace, Add, Then
  <2>2. /\ i.ok
        /\ Sets(d, i.dp, next.bsid, Rendered(next))
        /\ Steers(d, i.dp, k, next.bsid)
        /\ i.dp.drops = d.drops
    BY AddAnswered
  <2>3. i.dp \in Dataplane
    BY AddType DEF Outcomes
  <2> DEFINE x == WithPolicy(i.dp, prev.bsid, {})
  <2>4. DeletePolicy(i.dp, prev.bsid) = {[dp |-> x, ok |-> TRUE]}
    BY DeleteAnswered
  <2>5. Sets(i.dp, x, prev.bsid, {}) /\ x.steering = i.dp.steering
        /\ x.drops = i.dp.drops
    BY <2>3, WithPolicyFields
  <2> HIDE DEF x
  <2>6. o.ok /\ o.dp = x
    BY <2>1, <2>2, <2>4
  <2> QED  BY <1>2, <2>2, <2>5, <2>6 DEF Sets, Steers
<1> QED  BY <1>1, <1>2

LEMMA RemoveAnswered ==
  ASSUME Answers, NEW d \in Dataplane, NEW k \in Key, NEW cp \in CandidatePath,
         cp.bsid \in BSID, NEW o \in Remove(d, k, cp)
  PROVE  /\ o.ok
         /\ Sets(d, o.dp, cp.bsid, {})
         /\ Steers(d, o.dp, k, NoAddr)
         /\ o.dp.drops = d.drops
<1> DEFINE x == IF k \in Steerable THEN WithSteering(d, EndpointOf[k], NoAddr) ELSE d
           y == WithPolicy(x, cp.bsid, {})
<1>1. x \in Dataplane
  BY PortAssumption, WithSteeringType
<1>2. o \in DeletePolicy(x, cp.bsid)
  BY UnsteerAnswered DEF Remove
<1>3. x.policies = d.policies /\ x.drops = d.drops /\ Steers(d, x, k, NoAddr)
  BY WithSteeringFields DEF Steers
<1> HIDE DEF x
<1>4. o = [dp |-> y, ok |-> TRUE]
  BY <1>2, DeleteAnswered
<1>5. Sets(x, y, cp.bsid, {}) /\ y.steering = x.steering /\ y.drops = x.drops
  BY <1>1, WithPolicyFields
<1> HIDE DEF y
<1> QED  BY <1>3, <1>4, <1>5 DEF Sets, Steers

LEMMA InstallDropAnswered ==
  ASSUME Answers, NEW d \in Dataplane, NEW k \in Key, NEW o \in InstallDrop(d, k)
  PROVE  /\ o.ok <=> k \in Steerable
         /\ o.dp.policies = d.policies
         /\ Steers(d, o.dp, k, NoAddr)
         /\ o.dp.drops = IF k \in Steerable THEN d.drops \cup {EndpointOf[k]}
                         ELSE d.drops
<1>1. ~Faulty /\ ~Silent
  BY DEF Faulty, Silent, Answers
<1>2. CASE k \notin Steerable
  BY <1>2 DEF InstallDrop, Failed, Steers
<1>3. CASE k \in Steerable
  <2> DEFINE x == WithSteering(d, EndpointOf[k], NoAddr)
             y == [x EXCEPT !.drops = x.drops \cup {EndpointOf[k]}]
  <2>1. x \in Dataplane
    BY PortAssumption, WithSteeringType
  <2>2. Unsteered(d, k) = {x}
    BY <1>1 DEF Unsteered
  <2>3. x.policies = d.policies /\ x.drops = d.drops /\ Steers(d, x, k, NoAddr)
    BY <1>3, WithSteeringFields DEF Steers
  <2> HIDE DEF x
  <2>4. o = [dp |-> y, ok |-> TRUE]
    BY <1>1, <1>3, <2>2 DEF InstallDrop, Done
  <2>5. /\ y.policies = x.policies /\ y.steering = x.steering
        /\ y.drops = x.drops \cup {EndpointOf[k]}
    BY <2>1 DEF Dataplane
  <2> HIDE DEF y
  <2> QED  BY <1>3, <2>3, <2>4, <2>5 DEF Steers
<1> QED  BY <1>2, <1>3

LEMMA RemoveDropAnswered ==
  ASSUME Answers, NEW d \in Dataplane, NEW k \in Key, NEW o \in RemoveDrop(d, k)
  PROVE  /\ o.ok
         /\ o.dp.policies = d.policies
         /\ o.dp.steering = d.steering
         /\ o.dp.drops = d.drops \ {EndpointOf[k]}
<1> DEFINE y == [d EXCEPT !.drops = d.drops \ {EndpointOf[k]}]
<1>1. o = [dp |-> y, ok |-> TRUE]
  BY DEF RemoveDrop, Done, Faulty, Silent, Answers
<1>2. /\ y.policies = d.policies /\ y.steering = d.steering
      /\ y.drops = d.drops \ {EndpointOf[k]}
  BY DEF Dataplane
<1> HIDE DEF y
<1> QED  BY <1>1, <1>2

-----------------------------------------------------------------------------
(* A dataplane that has exactly what the policies ask for.                 *)

(* Nothing but this daemon's present life has put drop routes there.       *)
Tidy == Alone /\ Restarts = FALSE /\ \A d \in Leftovers : d.drops = {}

Filled(d, ps) ==
  ps.hasActive =>
    ~ps.dropped /\ d.policies[ps.installed.bsid] = Rendered(ps.installed)

Pointed(k, d, ps) ==
  ps.hasActive /\ k \in Steerable => d.steering[EndpointOf[k]] = ps.installed.bsid

Barring(k, d, ps) == ps.dropped <=> EndpointOf[k] \in d.drops

(* Drop routes are those of policies, and no steering competes with them.  *)
DropsAlone(d) ==
  \A e \in d.drops : d.steering[e] = NoAddr /\ \E i \in Key : EndpointOf[i] = e

(* What no policy owns and is there all the same is an orphan.             *)
Known(d, owner, orph) ==
  \A b \in BSID : owner[b] = NoKey /\ d.policies[b] # {} => b \in orph

(* All of this for the record s of a handler of k.                         *)
AllFilled(k, s) ==
  /\ Filled(s.dp, s.ps)
  /\ \A j \in Others(k) : Filled(s.dp, policies[j])
AllPointed(k, s) ==
  /\ Pointed(k, s.dp, s.ps)
  /\ \A j \in Others(k) : Pointed(j, s.dp, policies[j])
AllBarring(k, s) ==
  /\ Barring(k, s.dp, s.ps)
  /\ \A j \in Others(k) : Barring(j, s.dp, policies[j])
  /\ DropsAlone(s.dp)

Exact(k, s) ==
  /\ AllFilled(k, s)
  /\ sub /\ OrphanGC => Known(s.dp, s.owner, s.orph)
  /\ Alone => AllPointed(k, s)
  /\ Tidy => AllBarring(k, s)

(* What a handler may do to a dropped policy, and has to do to one that    *)
(* goes down with the I-Flag.                                              *)
Closed(k, s, t) ==
  /\ s.ps.dropped => t.ps.dropped \/ t.ps.hasActive
  /\ /\ s.ps.hasActive /\ s.ps.installed.drop /\ k \in Steerable
     /\ ~t.ps.hasActive
     => t.ps.dropped

(* A call that touches no BSID of another policy leaves theirs as it was.  *)
LEMMA OthersFilled ==
  ASSUME Tables, NEW k \in Key, NEW s, Fits(k, s), AllFilled(k, s),
         NEW e, NEW B, SamePolicies(s.dp, e, B),
         \A b \in B \cap BSID : s.owner[b] \in {NoKey, k}
  PROVE  \A j \in Others(k) : Filled(e, policies[j])
<1> SUFFICES ASSUME NEW j \in Others(k), Active(j)
             PROVE  Filled(e, policies[j])
  BY DEF Filled, Active
<1>1. ActiveBSID(j) \in BSID /\ j # k /\ j # NoKey
  BY KeyIsNotNoKey DEF Tables, Others
<1>2. s.owner[ActiveBSID(j)] = j
  BY <1>1 DEF Fits
<1>3. ActiveBSID(j) \notin B
  BY <1>1, <1>2
<1>4. e.policies[ActiveBSID(j)] = s.dp.policies[ActiveBSID(j)]
  BY <1>1, <1>3 DEF SamePolicies
<1> QED  BY <1>4 DEF AllFilled, Filled, ActiveBSID

(* Steering the endpoint of k is no other policy's affair.                 *)
LEMMA OthersPointed ==
  ASSUME Alone, NEW k \in Key, NEW d, NEW e, NEW b, Steers(d, e, k, b),
         \A j \in Others(k) : Pointed(j, d, policies[j])
  PROVE  \A j \in Others(k) : Pointed(j, e, policies[j])
<1>1. \A j \in Others(k) :
        EndpointOf[j] \in Endpoint /\ EndpointOf[j] # EndpointOf[k]
  BY PortAssumption DEF Alone, Others
<1> QED  BY <1>1 DEF Steers, Pointed

LEMMA ReleaseExact ==
  ASSUME Answers, Tables, NEW k \in Key, NEW s, Sound(k, s), Exact(k, s),
         ~s.ps.hasActive, NEW t \in Release(k, s)
  PROVE  Exact(k, t) /\ ~t.ps.dropped /\ t.orph = s.orph
<1>1. CASE ~s.ps.dropped
  BY <1>1 DEF Release
<1>2. CASE s.ps.dropped
  <2>1. s \in Work /\ s.dp \in Dataplane
    BY DEF Sound, Fits, Work
  <2>2. PICK o \in RemoveDrop(s.dp, k) :
          t = [s EXCEPT !.dp = o.dp, !.ps.dropped = ~o.ok]
    BY <1>2 DEF Release
  <2>3. /\ o.ok /\ o.dp.policies = s.dp.policies /\ o.dp.steering = s.dp.steering
        /\ o.dp.drops = s.dp.drops \ {EndpointOf[k]}
    BY <2>1, RemoveDropAnswered
  <2>4. /\ t.dp = o.dp /\ t.ps.dropped = FALSE
        /\ t.ps.hasActive = s.ps.hasActive /\ t.ps.installed = s.ps.installed
        /\ t.owner = s.owner /\ t.orph = s.orph
    BY <2>1, <2>2, <2>3 DEF Work, PolicyState
  <2>5. AllFilled(k, t)
    BY <2>3, <2>4 DEF Exact, AllFilled, Filled
  <2>6. sub /\ OrphanGC => Known(t.dp, t.owner, t.orph)
    BY <2>3, <2>4 DEF Exact, Known
  <2>7. Alone => AllPointed(k, t)
    BY <2>3, <2>4 DEF Exact, AllPointed, Pointed
  <2>8. ASSUME Tidy PROVE AllBarring(k, t)
    <3>1. \A j \in Others(k) : EndpointOf[j] # EndpointOf[k]
      BY <2>8 DEF Tidy, Alone, Others
    <3> QED  BY <2>3, <2>4, <2>8, <3>1 DEF Exact, AllBarring, Barring, DropsAlone
  <2> QED  BY <2>4, <2>5, <2>6, <2>7, <2>8 DEF Exact
<1> QED  BY <1>1, <1>2

LEMMA EngageExact ==
  ASSUME Answers, Tables, NEW k \in Key, NEW s, Sound(k, s), Exact(k, s),
         ~s.ps.hasActive, NEW t \in Engage(k, s)
  PROVE  /\ Exact(k, t) /\ ~t.ps.hasActive /\ t.orph = s.orph
         /\ s.ps.dropped \/ k \in Steerable => t.ps.dropped
<1>1. s \in Work /\ s.dp \in Dataplane
  BY DEF Sound, Fits, Work
<1>2. PICK o \in InstallDrop(s.dp, k) :
        t = [s EXCEPT !.dp = o.dp, !.ps.dropped = s.ps.dropped \/ o.ok]
  BY DEF Engage
<1>3. /\ o.ok <=> k \in Steerable
      /\ o.dp.policies = s.dp.policies
      /\ Steers(s.dp, o.dp, k, NoAddr)
      /\ o.dp.drops = IF k \in Steerable THEN s.dp.drops \cup {EndpointOf[k]}
                      ELSE s.dp.drops
  BY <1>1, InstallDropAnswered
<1>4. /\ t.dp = o.dp /\ t.ps.dropped = (s.ps.dropped \/ o.ok)
      /\ t.ps.hasActive = s.ps.hasActive /\ t.ps.installed = s.ps.installed
      /\ t.owner = s.owner /\ t.orph = s.orph
  BY <1>1, <1>2 DEF Work, PolicyState
<1>5. AllFilled(k, t)
  BY <1>3, <1>4 DEF Exact, AllFilled, Filled
<1>6. sub /\ OrphanGC => Known(t.dp, t.owner, t.orph)
  BY <1>3, <1>4 DEF Exact, Known
<1>7. ASSUME Alone PROVE AllPointed(k, t)
  <2>1. \A j \in Others(k) : Pointed(j, o.dp, policies[j])
    BY <1>3, <1>7, OthersPointed DEF Exact, AllPointed
  <2> QED  BY <1>4, <2>1 DEF AllPointed, Pointed
<1>8. ASSUME Tidy PROVE AllBarring(k, t)
  <2>1. \A j \in Others(k) : EndpointOf[j] # EndpointOf[k]
    BY <1>8 DEF Tidy, Alone, Others
  <2>2. s.dp.drops \subseteq Endpoint /\ EndpointOf[k] \in Endpoint
    BY <1>1, PortAssumption DEF Dataplane
  <2>3. AllBarring(k, s)
    BY <1>8 DEF Exact
  <2>4. Barring(k, t.dp, t.ps)
    BY <1>3, <1>4, <2>3 DEF AllBarring, Barring
  <2>5. \A j \in Others(k) : Barring(j, t.dp, policies[j])
    BY <1>3, <1>4, <2>1, <2>3 DEF AllBarring, Barring
  <2>6. DropsAlone(t.dp)
    BY <1>3, <1>4, <2>2, <2>3 DEF AllBarring, DropsAlone, Steers
  <2> QED  BY <2>4, <2>5, <2>6 DEF AllBarring
<1> QED  BY <1>3, <1>4, <1>5, <1>6, <1>7, <1>8 DEF Exact

(* A policy that is removed and disowned.                                  *)
LEMMA DownExact ==
  ASSUME Tables, NEW k \in Key, NEW s, Sound(k, s), Exact(k, s), s.ps.hasActive,
         NEW t, Sets(s.dp, t.dp, s.ps.installed.bsid, {}),
         Steers(s.dp, t.dp, k, NoAddr), t.dp.drops = s.dp.drops,
         \A b \in BSID : b # s.ps.installed.bsid => t.owner[b] = s.owner[b],
         t.orph = s.orph, ~t.ps.hasActive, t.ps.dropped = s.ps.dropped
  PROVE  Exact(k, t)
<1> DEFINE a == s.ps.installed.bsid
<1>1. /\ Fits(k, s) /\ s.dp \in Dataplane /\ a \in BSID /\ s.owner[a] = k
  BY DEF Sound, Fits, OwnsActive, Work
<1>2. \A b \in BSID : t.dp.policies[b] = IF b = a THEN {} ELSE s.dp.policies[b]
  BY DEF Sets
<1>3. AllFilled(k, t)
  <2>1. SamePolicies(s.dp, t.dp, {a})
    BY <1>2 DEF SamePolicies
  <2>2. AllFilled(k, s)
    BY DEF Exact
  <2>3. \A b \in {a} \cap BSID : s.owner[b] \in {NoKey, k}
    BY <1>1
  <2> HIDE DEF a
  <2>4. \A j \in Others(k) : Filled(t.dp, policies[j])
    BY <1>1, <2>1, <2>2, <2>3, OthersFilled
  <2> QED  BY <2>4 DEF AllFilled, Filled
<1>4. ASSUME sub, OrphanGC PROVE Known(t.dp, t.owner, t.orph)
  BY <1>2, <1>4 DEF Exact, Known
<1>5. ASSUME Alone PROVE AllPointed(k, t)
  <2>1. \A j \in Others(k) : Pointed(j, t.dp, policies[j])
    BY <1>5, OthersPointed DEF Exact, AllPointed
  <2> QED  BY <2>1 DEF AllPointed, Pointed
<1>6. ASSUME Tidy PROVE AllBarring(k, t)
  <2>1. AllBarring(k, s)
    BY <1>6 DEF Exact
  <2>2. s.dp.drops \subseteq Endpoint
    BY <1>1 DEF Dataplane
  <2>3. DropsAlone(t.dp)
    BY <2>1, <2>2 DEF AllBarring, DropsAlone, Steers
  <2> QED  BY <2>1, <2>3 DEF AllBarring, Barring
<1> QED  BY <1>3, <1>4, <1>5, <1>6 DEF Exact

(* A policy that is up by cp, and no longer by what prev is the BSID of.   *)
LEMMA UpExact ==
  ASSUME Tables, NEW k \in Key, NEW s, Sound(k, s), Exact(k, s), ~s.ps.dropped,
         NEW cp \in CandidatePath, cp.bsid \in BSID, NEW prev \in BSID,
         s.owner[cp.bsid] \in {NoKey, k}, s.owner[prev] \in {NoKey, k}, NEW t,
         \A b \in BSID : t.dp.policies[b] =
           IF b = cp.bsid THEN Rendered(cp)
           ELSE IF b = prev THEN {} ELSE s.dp.policies[b],
         Alone => Steers(s.dp, t.dp, k, cp.bsid), t.dp.drops = s.dp.drops,
         t.owner[cp.bsid] = k,
         \A b \in BSID \ {cp.bsid, prev} : t.owner[b] = s.owner[b],
         t.orph = s.orph \ {cp.bsid},
         t.ps.hasActive, t.ps.installed = cp, ~t.ps.dropped
  PROVE  Exact(k, t)
<1>1. Fits(k, s) /\ s.dp \in Dataplane
  BY DEF Sound, Fits, Work
<1>2. AllFilled(k, t)
  <2> DEFINE B == {cp.bsid, prev}
  <2>1. SamePolicies(s.dp, t.dp, B)
    BY DEF SamePolicies
  <2>2. AllFilled(k, s)
    BY DEF Exact
  <2>3. \A b \in B \cap BSID : s.owner[b] \in {NoKey, k}
    OBVIOUS
  <2> HIDE DEF B
  <2>4. \A j \in Others(k) : Filled(t.dp, policies[j])
    BY <1>1, <2>1, <2>2, <2>3, OthersFilled
  <2> QED  BY <2>4 DEF AllFilled, Filled
<1>3. ASSUME sub, OrphanGC PROVE Known(t.dp, t.owner, t.orph)
  <2>1. t.owner[cp.bsid] # NoKey
    BY KeyIsNotNoKey
  <2>2. Known(s.dp, s.owner, s.orph)
    BY <1>3 DEF Exact
  <2> QED  BY <2>1, <2>2 DEF Known
<1>4. ASSUME Alone PROVE AllPointed(k, t)
  <2>1. \A j \in Others(k) : Pointed(j, t.dp, policies[j])
    BY <1>4, OthersPointed DEF Exact, AllPointed
  <2>2. EndpointOf[k] \in Endpoint
    BY PortAssumption
  <2> QED  BY <1>4, <2>1, <2>2 DEF AllPointed, Pointed, Steers
<1>5. ASSUME Tidy PROVE AllBarring(k, t)
  <2>1. AllBarring(k, s) /\ Steers(s.dp, t.dp, k, cp.bsid)
    BY <1>5 DEF Exact, Tidy
  <2>2. s.dp.drops \subseteq Endpoint /\ EndpointOf[k] \notin s.dp.drops
    BY <1>1, <2>1 DEF Dataplane, AllBarring, Barring
  <2>3. DropsAlone(t.dp)
    BY <2>1, <2>2 DEF AllBarring, DropsAlone, Steers
  <2> QED  BY <2>1, <2>2, <2>3 DEF AllBarring, Barring
<1> QED  BY <1>2, <1>3, <1>4, <1>5 DEF Exact

LEMMA TakeDownExact ==
  ASSUME Answers, Tables, NEW k \in Key, NEW s, Sound(k, s), Exact(k, s),
         s.ps.hasActive, NEW t \in TakeDown(k, s)
  PROVE  Exact(k, t) /\ t.orph = s.orph /\ Closed(k, s, t)
<1>1. /\ s \in Work /\ s.dp \in Dataplane
      /\ s.ps.installed \in CandidatePath /\ s.ps.installed.bsid \in BSID
  BY DEF Sound, Fits, OwnsActive, Work, PolicyState
<1> DEFINE after(o) == [s EXCEPT !.dp = o.dp]
           down(o) == [Disown(after(o)) EXCEPT !.ps.hasActive = FALSE]
<1>2. PICK o \in Remove(s.dp, k, s.ps.installed) :
        \/ ~o.ok /\ t = after(o)
        \/ o.ok /\ s.ps.installed.drop /\ t \in Engage(k, down(o))
        \/ o.ok /\ ~s.ps.installed.drop /\ t = down(o)
  BY DEF TakeDown
<1>3. /\ o.ok /\ Sets(s.dp, o.dp, s.ps.installed.bsid, {})
      /\ Steers(s.dp, o.dp, k, NoAddr) /\ o.dp.drops = s.dp.drops
  <2> DEFINE d == s.dp
             cp == s.ps.installed
  <2>1. d \in Dataplane /\ cp \in CandidatePath /\ cp.bsid \in BSID
    BY <1>1
  <2>2. o \in Remove(d, k, cp)
    OBVIOUS
  <2> HIDE DEF after, down, d, cp
  <2>3. /\ o.ok /\ Sets(d, o.dp, cp.bsid, {})
        /\ Steers(d, o.dp, k, NoAddr) /\ o.dp.drops = d.drops
    BY <2>1, <2>2, RemoveAnswered
  <2> QED  BY <2>3 DEF d, cp
<1>4. o.dp \in Dataplane
  BY <1>1, RemoveType DEF Outcomes
<1>5. Sound(k, after(o)) /\ after(o).ps = s.ps
  BY <1>1, <1>4, TouchSound DEF Work
<1>6. /\ down(o).dp = o.dp /\ down(o).orph = s.orph
      /\ down(o).ps.hasActive = FALSE /\ down(o).ps.dropped = s.ps.dropped
      /\ \A b \in BSID : b # s.ps.installed.bsid =>
           down(o).owner[b] = s.owner[b]
  BY <1>1, <1>4 DEF Work, PolicyState, Disown
<1>7. Sound(k, down(o))
  <2> HIDE DEF after
  <2> QED  BY <1>5, DownSound
<1> HIDE DEF after, down
<1>8. Exact(k, down(o))
  BY <1>3, <1>6, DownExact
<1>9. \A u \in Engage(k, down(o)) :
        /\ Exact(k, u) /\ u.orph = s.orph
        /\ s.ps.dropped \/ k \in Steerable => u.ps.dropped
  BY <1>6, <1>7, <1>8, EngageExact
<1> QED  BY <1>2, <1>3, <1>6, <1>8, <1>9 DEF Closed

LEMMA SwitchExact ==
  ASSUME Answers, Tables, NEW k \in Key, NEW s, Sound(k, s), Exact(k, s),
         s.ps.hasActive, NEW cp \in CandidatePath, cp.bsid \in BSID,
         s.owner[cp.bsid] \in {NoKey, k}, NEW t \in Switch(k, s, cp)
  PROVE  Exact(k, t) /\ t.orph \subseteq s.orph /\ t.ps.hasActive
<1> DEFINE old == s.ps.installed
           d == s.dp
<1>1. /\ s \in Work /\ d \in Dataplane /\ old \in CandidatePath
      /\ old.bsid \in BSID /\ s.owner[old.bsid] = k
  BY DEF Sound, Fits, OwnsActive, Work, PolicyState
<1> DEFINE after(o) == [s EXCEPT !.dp = o.dp]
<1>2. PICK o \in Replace(d, k, old, cp) :
        t = IF o.ok THEN Claim(k, Disown(after(o)), cp) ELSE after(o)
  BY DEF Switch
<1>3. o.dp \in Dataplane
  BY <1>1, ReplaceType DEF Outcomes
<1>4. /\ Claim(k, Disown(after(o)), cp).dp = o.dp
      /\ Claim(k, Disown(after(o)), cp).orph = s.orph \ {cp.bsid}
      /\ Claim(k, Disown(after(o)), cp).ps.hasActive = TRUE
      /\ Claim(k, Disown(after(o)), cp).ps.installed = cp
      /\ Claim(k, Disown(after(o)), cp).ps.dropped = s.ps.dropped
      /\ Claim(k, Disown(after(o)), cp).owner[cp.bsid] = k
      /\ \A b \in BSID \ {cp.bsid, old.bsid} :
           Claim(k, Disown(after(o)), cp).owner[b] = s.owner[b]
  BY <1>1, <1>3 DEF Work, PolicyState, Claim, Disown
<1> HIDE DEF after
<1>5. Pointed(k, d, s.ps) \/ ~Alone
  BY DEF Exact, AllPointed
<1>6. s.ps.hasActive /\ ~s.ps.dropped
  BY DEF Exact, AllFilled, Filled
<1>7. s.ps.installed = old /\ s.dp = d
  OBVIOUS
<1> HIDE DEF old, d
<1>8. /\ o.ok
      /\ o.dp.drops = d.drops
      /\ \A c \in BSID : o.dp.policies[c] =
           IF c = cp.bsid THEN Rendered(cp)
           ELSE IF c = old.bsid THEN {} ELSE d.policies[c]
      /\ old.bsid = cp.bsid => SameSteering(d, o.dp)
      /\ old.bsid # cp.bsid => Steers(d, o.dp, k, cp.bsid)
  BY <1>1, <1>2, ReplaceAnswered
<1>9. Alone => Steers(d, o.dp, k, cp.bsid)
  BY <1>5, <1>6, <1>7, <1>8 DEF Pointed, Steers, SameSteering
<1>10. /\ t.dp = o.dp /\ t.orph = s.orph \ {cp.bsid}
       /\ t.ps.hasActive /\ t.ps.installed = cp /\ ~t.ps.dropped
       /\ t.owner[cp.bsid] = k
       /\ \A b \in BSID \ {cp.bsid, old.bsid} : t.owner[b] = s.owner[b]
  BY <1>2, <1>4, <1>6, <1>8
<1>11. Exact(k, t)
  BY <1>1, <1>6, <1>7, <1>8, <1>9, <1>10, UpExact
<1> QED  BY <1>10, <1>11

LEMMA BringUpExact ==
  ASSUME Answers, Tables, NEW k \in Key, NEW s, Sound(k, s), Exact(k, s),
         ~s.ps.hasActive, NEW cp \in CandidatePath, cp.bsid \in BSID,
         s.owner[cp.bsid] \in {NoKey, k}, NEW t \in BringUp(k, s, cp)
  PROVE  Exact(k, t) /\ t.orph \subseteq s.orph /\ t.ps.hasActive
<1> DEFINE after(r, o) == [r EXCEPT !.dp = o.dp]
<1>1. PICK r \in Release(k, s) :
        \/ r.ps.dropped /\ t = r
        \/ /\ ~r.ps.dropped
           /\ \E o \in Add(r.dp, k, cp) :
                t = IF o.ok THEN Claim(k, after(r, o), cp) ELSE after(r, o)
  BY DEF BringUp
<1>2. /\ Sound(k, r) /\ r.owner = s.owner /\ Exact(k, r)
      /\ ~r.ps.dropped /\ r.orph = s.orph
  BY ReleaseSound, ReleaseExact
<1>3. PICK o \in Add(r.dp, k, cp) :
        t = IF o.ok THEN Claim(k, after(r, o), cp) ELSE after(r, o)
  BY <1>1, <1>2
<1>4. r \in Work /\ r.dp \in Dataplane
  BY <1>2 DEF Sound, Fits, Work
<1>5. /\ o.ok
      /\ Sets(r.dp, o.dp, cp.bsid, Rendered(cp))
      /\ Steers(r.dp, o.dp, k, cp.bsid)
      /\ o.dp.drops = r.dp.drops
  BY <1>4, AddAnswered
<1>6. o.dp \in Dataplane
  BY <1>4, AddType DEF Outcomes
<1>7. /\ t.dp = o.dp /\ t.orph = r.orph \ {cp.bsid}
      /\ t.ps.hasActive /\ t.ps.installed = cp /\ t.ps.dropped = r.ps.dropped
      /\ t.owner[cp.bsid] = k
      /\ \A b \in BSID \ {cp.bsid} : t.owner[b] = r.owner[b]
  <2> DEFINE u == Claim(k, after(r, o), cp)
  <2>1. /\ u.dp = o.dp /\ u.orph = r.orph \ {cp.bsid}
        /\ u.ps.hasActive = TRUE /\ u.ps.installed = cp
        /\ u.ps.dropped = r.ps.dropped
        /\ u.owner[cp.bsid] = k
        /\ \A b \in BSID \ {cp.bsid} : u.owner[b] = r.owner[b]
    BY <1>4, <1>6 DEF Work, PolicyState, Claim
  <2> HIDE DEF u
  <2>2. t = u
    BY <1>3, <1>5 DEF u
  <2> QED  BY <2>1, <2>2
<1> HIDE DEF after
<1>8. \A b \in BSID : o.dp.policies[b] =
        IF b = cp.bsid THEN Rendered(cp)
        ELSE IF b = cp.bsid THEN {} ELSE r.dp.policies[b]
  BY <1>5 DEF Sets
<1>9. Exact(k, t)
  BY <1>2, <1>5, <1>7, <1>8, UpExact
<1> QED  BY <1>2, <1>7, <1>9

LEMMA DecideExact ==
  ASSUME Answers, Tables, NEW k \in Key, NEW s, Sound(k, s), Exact(k, s),
         NEW seen, NEW t \in Decide(k, s, Best(k, s, seen))
  PROVE  Exact(k, t) /\ t.orph \subseteq s.orph /\ Closed(k, s, t)
<1> DEFINE best == Best(k, s, seen)
<1>1. CASE best = {}
  <2>1. CASE s.ps.hasActive
    BY <1>1, <2>1, TakeDownExact DEF Decide
  <2>2. CASE ~s.ps.hasActive
    BY <1>1, <2>2 DEF Decide, Closed
  <2> QED  BY <2>1, <2>2
<1>2. CASE best # {}
  <2>1. PICK cp \in best :
          \/ ~s.ps.hasActive /\ t \in BringUp(k, s, cp)
          \/ s.ps.hasActive /\ t = s
          \/ s.ps.hasActive /\ t \in Switch(k, s, cp)
    BY <1>2 DEF Decide, Pursue
  <2>2. s \in Work
    BY DEF Sound, Fits
  <2>3. cp \in CandidatePath /\ cp.bsid \in BSID /\ s.owner[cp.bsid] \in {NoKey, k}
    BY <2>2, BestIsClaimable
  <2> HIDE DEF best
  <2>4. \/ t = s /\ s.ps.hasActive
        \/ Exact(k, t) /\ t.orph \subseteq s.orph /\ t.ps.hasActive
    BY <2>1, <2>3, BringUpExact, SwitchExact
  <2> QED  BY <2>4 DEF Closed
<1> QED  BY <1>1, <1>2

LEMMA ReconcileExact ==
  ASSUME Answers, Tables, NEW k \in Key, NEW s, Sound(k, s), Exact(k, s),
         NEW t \in Reconcile(k, s)
  PROVE  Exact(k, t) /\ t.orph \subseteq s.orph /\ Closed(k, s, t)
<1>1. PICK r \in Bound(s), seen \in Lookups : t \in Decide(k, r, Best(k, r, seen))
  BY DEF Reconcile
<1>2. /\ r.dp = s.dp /\ r.ps.hasActive = s.ps.hasActive
      /\ r.ps.installed = s.ps.installed /\ r.ps.dropped = s.ps.dropped
      /\ r.owner = s.owner /\ r.orph = s.orph
  <2>1. r = s \/ \E b, D : r = [s EXCEPT !.ps.dynBSID = b, !.dyn = D]
    BY <1>1 DEF Bound
  <2>2. s \in Work
    BY DEF Sound, Fits
  <2> QED  BY <2>1, <2>2 DEF Work, PolicyState
<1>3. Exact(k, r)
  BY <1>2 DEF Exact, AllFilled, AllPointed, AllBarring, Filled, Pointed, Barring
<1>4. Sound(k, r)
  BY <1>1, BoundSound
<1>5. Exact(k, t) /\ t.orph \subseteq r.orph /\ Closed(k, r, t)
  BY <1>1, <1>3, <1>4, DecideExact
<1> QED  BY <1>2, <1>5 DEF Closed

(* With a release that succeeds, a policy without paths goes.              *)
LEMMA CleanupExact ==
  ASSUME Answers, Tables, NEW k \in Key, NEW s, Sound(k, s), Exact(k, s),
         NEW t \in CleanupIfGone(k, s)
  PROVE  /\ Exact(k, t) /\ t.orph = s.orph
         /\ t = s \/ t.ps = NewPolicy
<1>1. CASE t = s
  BY <1>1
<1>2. CASE t # s
  <2>1. ~s.ps.hasActive
    BY <1>2 DEF CleanupIfGone
  <2>2. PICK r \in Release(k, s) :
          t = IF r.ps.dropped THEN r
              ELSE [r EXCEPT !.dyn = r.dyn \ {r.ps.dynBSID}, !.ps = NewPolicy]
    BY <1>2 DEF CleanupIfGone
  <2>3. /\ Sound(k, r) /\ r.ps.hasActive = s.ps.hasActive
        /\ Exact(k, r) /\ ~r.ps.dropped /\ r.orph = s.orph
    BY <2>1, ReleaseSound, ReleaseExact
  <2>4. t.dp = r.dp /\ t.ps = NewPolicy /\ t.owner = r.owner /\ t.orph = r.orph
    BY <2>2, <2>3 DEF Sound, Fits, Work
  <2>5. ~NewPolicy.hasActive /\ ~NewPolicy.dropped
    BY DEF NewPolicy
  <2>6. Exact(k, t)
    BY <2>3, <2>4, <2>5
       DEF Exact, AllFilled, AllPointed, AllBarring, Filled, Pointed, Barring
  <2> QED  BY <2>3, <2>4, <2>6
<1> QED  BY <1>1, <1>2

-----------------------------------------------------------------------------
(* The steps.                                                              *)

InExact ==
  /\ \A k \in Key : Filled(dp, policies[k])
  /\ sub /\ OrphanGC => Known(dp, bsidOwner, orphans)
  /\ Alone => \A k \in Key : Pointed(k, dp, policies[k])
  /\ Tidy => DropsAlone(dp) /\ \A k \in Key : Barring(k, dp, policies[k])

(* The collection has orphans before it, and once it is through none is    *)
(* left: what is left of them is what is left of the loop.                 *)
Collected ==
  /\ task = "gc" => todo \subseteq orphans
  /\ OrphanGC /\ Swept => orphans \subseteq IF task = "gc" THEN todo ELSE {}

XInv == InExact /\ Collected

(* What FailClosed and DropUponInvalid allow a handler to do to k.         *)
KeepsShut(k) ==
  /\ policies[k].dropped =>
       \/ policies'[k].dropped \/ policies'[k].hasActive
       \/ policies'[k] = NewPolicy
  /\ /\ Active(k) /\ policies[k].installed.drop /\ k \in Steerable
     /\ ~policies'[k].hasActive /\ policies'[k] # NewPolicy
     => policies'[k].dropped

LEMMA SettleExact ==
  ASSUME Answers, Tables, InExact, NEW k \in Key, NEW C \in SUBSET Candidate,
         Settle(k, [policies[k] EXCEPT !.cps = C]), sub' = sub
  PROVE  InExact' /\ orphans' \subseteq orphans /\ KeepsShut(k)
<1> DEFINE ps == [policies[k] EXCEPT !.cps = C]
<1>1. /\ ps \in PolicyState
      /\ ps.installed = policies[k].installed
      /\ ps.hasActive = policies[k].hasActive
      /\ ps.dynBSID = policies[k].dynBSID
      /\ ps.dropped = policies[k].dropped
  BY DEF Tables, PolicyState
<1>2. PICK s \in Reconcile(k, View(ps)) : \E t \in CleanupIfGone(k, s) : Commit(k, t)
  BY DEF Settle
<1> HIDE DEF ps
<1>3. PICK t \in CleanupIfGone(k, s) : Commit(k, t)
  BY <1>2
<1> DEFINE v == View(ps)
<1>4. /\ Sound(k, v) /\ v.ps = ps /\ v.dp = dp
      /\ v.owner = bsidOwner /\ v.orph = orphans
  BY <1>1, ViewSound DEF View
<1>5. s \in Reconcile(k, v)
  BY <1>2
<1> HIDE DEF v
<1>6. Exact(k, v)
  BY <1>1, <1>4
     DEF Others, InExact, Exact, AllFilled, AllPointed, AllBarring, Filled,
         Pointed, Barring
<1>7. Sound(k, s) /\ Exact(k, s) /\ s.orph \subseteq v.orph /\ Closed(k, v, s)
  BY <1>4, <1>5, <1>6, ReconcileSound, ReconcileExact
<1>8. Exact(k, t) /\ t.orph = s.orph /\ (t = s \/ t.ps = NewPolicy)
  BY <1>3, <1>7, CleanupExact
<1>9. /\ policies'[k] = t.ps /\ dp' = t.dp
      /\ bsidOwner' = t.owner /\ orphans' = t.orph
      /\ \A j \in Others(k) : policies'[j] = policies[j]
  BY <1>3 DEF Tables, Commit, Others
<1>10. \A j \in Key : j = k \/ j \in Others(k)
  BY DEF Others
<1>11. InExact'
  <2>1. \A j \in Key : Filled(dp', policies'[j])
    BY <1>8, <1>9, <1>10 DEF Exact, AllFilled
  <2>2. ASSUME sub', OrphanGC PROVE Known(dp', bsidOwner', orphans')
    BY <1>8, <1>9, <2>2 DEF Exact
  <2>3. ASSUME Alone PROVE \A j \in Key : Pointed(j, dp', policies'[j])
    BY <1>8, <1>9, <1>10, <2>3 DEF Exact, AllPointed
  <2>4. ASSUME Tidy
        PROVE  DropsAlone(dp') /\ \A j \in Key : Barring(j, dp', policies'[j])
    BY <1>8, <1>9, <1>10, <2>4 DEF Exact, AllBarring
  <2> QED  BY <2>1, <2>2, <2>3, <2>4
           DEF InExact, Filled, Known, Pointed, Barring, DropsAlone
<1>12. KeepsShut(k)
  BY <1>1, <1>4, <1>7, <1>8, <1>9 DEF Closed, KeepsShut, Active
<1> QED  BY <1>4, <1>7, <1>8, <1>9, <1>11, <1>12

LEMMA XInvInit == IInv /\ Init => XInv
<1> SUFFICES ASSUME IInv, Init PROVE XInv
  OBVIOUS
<1>1. \A k \in Key : policies[k] = NewPolicy
  BY DEF Init
<1>2. ~NewPolicy.hasActive /\ ~NewPolicy.dropped
  BY DEF NewPolicy
<1>3. Tidy => dp.drops = {}
  BY DEF Init, Tidy
<1>4. ~sub /\ task = "idle"
  BY DEF Init
<1>5. InExact
  BY <1>1, <1>2, <1>3, <1>4
     DEF InExact, Filled, Pointed, Barring, DropsAlone
<1>6. Collected
  BY <1>4 DEF Collected, Swept
<1> QED  BY <1>5, <1>6 DEF XInv

LEMMA ApplyExact ==
  ASSUME Answers, IInv, XInv, Apply
  PROVE  XInv' /\ \A k \in Key : policies'[k] = policies[k] \/ KeepsShut(k)
<1>1. PICK u \in Updates : Announce(u.key, u.path) \/ Withdraw(u.key, u.path.disc)
  BY DEF Apply
<1> DEFINE C == {c \in policies[u.key].cps : c.path.disc # u.path.disc}
           D == C \cup {[path |-> u.path, gen |-> gen]}
<1>2. u.key \in Key /\ u.path \in CandidatePath
  BY ReconcilerAssumption
<1>3. C \in SUBSET Candidate /\ D \in SUBSET Candidate
  BY <1>2 DEF IInv, Tables, Control, PolicyState, Candidate
<1>4. \/ Settle(u.key, [policies[u.key] EXCEPT !.cps = C])
      \/ Settle(u.key, [policies[u.key] EXCEPT !.cps = D])
  BY <1>1 DEF Announce, Withdraw
<1>5. task = "idle" /\ UNCHANGED <<gen, task, todo, sub, unsynced>>
  BY <1>1 DEF Announce, Withdraw, loop
<1> HIDE DEF C, D
<1>6. InExact' /\ orphans' \subseteq orphans /\ KeepsShut(u.key)
  BY <1>2, <1>3, <1>4, <1>5, SettleExact DEF IInv, XInv
<1>7. \A j \in Others(u.key) : policies'[j] = policies[j]
  BY <1>2, <1>3, <1>4, SettlePaths DEF IInv
<1> QED  BY <1>5, <1>6, <1>7 DEF XInv, Collected, Swept, Others

LEMMA LoopExact ==
  ASSUME Answers, IInv, XInv, NEW k \in todo, Sweep(k) \/ RevalidateNext(k)
  PROVE  XInv' /\ \A j \in Key : policies'[j] = policies[j] \/ KeepsShut(j)
<1>1. /\ k \in Key /\ task # "gc" /\ UNCHANGED <<gen, task, sub, unsynced>>
  BY DEF Sweep, RevalidateNext, IInv, Control
<1> DEFINE C == {c \in policies[k].cps : c.gen >= gen}
<1>2. C \in SUBSET Candidate /\ policies[k].cps \in SUBSET Candidate
  BY <1>1 DEF IInv, Tables, PolicyState
<1>3. policies[k] = [policies[k] EXCEPT !.cps = policies[k].cps]
  BY <1>1 DEF IInv, Tables, PolicyState
<1>4. \/ UNCHANGED <<mem, dp>>
      \/ Settle(k, [policies[k] EXCEPT !.cps = C])
      \/ Settle(k, [policies[k] EXCEPT !.cps = policies[k].cps])
  BY <1>3 DEF Sweep, RevalidateNext
<1> HIDE DEF C
<1>5. CASE UNCHANGED <<mem, dp>>
  <2>1. InExact'
    BY <1>1, <1>5 DEF mem, XInv, InExact, Filled, Known, Pointed, Barring, DropsAlone
  <2> QED  BY <1>1, <1>5, <2>1 DEF mem, XInv, Collected, Swept
<1>6. CASE ~UNCHANGED <<mem, dp>>
  <2>1. InExact' /\ orphans' \subseteq orphans /\ KeepsShut(k)
    BY <1>1, <1>2, <1>4, <1>6, SettleExact DEF IInv, XInv
  <2>2. \A j \in Others(k) : policies'[j] = policies[j]
    BY <1>1, <1>2, <1>4, <1>6, SettlePaths DEF IInv
  <2> QED  BY <1>1, <2>1, <2>2 DEF XInv, Collected, Swept, Others
<1> QED  BY <1>5, <1>6

(* The dump of what is installed makes everything unowned an orphan.       *)
LEMMA RunExact ==
  ASSUME Answers, IInv, XInv, Run
  PROVE  XInv'
<1>1. orphans' = {b \in InstalledBSIDs(dp) : bsidOwner[b] = NoKey}
  BY NoFaults DEF Run
<1>2. /\ UNCHANGED <<policies, bsidOwner, dp, task>> /\ task = "idle"
      /\ gen' \in unsynced'
  BY DEF Run, loop
<1>3. InExact'
  BY <1>1, <1>2
     DEF XInv, InExact, Filled, Known, Pointed, Barring, DropsAlone, InstalledBSIDs
<1> QED  BY <1>2, <1>3 DEF XInv, Collected, Swept

LEMMA CollectExact ==
  ASSUME Answers, IInv, XInv, NEW b \in todo, CollectOrphan(b)
  PROVE  XInv'
<1>1. /\ b \in BSID /\ bsidOwner[b] = NoKey /\ dp \in Dataplane
  BY DEF CollectOrphan, IInv, Control, Tables, XInv, Collected
<1>2. /\ dp' = WithPolicy(dp, b, {}) /\ orphans' = orphans \ {b}
      /\ task = "gc" /\ todo' = todo \ {b}
      /\ UNCHANGED <<policies, bsidOwner, gen, task, sub, unsynced>>
  <2>1. RemoveBSID(dp, b) = {[dp |-> WithPolicy(dp, b, {}), ok |-> TRUE]}
    BY DeleteAnswered DEF RemoveBSID
  <2> QED  BY <2>1 DEF CollectOrphan
<1>3. /\ \A c \in BSID : dp'.policies[c] = IF c = b THEN {} ELSE dp.policies[c]
      /\ dp'.steering = dp.steering /\ dp'.drops = dp.drops
  BY <1>1, <1>2, WithPolicyFields DEF Sets
<1>4. \A k \in Key : Active(k) => ActiveBSID(k) \in BSID \ {b}
  BY <1>1, KeyIsNotNoKey DEF IInv, Tables, OwnerExact
<1>5. InExact'
  <2>1. \A k \in Key : Filled(dp, policies[k])'
    BY <1>2, <1>3, <1>4 DEF XInv, InExact, Filled, Active, ActiveBSID
  <2>2. ASSUME sub', OrphanGC PROVE Known(dp', bsidOwner', orphans')
    BY <1>2, <1>3, <2>2 DEF XInv, InExact, Known
  <2>3. ASSUME Alone PROVE \A k \in Key : Pointed(k, dp', policies'[k])
    BY <1>2, <1>3, <2>3 DEF XInv, InExact, Pointed
  <2>4. ASSUME Tidy
        PROVE  DropsAlone(dp') /\ \A k \in Key : Barring(k, dp', policies'[k])
    BY <1>2, <1>3, <2>4 DEF XInv, InExact, Barring, DropsAlone
  <2> QED  BY <2>1, <2>2, <2>3, <2>4
           DEF InExact, Filled, Known, Pointed, Barring, DropsAlone
<1>6. Collected'
  BY <1>2 DEF XInv, Collected, Swept
<1> QED  BY <1>5, <1>6 DEF XInv

LEMMA RestartExact ==
  ASSUME XInv, Restart
  PROVE  XInv'
<1>1. ~NewPolicy.hasActive /\ ~NewPolicy.dropped /\ ~Tidy
  BY DEF NewPolicy, Restart, Tidy
<1>2. /\ \A k \in Key : policies'[k] = NewPolicy
      /\ ~sub' /\ task' = "idle" /\ UNCHANGED dp
  BY DEF Restart, Enter
<1>3. InExact'
  BY <1>1, <1>2 DEF InExact, Filled, Pointed
<1> QED  BY <1>2, <1>3 DEF XInv, Collected, Swept

(* The steps that touch neither policies nor dataplane.                    *)
LEMMA OtherExact ==
  ASSUME XInv,
         \/ Synced \/ SweepDone \/ CollectDone \/ RevalidateStart
         \/ RevalidateDone \/ Disconnect \/ Fib \/ Calm \/ UNCHANGED vars
  PROVE  XInv'
<1>1. /\ UNCHANGED <<policies, bsidOwner, dp>>
      /\ OrphanGC => UNCHANGED orphans
      /\ sub' => sub
  BY DEF Synced, SyncedStart, SweepDone, CollectDone, RevalidateStart,
         RevalidateDone, Disconnect, Fib, FibChange, Calm, mem, vars
<1>2. InExact'
  BY <1>1 DEF XInv, InExact, Filled, Known, Pointed, Barring, DropsAlone
<1>3. Collected'
  <2> USE DEF XInv, Collected, Swept, Enter, mem, loop
  <2>1. CASE Synced
    BY <2>1 DEF Synced, SyncedStart
  <2>2. CASE SweepDone
    BY <2>2 DEF SweepDone
  <2>3. CASE CollectDone
    BY <2>3 DEF CollectDone
  <2>4. CASE RevalidateStart \/ RevalidateDone
    BY <2>4 DEF RevalidateStart, RevalidateDone
  <2>5. CASE Disconnect \/ Fib \/ Calm \/ UNCHANGED vars
    BY <2>5 DEF Disconnect, Fib, FibChange, Calm, vars
  <2> QED  BY <2>1, <2>2, <2>3, <2>4, <2>5
<1> QED  BY <1>2, <1>3 DEF XInv

LEMMA XInvStep == ASSUME Answers PROVE IInv /\ XInv /\ [Next]_vars => XInv'
<1> SUFFICES ASSUME IInv, XInv, [Next]_vars PROVE XInv'
  OBVIOUS
<1>1. CASE Apply
  BY <1>1, ApplyExact
<1>2. CASE SweepOne \/ RevalidateOne
  BY <1>2, LoopExact DEF SweepOne, RevalidateOne
<1>3. CASE CollectOne
  BY <1>3, CollectExact DEF CollectOne
<1>4. CASE Run
  BY <1>4, RunExact
<1>5. CASE Restart
  BY <1>5, RestartExact
<1>6. CASE \/ Synced \/ SweepDone \/ CollectDone \/ RevalidateStart
           \/ RevalidateDone \/ Disconnect \/ Fib \/ Calm \/ UNCHANGED vars
  BY <1>6, OtherExact
<1> QED  BY <1>1, <1>2, <1>3, <1>4, <1>5, <1>6 DEF Next, Iterate

LEMMA XInvariance == ASSUME Answers PROVE Spec => []XInv
<1>1. Init => XInv
  BY InitIInv, XInvInit
<1>2. IInv /\ XInv /\ [Next]_vars => XInv'
  BY XInvStep
<1> QED  BY <1>1, <1>2, Invariance, PTL DEF Spec

(* Once synced has run with -orphan-gc, VPP holds the policies of the      *)
(* active paths with their segment lists, and no others: all that an       *)
(* earlier life of the daemon left is collected, and a policy that was     *)
(* adopted meanwhile is not.                                               *)
THEOREM ResyncIsExact == ASSUME Answers PROVE Spec => []ResyncExact
<1>1. IInv /\ XInv => ResyncExact
  <2> SUFFICES ASSUME IInv, XInv, InSync, OrphanGC, NEW b \in BSID
               PROVE  dp.policies[b] =
                        IF bsidOwner[b] = NoKey THEN {}
                        ELSE Rendered(policies[bsidOwner[b]].installed)
    BY DEF ResyncExact
  <2>1. CASE bsidOwner[b] = NoKey
    <3>1. orphans = {} /\ Known(dp, bsidOwner, orphans)
      BY DEF XInv, InExact, Collected, Swept, InSync
    <3> QED  BY <2>1, <3>1 DEF Known
  <2>2. CASE bsidOwner[b] # NoKey
    <3> DEFINE k == bsidOwner[b]
    <3>1. k \in Key
      BY <2>2 DEF IInv, Tables
    <3>2. Active(k) /\ ActiveBSID(k) = b
      BY <3>1 DEF IInv, Tables, OwnerExact
    <3> QED  BY <2>2, <3>1, <3>2 DEF XInv, InExact, Filled, Active, ActiveBSID
  <2> QED  BY <2>1, <2>2
<1> QED  BY <1>1, XInvariance, Invariance, PTL

(* With one policy to an endpoint, the endpoint of a policy that is up is  *)
(* steered into it.                                                        *)
THEOREM SteeredWhenUp == ASSUME Answers, Alone PROVE Spec => []EndpointSteered
<1>1. XInv => EndpointSteered
  BY DEF XInv, InExact, Pointed, EndpointSteered, Active, ActiveBSID
<1> QED  BY <1>1, XInvariance, PTL

(* With one policy to an endpoint and no drop routes of an earlier life of *)
(* the daemon, drop routes are those of the dropped policies, and nothing  *)
(* else is steered there.                                                  *)
THEOREM DropsAreExclusive == ASSUME Answers, Tidy PROVE Spec => []DropExclusive
<1>1. IInv /\ XInv => DropExclusive
  BY DEF XInv, InExact, Barring, DropsAlone, DropExclusive
<1> QED  BY <1>1, XInvariance, Invariance, PTL

(* What a step does to a policy is what a handler does, or a restart.      *)
LEMMA StepKeepsShut ==
  ASSUME Answers, IInv, XInv, [Next]_vars, NEW k \in Key
  PROVE  \/ policies'[k] = policies[k]
         \/ policies'[k] = NewPolicy
         \/ KeepsShut(k)
<1>1. CASE Apply
  BY <1>1, ApplyExact
<1>2. CASE SweepOne \/ RevalidateOne
  BY <1>2, LoopExact DEF SweepOne, RevalidateOne
<1>3. CASE Restart
  BY <1>3 DEF Restart
<1>4. CASE ~(Apply \/ SweepOne \/ RevalidateOne \/ Restart)
  BY <1>4
     DEF Next, Iterate, Run, Synced, SyncedStart, SweepDone, CollectOne,
         CollectOrphan, CollectDone, RevalidateStart, RevalidateDone,
         Disconnect, Fib, FibChange, Calm, mem, vars
<1> QED  BY <1>1, <1>2, <1>3, <1>4

(* A step as FailClosed allows it.                                         *)
StaysShut ==
  \A k \in Key : policies[k].dropped =>
    policies'[k].dropped \/ policies'[k].hasActive
      \/ policies'[k] = NewPolicy

(* No handler opens an endpoint that is dropped, unless its policy is up   *)
(* again or has no paths any more.                                         *)
THEOREM FailsClosed == ASSUME Answers PROVE Spec => FailClosed
<1>1. IInv /\ XInv /\ [Next]_vars => [StaysShut]_vars
  BY StepKeepsShut DEF KeepsShut, StaysShut
<1> QED  BY <1>1, XInvariance, Invariance, PTL DEF Spec, FailClosed, StaysShut

-----------------------------------------------------------------------------
(* The I-Flag that a policy goes down with is the one that was announced.  *)

Announced(k, p) == \E u \in Updates : u.key = k /\ u.path = p

AnnouncedAs(k, p) ==
  \E u \in Updates :
    u.key = k /\ CPKey(p) = CPKey(u.path) /\ p.drop = u.path.drop

Originated ==
  \A k \in Key :
    /\ \A c \in policies[k].cps : Announced(k, c.path)
    /\ policies[k].installed = ZeroPath \/ AnnouncedAs(k, policies[k].installed)

(* No announcement changes the I-Flag of a path alone.                     *)
SteadyFlag ==
  \A u, v \in Updates :
    u.key = v.key /\ CPKey(u.path) = CPKey(v.path) => u.path.drop = v.path.drop

LEMMA SettleOriginated ==
  ASSUME Tables, Originated, NEW k \in Key, NEW C \in SUBSET Candidate,
         \A c \in C : Announced(k, c.path),
         Settle(k, [policies[k] EXCEPT !.cps = C])
  PROVE  Originated'
<1>1. /\ policies'[k].cps = C
      /\ \/ policies'[k].installed \in {policies[k].installed, ZeroPath}
         \/ OneOf(C, policies'[k].installed)
      /\ \A j \in Others(k) : policies'[j] = policies[j]
  BY SettlePaths
<1>2. \A p : OneOf(C, p) => AnnouncedAs(k, p)
  BY DEF OneOf, Announced, AnnouncedAs
<1>3. /\ \A c \in policies'[k].cps : Announced(k, c.path)
      /\ \/ policies'[k].installed = ZeroPath
         \/ AnnouncedAs(k, policies'[k].installed)
  BY <1>1, <1>2 DEF Originated
<1>4. \A j \in Others(k) :
        /\ \A c \in policies'[j].cps : Announced(j, c.path)
        /\ \/ policies'[j].installed = ZeroPath
           \/ AnnouncedAs(j, policies'[j].installed)
  BY <1>1 DEF Originated, Others
<1> QED  BY <1>3, <1>4 DEF Originated, Others, Announced, AnnouncedAs

LEMMA OriginatedStep == IInv /\ Originated /\ [Next]_vars => Originated'
<1> SUFFICES ASSUME IInv, Originated, [Next]_vars PROVE Originated'
  OBVIOUS
<1>1. CASE Apply
  <2>1. PICK u \in Updates : Announce(u.key, u.path) \/ Withdraw(u.key, u.path.disc)
    BY <1>1 DEF Apply
  <2> DEFINE C == {c \in policies[u.key].cps : c.path.disc # u.path.disc}
             D == C \cup {[path |-> u.path, gen |-> gen]}
  <2>2. u.key \in Key /\ u.path \in CandidatePath
    BY ReconcilerAssumption
  <2>3. C \in SUBSET Candidate /\ D \in SUBSET Candidate
    BY <2>2 DEF IInv, Tables, Control, PolicyState, Candidate
  <2>4. \A c \in D : Announced(u.key, c.path)
    BY <2>2 DEF Originated, Announced
  <2>5. \A c \in C : Announced(u.key, c.path)
    BY <2>4
  <2>6. \/ Settle(u.key, [policies[u.key] EXCEPT !.cps = C])
        \/ Settle(u.key, [policies[u.key] EXCEPT !.cps = D])
    BY <2>1 DEF Announce, Withdraw
  <2> HIDE DEF C, D
  <2> QED  BY <2>2, <2>3, <2>4, <2>5, <2>6, SettleOriginated DEF IInv
<1>2. CASE SweepOne \/ RevalidateOne
  <2>1. PICK k \in todo : Sweep(k) \/ RevalidateNext(k)
    BY <1>2 DEF SweepOne, RevalidateOne
  <2> DEFINE C == {c \in policies[k].cps : c.gen >= gen}
             D == policies[k].cps
  <2>2. k \in Key
    BY <2>1 DEF Sweep, RevalidateNext, IInv, Control
  <2>3. C \in SUBSET Candidate /\ D \in SUBSET Candidate
    BY <2>2 DEF IInv, Tables, PolicyState
  <2>4. policies[k] = [policies[k] EXCEPT !.cps = D]
    BY <2>2 DEF IInv, Tables, PolicyState
  <2>5. \/ UNCHANGED policies
        \/ Settle(k, [policies[k] EXCEPT !.cps = C])
        \/ Settle(k, [policies[k] EXCEPT !.cps = D])
    BY <2>1, <2>4 DEF Sweep, RevalidateNext, mem
  <2>6. /\ \A c \in C : Announced(k, c.path)
        /\ \A c \in D : Announced(k, c.path)
    BY <2>2 DEF Originated
  <2> HIDE DEF C, D
  <2>7. CASE UNCHANGED policies
    BY <2>7 DEF Originated
  <2> QED  BY <2>2, <2>3, <2>5, <2>6, <2>7, SettleOriginated DEF IInv
<1>3. CASE Restart
  BY <1>3 DEF Restart, Originated, NewPolicy
<1>4. CASE ~(Apply \/ SweepOne \/ RevalidateOne \/ Restart)
  <2>1. UNCHANGED policies
    BY <1>4
       DEF Next, Iterate, Run, Synced, SyncedStart, SweepDone, CollectOne,
           CollectOrphan, CollectDone, RevalidateStart, RevalidateDone,
           Disconnect, Fib, FibChange, Calm, mem, vars
  <2> QED  BY <2>1 DEF Originated
<1> QED  BY <1>1, <1>2, <1>3, <1>4

LEMMA OriginatedAlways == Spec => []Originated
<1>1. Init => Originated
  BY DEF Init, Originated, NewPolicy
<1> QED  BY <1>1, OriginatedStep, Invariance, PTL DEF Spec

(* An active path that is announced with the I-Flag was installed with it. *)
LEMMA InstalledWithFlag ==
  ASSUME SteadyFlag, Tables, Originated, NEW k \in Key, Active(k),
         NEW cp \in ActivePath(k)
  PROVE  policies[k].installed.drop = cp.drop
<1>1. PICK c \in policies[k].cps :
        cp = c.path /\ CPKey(c.path) = CPKey(policies[k].installed)
  BY DEF ActivePath
<1>2. policies[k].installed # ZeroPath
  BY NoAddrIsNoBSID DEF Tables, ActiveBSID, ZeroPath
<1>3. Announced(k, cp) /\ AnnouncedAs(k, policies[k].installed)
  BY <1>1, <1>2 DEF Originated
<1> QED  BY <1>1, <1>3 DEF Announced, AnnouncedAs, SteadyFlag

(* A step as DropUponInvalid allows it.                                    *)
DropsWhenInvalid ==
  \A k \in Key :
    (/\ Active(k) /\ k \in Steerable
     /\ \E cp \in ActivePath(k) : cp.drop
     /\ ~policies'[k].hasActive /\ policies'[k] # NewPolicy)
    => policies'[k].dropped

(* A policy whose active path is announced with the I-Flag is dropped when *)
(* it goes down and keeps paths, if no announcement changes the flag of a  *)
(* path that is installed (which reconcile would not notice).              *)
THEOREM DroppedWhenInvalid ==
  ASSUME Answers, SteadyFlag PROVE Spec => DropUponInvalid
<1>1. IInv /\ XInv /\ Originated /\ [Next]_vars => [DropsWhenInvalid]_vars
  <2> SUFFICES ASSUME IInv, XInv, Originated, [Next]_vars PROVE DropsWhenInvalid
    OBVIOUS
  <2> SUFFICES ASSUME NEW k \in Key, Active(k), k \in Steerable,
                      NEW cp \in ActivePath(k), cp.drop,
                      ~policies'[k].hasActive, policies'[k] # NewPolicy
               PROVE  policies'[k].dropped
    BY DEF DropsWhenInvalid
  <2>1. policies[k].installed.drop
    BY InstalledWithFlag DEF IInv
  <2>2. KeepsShut(k)
    BY StepKeepsShut DEF Active
  <2> QED  BY <2>1, <2>2 DEF KeepsShut
<1> QED  BY <1>1, OriginatedAlways, XInvariance, Invariance, PTL
         DEF Spec, DropUponInvalid, DropsWhenInvalid

=============================================================================
