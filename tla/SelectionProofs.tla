-------------------------- MODULE SelectionProofs --------------------------
(***************************************************************************)
(* The order of RFC 9256 2.9 is a strict order, total on the paths of one  *)
(* policy, and the loop of SelectActive returns its maximum whatever the   *)
(* order of its iterations, for every set of candidate paths.              *)
(***************************************************************************)
EXTENDS Selection, TLAPS

-----------------------------------------------------------------------------
(* The order.                                                              *)

LEMMA OriginatorOrder ==
  ASSUME NEW o \in Originator, NEW p \in Originator
  PROVE  /\ ~(OriginatorLess(o, p) /\ OriginatorLess(p, o))
         /\ OriginatorLess(o, p) \/ OriginatorLess(p, o) \/ o = p
         /\ ~OriginatorLess(o, o)
BY DEF Originator, OriginatorLess

LEMMA OriginatorTransitive ==
  ASSUME NEW o \in Originator, NEW p \in Originator, NEW q \in Originator,
         OriginatorLess(o, p), OriginatorLess(p, q)
  PROVE  OriginatorLess(o, q)
BY DEF Originator, OriginatorLess

LEMMA PathFields ==
  ASSUME NEW a \in CandidatePath
  PROVE  /\ a.pref \in Nat /\ a.origin \in Nat /\ a.disc \in Nat
         /\ a.originator \in Originator
BY DEF CandidatePath

(* Two paths are never preferred over each other.                          *)
THEOREM PreferredAsymmetric ==
  ASSUME NEW a \in CandidatePath, NEW b \in CandidatePath,
         NEW c, NEW h \in BOOLEAN,
         Preferred(a, b, c, h)
  PROVE  ~Preferred(b, a, c, h)
<1>1. /\ a.pref \in Nat /\ a.origin \in Nat /\ a.disc \in Nat
      /\ b.pref \in Nat /\ b.origin \in Nat /\ b.disc \in Nat
  BY PathFields
<1>2. ~(OriginatorLess(a.originator, b.originator)
        /\ OriginatorLess(b.originator, a.originator))
  BY PathFields, OriginatorOrder
<1>3. ~OriginatorLess(a.originator, a.originator)
  BY PathFields, OriginatorOrder
<1> QED  BY <1>1, <1>2, <1>3 DEF Preferred

(* Of two paths with different discriminators one is preferred: the last   *)
(* rule decides where the others do not.                                   *)
THEOREM PreferredTotal ==
  ASSUME NEW a \in CandidatePath, NEW b \in CandidatePath,
         NEW c, NEW h \in BOOLEAN,
         a.disc # b.disc
  PROVE  Preferred(a, b, c, h) \/ Preferred(b, a, c, h)
<1>1. /\ a.pref \in Nat /\ a.origin \in Nat /\ a.disc \in Nat
      /\ b.pref \in Nat /\ b.origin \in Nat /\ b.disc \in Nat
  BY PathFields
<1>2. \/ OriginatorLess(a.originator, b.originator)
      \/ OriginatorLess(b.originator, a.originator)
      \/ a.originator = b.originator
  BY PathFields, OriginatorOrder
<1> QED  BY <1>1, <1>2 DEF Preferred

(* What is preferred over a path is preferred over all it is preferred to. *)
THEOREM PreferredTransitive ==
  ASSUME NEW a \in CandidatePath, NEW b \in CandidatePath,
         NEW d \in CandidatePath, NEW c, NEW h \in BOOLEAN,
         Preferred(a, b, c, h), Preferred(b, d, c, h)
  PROVE  Preferred(a, d, c, h)
<1> DEFINE aa == h /\ CPKey(a) = c
           bb == h /\ CPKey(b) = c
           dd == h /\ CPKey(d) = c
<1>1. /\ a.pref \in Nat /\ a.origin \in Nat /\ a.disc \in Nat
      /\ b.pref \in Nat /\ b.origin \in Nat /\ b.disc \in Nat
      /\ d.pref \in Nat /\ d.origin \in Nat /\ d.disc \in Nat
  BY PathFields
<1>2. OriginatorLess(a.originator, b.originator)
        /\ OriginatorLess(b.originator, d.originator)
      => OriginatorLess(a.originator, d.originator)
  BY PathFields, OriginatorTransitive
<1>3. aa \in BOOLEAN /\ bb \in BOOLEAN /\ dd \in BOOLEAN
  OBVIOUS
<1> QED  BY <1>1, <1>2, <1>3 DEF Preferred

-----------------------------------------------------------------------------
(* The loop.                                                               *)

Met == cps \ rest

(* Either nothing valid has been met or best holds the maximum.  BestSoFar *)
(* alone is not inductive: that SelectActive of the paths met is empty     *)
(* would have to imply that none of them is valid.                         *)
Leader ==
  \/ best = {} /\ \A cp \in Met : ~Valid(cp)
  \/ \E a \in Met :
       /\ best = {a}
       /\ Valid(a)
       /\ \A b \in Met : Valid(b) => b = a \/ Preferred(a, b, current, hasCurrent)

IInv ==
  /\ TypeOK
  /\ DistinctDiscs(cps)
  /\ Leader
  /\ done => rest = {}

LEMMA InitIInv == Init => IInv
BY DEF Init, IInv, TypeOK, Leader, Met

LEMMA PathTypes ==
  ASSUME TypeOK, NEW a \in cps
  PROVE  a \in CandidatePath
BY UniverseAssumption DEF TypeOK

(* An invalid path leaves the leader in place.                             *)
LEMMA SkipLeader ==
  ASSUME IInv, NEW cp \in rest, rest' = rest \ {cp}, Skip(cp),
         UNCHANGED <<cps, current, hasCurrent>>
  PROVE  Leader'
<1>1. Met' = Met \cup {cp} /\ best' = best /\ ~Valid(cp)
  BY DEF IInv, TypeOK, Met, Skip
<1> QED  BY <1>1 DEF IInv, Leader

(* A valid one takes its place or is less preferred than it.               *)
LEMMA ConsiderLeader ==
  ASSUME IInv, NEW cp \in rest, rest' = rest \ {cp}, Consider(cp),
         UNCHANGED <<cps, current, hasCurrent>>
  PROVE  Leader'
<1> DEFINE P(a, b) == Preferred(a, b, current, hasCurrent)
<1>1. Met' = Met \cup {cp} /\ cp \notin Met /\ Valid(cp)
  BY DEF IInv, TypeOK, Met, Consider
<1>2. best' = IF \A b \in best : P(cp, b) THEN {cp} ELSE best
  BY DEF Consider
<1>3. CASE best = {} /\ \A b \in Met : ~Valid(b)
  BY <1>1, <1>2, <1>3 DEF Leader
<1>4. CASE \E a \in Met : /\ best = {a} /\ Valid(a)
                          /\ \A b \in Met : Valid(b) => b = a \/ P(a, b)
  <2>1. PICK a \in Met : /\ best = {a} /\ Valid(a)
                         /\ \A b \in Met : Valid(b) => b = a \/ P(a, b)
    BY <1>4
  <2>2. a \in CandidatePath /\ cp \in CandidatePath /\ hasCurrent \in BOOLEAN
    BY PathTypes DEF IInv, TypeOK, Met
  <2>3. a.disc # cp.disc
    BY <1>1 DEF IInv, TypeOK, DistinctDiscs, Met
  <2>4. CASE P(cp, a)
    <3>1. best' = {cp}
      BY <1>2, <2>1, <2>4
    <3>2. ASSUME NEW b \in Met, Valid(b) PROVE P(cp, b)
      <4>1. b \in CandidatePath
        BY PathTypes DEF IInv, Met
      <4> QED  BY <2>1, <2>2, <2>4, <3>2, <4>1, PreferredTransitive
    <3> QED  BY <1>1, <3>1, <3>2 DEF Leader
  <2>5. CASE ~P(cp, a)
    <3>1. P(a, cp)
      BY <2>2, <2>3, <2>5, PreferredTotal
    <3>2. best' = best
      BY <1>2, <2>1, <2>5
    <3> QED  BY <1>1, <2>1, <3>1, <3>2 DEF Leader
  <2> QED  BY <2>4, <2>5
<1> QED  BY <1>3, <1>4 DEF IInv, Leader

LEMMA NextIInv == IInv /\ [Next]_vars => IInv'
<1> SUFFICES ASSUME IInv, [Next]_vars PROVE IInv'
  OBVIOUS
<1>1. CASE Iterate
  <2>1. PICK cp \in rest : /\ rest' = rest \ {cp}
                           /\ Skip(cp) \/ Consider(cp)
                           /\ UNCHANGED <<cps, current, hasCurrent, done>>
    BY <1>1 DEF Iterate
  <2>2. Leader'
    BY <2>1, SkipLeader, ConsiderLeader
  <2>3. TypeOK'
    BY <2>1 DEF IInv, TypeOK, Skip, Consider
  <2> QED  BY <2>1, <2>2, <2>3 DEF IInv, DistinctDiscs
<1>2. CASE Return
  BY <1>2 DEF Return, IInv, TypeOK, DistinctDiscs, Leader, Met
<1>3. CASE UNCHANGED vars
  BY <1>3 DEF vars, IInv, TypeOK, DistinctDiscs, Leader, Met
<1> QED  BY <1>1, <1>2, <1>3 DEF Next

LEMMA LeaderIsBest == IInv => BestSoFar
<1> SUFFICES ASSUME IInv PROVE best = SelectActive(Met, current, hasCurrent)
  BY DEF BestSoFar, Met
<1>1. CASE best = {} /\ \A cp \in Met : ~Valid(cp)
  BY <1>1 DEF SelectActive
<1>2. CASE \E a \in Met :
             /\ best = {a} /\ Valid(a)
             /\ \A b \in Met :
                  Valid(b) => b = a \/ Preferred(a, b, current, hasCurrent)
  <2>1. PICK a \in Met :
             /\ best = {a} /\ Valid(a)
             /\ \A b \in Met :
                  Valid(b) => b = a \/ Preferred(a, b, current, hasCurrent)
    BY <1>2
  <2>2. ASSUME NEW b \in SelectActive(Met, current, hasCurrent), b # a
        PROVE  FALSE
    <3>1. b \in Met /\ Valid(b) /\ Preferred(b, a, current, hasCurrent)
      BY <2>1, <2>2 DEF SelectActive
    <3>2. Preferred(a, b, current, hasCurrent)
      BY <2>1, <2>2, <3>1
    <3>3. a \in CandidatePath /\ b \in CandidatePath /\ hasCurrent \in BOOLEAN
      BY <3>1, PathTypes DEF IInv, TypeOK, Met
    <3> QED  BY <3>1, <3>2, <3>3, PreferredAsymmetric
  <2>3. a \in SelectActive(Met, current, hasCurrent)
    BY <2>1 DEF SelectActive
  <2> QED  BY <2>1, <2>2, <2>3
<1> QED  BY <1>1, <1>2 DEF IInv, Leader

-----------------------------------------------------------------------------
(* The loop's variables have their types.                                  *)
THEOREM TypeCorrect == Spec => []TypeOK
<1>1. IInv => TypeOK
  BY DEF IInv
<1> QED  BY InitIInv, NextIInv, <1>1, PTL DEF Spec

(* The loop invariant of SelectActive.                                     *)
THEOREM LoopCorrect == Spec => []BestSoFar
BY InitIInv, NextIInv, LeaderIsBest, PTL DEF Spec

(* The answer of SelectActive is the maximum of the valid paths, and does  *)
(* not depend on the order in which the map gave them.                     *)
THEOREM SelectionDeterministic == Spec => []OrderIndependent
<1>1. IInv => OrderIndependent
  <2> SUFFICES ASSUME IInv, done PROVE OrderIndependent
    BY DEF OrderIndependent
  <2>1. Met = cps
    BY DEF IInv, Met
  <2>2. best = SelectActive(cps, current, hasCurrent)
    BY <2>1, LeaderIsBest DEF BestSoFar, Met
  <2>3. /\ (best = {}) <=> (\A cp \in cps : ~Valid(cp))
        /\ \A a, b \in best : a = b
    BY <2>1 DEF IInv, Leader
  <2> QED  BY <2>2, <2>3 DEF OrderIndependent
<1> QED  BY InitIInv, NextIInv, <1>1, PTL DEF Spec

(* A valid path that is active already is given up only for one of higher  *)
(* preference or protocol-origin.                                          *)
THEOREM NoFlapping == Spec => []CurrentIsKept
<1>1. IInv => CurrentIsKept
  <2> SUFFICES ASSUME IInv, done, NEW cp \in cps, hasCurrent, Valid(cp),
                      CPKey(cp) = current, NEW b \in best, b # cp
               PROVE  \/ b.pref > cp.pref
                      \/ b.pref = cp.pref /\ b.origin > cp.origin
    BY DEF CurrentIsKept
  <2>1. b \in cps /\ Preferred(b, cp, current, hasCurrent)
    BY DEF IInv, Leader, Met
  <2>2. CPKey(b) # current
    BY <2>1 DEF IInv, TypeOK, DistinctDiscs, CPKey
  <2> QED  BY <2>1, <2>2 DEF Preferred
<1> QED  BY InitIInv, NextIInv, <1>1, PTL DEF Spec

=============================================================================
