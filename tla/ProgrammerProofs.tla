-------------------------- MODULE ProgrammerProofs --------------------------
(***************************************************************************)
(* Type correctness of the requests, and the two promises about traffic:   *)
(* an update in place is hitless, a move to another BSID is made before it *)
(* breaks.  For all policies, paths and addresses, with refusals, lost     *)
(* replies and crashes.                                                    *)
(***************************************************************************)
EXTENDS ProgrammerProps, FoldProofs

(* Segment lists by index, and dataplanes that have finitely many.         *)
ListTable == {P \in UNION {[I -> SIDList] : I \in SUBSET Nat} : IsFiniteSet(DOMAIN P)}

Plane ==
  [policies : [BSID -> ListTable], steering : [Endpoint -> BSID \cup {NoAddr}],
   drops : SUBSET Endpoint]

LEMMA TableIsFunction ==
  ASSUME NEW P
  PROVE  P \in ListTable <=>
           /\ P = [i \in DOMAIN P |-> P[i]]
           /\ DOMAIN P \subseteq Nat
           /\ IsFiniteSet(DOMAIN P)
           /\ \A i \in DOMAIN P : P[i] \in SIDList
<1>1. ASSUME P \in ListTable
      PROVE  /\ P = [i \in DOMAIN P |-> P[i]]
             /\ DOMAIN P \subseteq Nat
             /\ IsFiniteSet(DOMAIN P)
             /\ \A i \in DOMAIN P : P[i] \in SIDList
  <2>1. PICK I \in SUBSET Nat : P \in [I -> SIDList]
    BY <1>1 DEF ListTable
  <2>2. IsFiniteSet(DOMAIN P)
    BY <1>1 DEF ListTable
  <2> QED BY <2>1, <2>2
<1>2. ASSUME P = [i \in DOMAIN P |-> P[i]], DOMAIN P \subseteq Nat,
             IsFiniteSet(DOMAIN P), \A i \in DOMAIN P : P[i] \in SIDList
      PROVE  P \in ListTable
  <2>1. P \in [DOMAIN P -> SIDList]
    BY <1>2
  <2>2. DOMAIN P \in SUBSET Nat
    BY <1>2
  <2>3. P \in UNION {[I -> SIDList] : I \in SUBSET Nat}
    BY <2>1, <2>2
  <2> QED BY <1>2, <2>3 DEF ListTable
<1> QED BY <1>1, <1>2

LEMMA EmptyPlane == EmptyVPP \in Plane
<1>1. NoLists \in ListTable
  BY TableIsFunction, FS_EmptySet DEF NoLists
<1> QED BY <1>1 DEF EmptyVPP, Plane

-----------------------------------------------------------------------------
(* Naturals and finite sets.                                               *)

(* A set of naturals that is not empty has a least element.                *)
LEMMA LeastExists ==
  ASSUME NEW S \in SUBSET Nat, S # {}
  PROVE  \E x \in S : \A y \in S : x =< y
BY MinOfNaturals

(* Of the first n + 1 indexes one is free when n are taken.                *)
LEMMA FreeIndex ==
  ASSUME NEW D, IsFiniteSet(D)
  PROVE  \E n \in 0..Cardinality(D) : n \notin D
<1>1. Cardinality(D) \in Nat
  BY FS_CardinalityType
<1>2. SUFFICES ASSUME 0..Cardinality(D) \subseteq D PROVE FALSE
  OBVIOUS
<1>3. Cardinality(0..Cardinality(D)) = Cardinality(D) + 1
  <2>1. \A b \in Int : Cardinality(0..b) = IF 0 > b THEN 0 ELSE b - 0 + 1
    BY FS_Interval
  <2> QED BY <1>1, <2>1
<1>4. Cardinality(0..Cardinality(D)) =< Cardinality(D)
  BY <1>2, FS_Subset
<1> QED BY <1>1, <1>3, <1>4

(* FirstOf picks an element.                                               *)
LEMMA FirstOfIn ==
  ASSUME NEW S \in SUBSET Nat, S # {}
  PROVE  FirstOf(S) \in S
BY LeastExists DEF FirstOf

-----------------------------------------------------------------------------
(* What the requests do to the dataplane.                                  *)

(* A list is added next to those that are there.                           *)
LEMMA WithListAdds ==
  ASSUME NEW v \in Plane, NEW b \in BSID, NEW l \in SIDList
  PROVE  LET w == WithList(v, b, l) IN
         /\ w \in Plane
         /\ Has(w, b)
         /\ DOMAIN v.policies[b] \subseteq DOMAIN w.policies[b]
         /\ \E i \in DOMAIN w.policies[b] : i \notin DOMAIN v.policies[b]
         /\ \A x \in BSID \ {b} : w.policies[x] = v.policies[x]
         /\ w.steering = v.steering
         /\ w.drops = v.drops
<1> DEFINE P == v.policies[b]
           i == CHOOSE n \in 0..Cardinality(DOMAIN P) : n \notin DOMAIN P
           Q == [j \in DOMAIN P \cup {i} |-> IF j = i THEN l ELSE P[j]]
<1>1. P \in ListTable
  BY DEF Plane
<1>2. i \in 0..Cardinality(DOMAIN P) /\ i \notin DOMAIN P
  BY <1>1, TableIsFunction, FreeIndex
<1>3. i \in Nat
  BY <1>1, <1>2, TableIsFunction, FS_CardinalityType
<1>4. IsFiniteSet(DOMAIN P \cup {i})
  BY <1>1, TableIsFunction, FS_AddElement
<1>5. WithList(v, b, l) = [v EXCEPT !.policies[b] = Q]
  BY DEF WithList
<1> HIDE DEF i
<1>6. Q \in ListTable
  BY <1>1, <1>3, <1>4, TableIsFunction
<1>7. DOMAIN Q = DOMAIN P \cup {i}
  OBVIOUS
<1> HIDE DEF Q, P
<1>8. [v EXCEPT !.policies[b] = Q] \in Plane
  BY <1>6 DEF Plane
<1>9. [v EXCEPT !.policies[b] = Q].policies[b] = Q
  BY DEF Plane
<1> QED BY <1>2, <1>5, <1>7, <1>8, <1>9 DEF Plane, Has, P

(* A list is deleted and the others keep their indexes.                    *)
LEMMA WithoutListDeletes ==
  ASSUME NEW v \in Plane, NEW b \in BSID, NEW i
  PROVE  LET w == WithoutList(v, b, i) IN
         /\ w \in Plane
         /\ DOMAIN w.policies[b] = DOMAIN v.policies[b] \ {i}
         /\ \A x \in BSID \ {b} : w.policies[x] = v.policies[x]
         /\ w.steering = v.steering
         /\ w.drops = v.drops
<1> DEFINE P == v.policies[b]
           Q == [j \in DOMAIN P \ {i} |-> P[j]]
<1>1. P \in ListTable
  BY DEF Plane
<1>2. IsFiniteSet(DOMAIN P \ {i})
  BY <1>1, TableIsFunction, FS_RemoveElement
<1>3. Q \in ListTable
  BY <1>1, <1>2, TableIsFunction
<1>4. WithoutList(v, b, i) = [v EXCEPT !.policies[b] = Q]
  BY DEF WithoutList, Plane
<1>5. DOMAIN Q = DOMAIN P \ {i}
  OBVIOUS
<1> HIDE DEF Q, P
<1>6. [v EXCEPT !.policies[b] = Q] \in Plane
  BY <1>3 DEF Plane
<1>7. [v EXCEPT !.policies[b] = Q].policies[b] = Q
  BY DEF Plane
<1> QED BY <1>4, <1>5, <1>6, <1>7 DEF Plane, P

(* A policy goes with all its lists.                                       *)
LEMMA WithoutPolicyDeletes ==
  ASSUME NEW v \in Plane, NEW b \in BSID
  PROVE  LET w == WithoutPolicy(v, b) IN
         /\ w \in Plane
         /\ ~Has(w, b)
         /\ \A x \in BSID \ {b} : w.policies[x] = v.policies[x]
         /\ w.steering = v.steering
         /\ w.drops = v.drops
<1>1. NoLists \in ListTable /\ DOMAIN NoLists = {}
  BY TableIsFunction, FS_EmptySet DEF NoLists
<1> QED BY <1>1 DEF WithoutPolicy, Plane, Has

(* Steering changes nothing else.                                          *)
LEMMA SteeredSteers ==
  ASSUME NEW v \in Plane, NEW e \in Endpoint, NEW b \in BSID \cup {NoAddr}
  PROVE  LET w == Steered(v, e, b) IN
         /\ w \in Plane
         /\ w.policies = v.policies
         /\ w.steering = [v.steering EXCEPT ![e] = b]
         /\ w.drops = v.drops
BY DEF Steered, Plane

(* A request is carried out or not, and is carried out when VPP says so.   *)
LEMMA AskAnswers ==
  ASSUME NEW effect, NEW a \in Ask(effect)
  PROVE  /\ a.vpp \in {vpp, effect}
         /\ a.reply \in {"ok", "refused", "error"}
         /\ a.harm \in {"none", "one", "more"}
         /\ a.reply = "ok" => a.vpp = effect
         /\ a.reply = "refused" => a.vpp = vpp
BY DEF Ask

-----------------------------------------------------------------------------
(* The paths, and what they make the policy consist of.                    *)

(* The valid lists before the first list of the path and after each.       *)
Filters(g, base, sls) ==
  /\ g[0] = base
  /\ \A i \in 1..Len(sls) : g[i] = KeepValid(g[i - 1], sls[i])

LEMMA KeptType ==
  \A v \in Seq(SegmentList), a \in SegmentList : KeepValid(v, a) \in Seq(SegmentList)
BY AppendProperties DEF KeepValid

LEMMA FilterTurns ==
  ASSUME NEW sls \in Seq(SegmentList), NEW base \in Seq(SegmentList)
  PROVE  \E g \in [0..Len(sls) -> Seq(SegmentList)] :
            Filters(g, base, sls) /\ FoldLeft(KeepValid, base, sls) = g[Len(sls)]
<1> DEFINE n == Len(sls)
           V == Seq(SegmentList)
           G == [x \in V \X (1..n) |-> KeepValid(x[1], sls[x[2]])]
           F(it) == [S \in SUBSET (1..n) |->
                       IF S = {} THEN base ELSE KeepValid(it[S \ {Max(S)}], sls[Max(S)])]
           chosen == CHOOSE it : it = F(it)
<1>1. n \in Nat /\ DOMAIN sls = 1..n /\ \A i \in 1..n : sls[i] \in SegmentList
  BY ElementOfSeq
<1>2. base \in V
  OBVIOUS
<1>3. \A v \in V, a \in SegmentList : KeepValid(v, a) \in V
  BY KeptType
<1> HIDE DEF V
<1>4. G \in [V \X (1..n) -> V]
  BY <1>1, <1>3
<1>5. FoldLeft(KeepValid, base, sls) = chosen[1..n]
  BY <1>1 DEF FoldLeft, MapThenFoldSet
<1> HIDE DEF n
<1>6. \A S \in SUBSET (1..n) : S # {} => Max(S) \in 1..n
  BY <1>1, MaxOfInterval
<1>7. \E it : it = F(it)
  <2>1. PICK f \in [SUBSET (1..n) -> V] : Folds(f, n, base, G)
    <3> HIDE DEF G
    <3> QED  BY <1>1, <1>2, <1>4, FoldExists
  <2>2. \A S \in SUBSET (1..n) : S # {} =>
          G[<<f[S \ {Max(S)}], Max(S)>>] = KeepValid(f[S \ {Max(S)}], sls[Max(S)])
    BY <1>6
  <2>3. f = F(f)
    BY <2>1, <2>2 DEF Folds
  <2> QED  BY <2>3
<1>8. chosen = F(chosen)
  <2> HIDE DEF F
  <2> QED  BY <1>7
<1> HIDE DEF chosen
<1>9. Follows(chosen, n, V, base, G)
  BY <1>6, <1>8 DEF Follows
<1>10. \A v \in V, i \in 1..n : G[<<v, i>>] = KeepValid(v, sls[i])
  OBVIOUS
<1> HIDE DEF G
<1>11. Unfolds(chosen, n, V, base, G)
  BY <1>1, <1>2, <1>4, <1>9, FoldSteps
<1>12. PICK g \in [0..n -> V] : Steps(g, n, base, G) /\ chosen[1..n] = g[n]
  BY <1>11 DEF Unfolds
<1>13. \A i \in 1..n : g[i] = KeepValid(g[i - 1], sls[i])
  <2>1. \A i \in 1..n : g[i - 1] \in V
    BY <1>1
  <2> QED  BY <1>10, <1>12, <2>1 DEF Steps
<1>14. Filters(g, base, sls) /\ FoldLeft(KeepValid, base, sls) = g[n]
  BY <1>5, <1>12, <1>13 DEF Steps, Filters, n
<1> QED  BY <1>14 DEF n, V

(* Those that are valid among the first i.                                 *)
ValidAmong(sls, i) == {sls[j] : j \in {k \in 1..i : ListValid(sls[k])}}

ElementsOf(s) == {s[i] : i \in DOMAIN s}

LEMMA ElementAppended ==
  ASSUME NEW s \in Seq(SegmentList), NEW e \in SegmentList
  PROVE  ElementsOf(Append(s, e)) = ElementsOf(s) \cup {e}
<1> DEFINE t == Append(s, e)
           n == Len(s)
<1>1. /\ n \in Nat /\ DOMAIN s = 1..n
      /\ DOMAIN t = 1..(n + 1) /\ t[n + 1] = e /\ \A i \in 1..n : t[i] = s[i]
  BY AppendProperties
<1> HIDE DEF t, n
<1>2. \A i : i \in 1..(n + 1) <=> i \in 1..n \/ i = n + 1
  BY <1>1
<1>3. {t[i] : i \in 1..(n + 1)} = {s[i] : i \in 1..n} \cup {e}
  BY <1>1, <1>2
<1> QED  BY <1>1, <1>3 DEF ElementsOf, t

LEMMA ListFiltered ==
  ASSUME NEW sls \in Seq(SegmentList), NEW i \in 1..Len(sls), NEW v \in Seq(SegmentList),
         ElementsOf(v) = ValidAmong(sls, i - 1)
  PROVE  ElementsOf(KeepValid(v, sls[i])) = ValidAmong(sls, i)
<1>1. \A j : j \in 1..i <=> j \in 1..(i - 1) \/ j = i
  OBVIOUS
<1>2. sls[i] \in SegmentList
  BY ElementOfSeq
<1>3. CASE ListValid(sls[i])
  <2>1. ValidAmong(sls, i) = ValidAmong(sls, i - 1) \cup {sls[i]}
    BY <1>1, <1>3 DEF ValidAmong
  <2>2. KeepValid(v, sls[i]) = Append(v, sls[i])
    BY <1>3 DEF KeepValid
  <2> QED  BY <1>2, <2>1, <2>2, ElementAppended
<1>4. CASE ~ListValid(sls[i])
  <2>1. ValidAmong(sls, i) = ValidAmong(sls, i - 1)
    BY <1>1, <1>4 DEF ValidAmong
  <2>2. KeepValid(v, sls[i]) = v
    BY <1>4 DEF KeepValid
  <2> QED  BY <2>1, <2>2
<1> QED  BY <1>3, <1>4

(* What ValidSegmentLists returns.                                         *)
LEMMA WantedLists ==
  ASSUME NEW p \in Paths
  PROVE  /\ Want(p) \in Seq(SegmentList) \ {<<>>}
         /\ ElementsOf(Want(p)) = {p.sls[i] : i \in {j \in DOMAIN p.sls : ListValid(p.sls[j])}}
<1> DEFINE sls == p.sls
           n == Len(sls)
           none == <<>>
<1>1. sls \in Seq(SegmentList) /\ \E i \in DOMAIN sls : ListValid(sls[i])
  BY ProgrammerAssumption
<1>2. Want(p) = FoldLeft(KeepValid, none, sls)
  BY DEF Want
<1>3. none \in Seq(SegmentList) /\ ElementsOf(none) = {}
  BY DEF ElementsOf
<1> HIDE DEF sls, none
<1>4. n \in Nat /\ DOMAIN sls = 1..n
  BY <1>1
<1>5. PICK g \in [0..n -> Seq(SegmentList)] :
        Filters(g, none, sls) /\ FoldLeft(KeepValid, none, sls) = g[n]
  BY <1>1, <1>3, FilterTurns
<1> DEFINE T == {i \in 0..n : ElementsOf(g[i]) = ValidAmong(sls, i)}
<1>6. 0 \in T
  <2>1. ValidAmong(sls, 0) = {}
    BY DEF ValidAmong
  <2>2. g[0] = none /\ 0 \in 0..n
    BY <1>4, <1>5 DEF Filters
  <2> QED  BY <1>3, <2>1, <2>2
<1>7. ASSUME NEW i \in 1..n, i - 1 \in T
      PROVE  i \in T
  <2>1. i \in 0..n /\ i - 1 \in 0..n /\ i \in 1..Len(sls)
    BY <1>4
  <2>2. g[i] = KeepValid(g[i - 1], sls[i]) /\ g[i - 1] \in Seq(SegmentList)
    BY <1>5, <2>1 DEF Filters
  <2>3. ElementsOf(g[i - 1]) = ValidAmong(sls, i - 1)
    BY <1>7
  <2>4. ElementsOf(g[i]) = ValidAmong(sls, i)
    BY <1>1, <2>1, <2>2, <2>3, ListFiltered
  <2> QED  BY <2>1, <2>4
<1> HIDE DEF T, n
<1>8. 0..n \subseteq T
  BY <1>4, <1>6, <1>7, InductionUpTo
<1>9. n \in 0..n
  BY <1>4
<1>10. Want(p) \in Seq(SegmentList) /\ ElementsOf(Want(p)) = ValidAmong(sls, n)
  BY <1>2, <1>5, <1>8, <1>9 DEF T
<1>11. ValidAmong(sls, n) = {sls[i] : i \in {j \in DOMAIN sls : ListValid(sls[j])}}
  BY <1>4 DEF ValidAmong
<1>12. Want(p) # <<>>
  <2>1. PICK i \in DOMAIN sls : ListValid(sls[i])
    BY <1>1
  <2>2. sls[i] \in ElementsOf(Want(p))
    BY <1>10, <1>11, <2>1
  <2> QED  BY <2>2 DEF ElementsOf
<1> QED  BY <1>10, <1>11, <1>12 DEF sls


LEMMA WantTyped ==
  ASSUME NEW p \in Paths
  PROVE  /\ p.bsid \in BSID
         /\ Len(Want(p)) \in Nat
         /\ DOMAIN Want(p) = 1..Len(Want(p))
         /\ 1 \in DOMAIN Want(p)
         /\ \A i \in DOMAIN Want(p) : Rendering(Want(p)[i]) \in SIDList
<1> DEFINE W == Want(p)
<1>1. W \in Seq(SegmentList) /\ W # <<>> /\ p.bsid \in BSID
  BY WantedLists, ProgrammerAssumption
<1> HIDE DEF W
<1>2. Len(W) \in Nat /\ DOMAIN W = 1..Len(W) /\ 1 \in DOMAIN W
  BY <1>1
<1>3. ASSUME NEW i \in DOMAIN W PROVE Rendering(W[i]) \in SIDList
  <2>1. W[i] \in SegmentList
    BY <1>1, <1>3
  <2> QED BY <2>1 DEF Rendering, SIDList, SegmentList
<1> QED BY <1>1, <1>2, <1>3 DEF W

(* A kind of list that is there is counted.                                *)
LEMMA CountPositive ==
  ASSUME NEW S, IsFiniteSet(S), NEW x \in S
  PROVE  Cardinality(S) \in Nat /\ Cardinality(S) >= 1
<1>1. Cardinality(S) \in Nat
  BY FS_CardinalityType
<1>2. Cardinality(S) # 0
  BY FS_EmptySet
<1> QED BY <1>1, <1>2, SMT

(* When every list that is wanted is there, one that is there is wanted:   *)
(* the one with the least index among those equal to the first one wanted. *)
LEMMA MatchedStays ==
  ASSUME NEW P \in ListTable, NEW W, IsFiniteSet(DOMAIN W), 1 \in DOMAIN W,
         DOMAIN W \subseteq Nat, Unmatched(W, P) = {}
  PROVE  DOMAIN P \ Unmatched(P, W) # {}
<1> DEFINE l == W[1]
           Ranked == {j \in DOMAIN W : j =< 1 /\ W[j] = l}
           Same == {j \in DOMAIN P : P[j] = l}
           Wanting == {j \in DOMAIN W : W[j] = l}
<1>1. DOMAIN P \subseteq Nat /\ IsFiniteSet(DOMAIN P)
  BY TableIsFunction
<1>2. Cardinality(Ranked) \in Nat /\ Cardinality(Ranked) >= 1
  <2>1. 1 \in Ranked
    OBVIOUS
  <2>2. IsFiniteSet(Ranked)
    BY FS_Subset
  <2> HIDE DEF Ranked
  <2> QED BY <2>1, <2>2, CountPositive
<1>3. ~(Cardinality(Ranked) > Cardinality(Same))
  BY DEF Unmatched, Rank, Count
<1>4. Same # {}
  <2>1. IsFiniteSet(Same)
    BY <1>1, FS_Subset
  <2>2. ASSUME Same = {} PROVE FALSE
    <3>1. Cardinality(Same) = 0
      BY <2>2, FS_EmptySet
    <3> HIDE DEF Same, Ranked
    <3> QED BY <1>2, <1>3, <3>1, SMT
  <2> QED BY <2>2
<1>5. PICK m \in Same : \A j \in Same : m =< j
  <2>1. Same \in SUBSET Nat
    BY <1>1
  <2> HIDE DEF Same
  <2> QED BY <1>4, <2>1, LeastExists
<1>6. {j \in DOMAIN P : j =< m /\ P[j] = P[m]} = {m}
  <2>1. m \in DOMAIN P /\ P[m] = l /\ m \in Nat
    BY <1>1, <1>5
  <2>2. \A j \in DOMAIN P : j =< m /\ P[j] = l => j = m
    BY <1>1, <1>5, <2>1
  <2>3. m =< m
    BY <2>1
  <2> QED BY <2>1, <2>2, <2>3
<1>7. Rank(P, m) = 1
  BY <1>6, FS_Singleton DEF Rank
<1>8. Count(W, P[m]) \in Nat /\ Count(W, P[m]) >= 1
  <2>1. 1 \in Wanting /\ IsFiniteSet(Wanting)
    BY FS_Subset
  <2>2. Count(W, P[m]) = Cardinality(Wanting)
    BY <1>5 DEF Count
  <2> HIDE DEF Wanting
  <2> QED BY <2>1, <2>2, CountPositive
<1>9. m \in DOMAIN P /\ m \notin Unmatched(P, W)
  <2>1. ~(Rank(P, m) > Count(W, P[m]))
    BY <1>7, <1>8, SMT
  <2> QED BY <1>5, <2>1 DEF Unmatched
<1> QED BY <1>9

-----------------------------------------------------------------------------
(* The inductive invariant.                                                *)

Programming == call.op \in {"Add", "Replace"}
InstallPoint == {"policyAdd", "policyAddAgain", "replaceExisting", "install", "rollback"}
UpdatePoint == {"dump", "update", "prune"}
SteerPoint == {"steer", "resteerDel", "resteer"}

Typed ==
  /\ vpp \in Plane
  /\ before \in Plane
  /\ pc \in ProgramPoint
  /\ call \in Call \cup {NoCall}
  /\ programmed \in [Key -> BSID \cup {NoAddr}]
  /\ nil \in BOOLEAN
  /\ trouble \in {"none", "one", "more"}

(* Which call may stand at which request, and what has been reached there. *)
Control ==
  /\ pc = "idle" => call = NoCall
  /\ pc # "idle" => call \in Call
  /\ pc \in InstallPoint => Programming
  /\ pc \in UpdatePoint => call.op = "Replace" /\ InPlace
  /\ pc \in SteerPoint => /\ Programming
                          /\ ~InPlace
                          /\ call.key \in Steerable
                          /\ Has(vpp, target)
  /\ pc = "supersede" => call.op = "Replace" /\ ~InPlace /\ Has(vpp, target)
  /\ pc = "delete" => call.op \in {"Remove", "RemoveBSID"}
  /\ pc = "dump" => vpp = before

(* What is still to be done is on the path and in the policy.              *)
Work ==
  /\ adds # {} => /\ pc # "idle"
                  /\ Programming
                  /\ adds \subseteq DOMAIN Want(call.path)
  /\ pc \in {"install", "update"} => adds # {}
  /\ stale # {} => /\ pc \in {"update", "prune"}
                   /\ stale \subseteq DOMAIN vpp.policies[target]
  /\ pc = "prune" => stale # {}

(* An update in place adds before it deletes, and one list is not deleted. *)
Updating == Replacing /\ call.old = target /\ Has(before, target)

Hitless ==
  /\ Updating => pc \in UpdatePoint
  /\ pc = "update" => Has(vpp, target)
  /\ pc = "prune" => DOMAIN vpp.policies[target] \ stale # {}

(* A move leaves the steering on the old policy, which is there, until the *)
(* new one is.                                                             *)
Moving ==
  /\ Replacing
  /\ call.old # target
  /\ call.key \in Steerable
  /\ before.steering[endpoint] = call.old
  /\ Has(before, call.old)

OnOld == vpp.steering[endpoint] = call.old /\ Has(vpp, call.old)

MadeFirst ==
  Moving => \/ pc \in InstallPoint \cup {"steer", "resteerDel"} /\ OnOld
            \/ pc = "resteer" /\ vpp.steering[endpoint] = NoAddr
            \/ pc = "supersede" /\ vpp.steering[endpoint] = target

IInv == Typed /\ Control /\ Work /\ Hitless /\ MadeFirst

(* What a step may not do.                                                 *)
HitlessStep == Updating => Has(vpp', target)
SteeredStep ==
  Moving => \/ vpp'.steering[endpoint] = NoAddr
            \/ Has(vpp', vpp'.steering[endpoint])

Good == IInv' /\ HitlessStep /\ SteeredStep

-----------------------------------------------------------------------------
(* Lemmas about calls.                                                     *)

LEMMA CallFields ==
  ASSUME call \in Call
  PROVE  /\ call.op \in {"Add", "Replace", "Remove", "RemoveBSID", "InstallDrop",
                         "RemoveDrop"}
         /\ call.key \in Key
         /\ endpoint \in Endpoint
         /\ Programming => call.path \in Paths /\ target \in BSID
         /\ call.op \in {"Replace", "Remove", "RemoveBSID"} => call.old \in BSID
<1>1. /\ call.op \in {"Add", "Replace", "Remove", "RemoveBSID", "InstallDrop",
                      "RemoveDrop"}
      /\ call.key \in Key
      /\ Programming => call.path \in Paths
      /\ call.op \in {"Replace", "Remove", "RemoveBSID"} => call.old \in BSID
  BY DEF Call, Programming
<1>2. endpoint \in Endpoint
  BY <1>1, ProgrammerAssumption DEF endpoint
<1>3. Programming => target \in BSID
  BY <1>1, WantTyped DEF target
<1> QED BY <1>1, <1>2, <1>3

(* A call that is over leaves nothing behind but the dataplane.            *)
LEMMA OverIsGood ==
  ASSUME IInv, NEW ok \in BOOLEAN, Over(ok), vpp' \in Plane,
         programmed' \in [Key -> BSID \cup {NoAddr}],
         trouble' \in {"none", "one", "more"}, HitlessStep, SteeredStep
  PROVE  Good
<1>1. /\ pc' = "idle" /\ call' = NoCall /\ adds' = {} /\ stale' = {}
      /\ nil' = ok /\ before' = EmptyVPP
  BY DEF Over
<1>2. Typed'
  BY <1>1, EmptyPlane DEF Typed, ProgramPoint
<1>3. Control' /\ Work'
  BY <1>1 DEF Control, Work, InstallPoint, UpdatePoint, SteerPoint
<1>4. Hitless' /\ MadeFirst'
  BY <1>1 DEF Hitless, MadeFirst, Updating, Moving, Replacing
<1> QED BY <1>2, <1>3, <1>4 DEF Good, IInv

LEMMA ReturnIsGood ==
  ASSUME IInv, pc # "idle", NEW ok \in BOOLEAN, Return(ok), vpp' \in Plane,
         trouble' \in {"none", "one", "more"}, HitlessStep, SteeredStep
  PROVE  Good
<1>1. call \in Call /\ programmed \in [Key -> BSID \cup {NoAddr}]
  BY DEF IInv, Control, Typed
<1>2. programmed' \in [Key -> BSID \cup {NoAddr}]
  <2>1. CASE ok /\ Programming
    <3>1. programmed' = [programmed EXCEPT ![call.key] = target] /\ target \in BSID
      BY <1>1, <2>1, CallFields DEF Return, Programming
    <3> QED BY <1>1, <3>1
  <2>2. CASE ok /\ ~Programming /\ call.op = "Remove"
    BY <1>1, <2>2 DEF Return, Programming
  <2>3. CASE ~ok \/ (~Programming /\ call.op # "Remove")
    BY <1>1, <2>3 DEF Return, Programming
  <2> QED BY <2>1, <2>2, <2>3
<1> QED BY <1>2, OverIsGood DEF Return

(* What an answer makes of the trouble so far.                             *)
LEMMA SentTyped ==
  ASSUME IInv, NEW effect \in Plane, NEW a \in Ask(effect), Sent(a)
  PROVE  /\ vpp' \in {vpp, effect}
         /\ vpp' \in Plane
         /\ trouble' \in {"none", "one", "more"}
         /\ a.reply \in {"ok", "refused", "error"}
         /\ a.reply = "ok" => vpp' = effect
         /\ a.reply = "refused" => vpp' = vpp
<1>1. vpp \in Plane /\ trouble \in {"none", "one", "more"}
  BY DEF IInv, Typed
<1>2. vpp' = a.vpp /\ trouble' = Worse(a.harm)
  BY DEF Sent
<1>3. trouble' \in {"none", "one", "more"}
  BY <1>1, <1>2, AskAnswers DEF Worse
<1> QED BY <1>1, <1>2, <1>3, AskAnswers

(* A request that leaves the dataplane as it is keeps both promises.       *)
LEMMA IdleRequest ==
  ASSUME IInv, vpp' = vpp
  PROVE  HitlessStep /\ SteeredStep
<1>1. Updating => Has(vpp, target)
  BY DEF IInv, Hitless, Control, Updating, UpdatePoint, Has
<1>2. Moving => \/ vpp.steering[endpoint] = NoAddr
                \/ Has(vpp, vpp.steering[endpoint])
  BY DEF IInv, MadeFirst, Control, OnOld
<1> QED BY <1>1, <1>2 DEF HitlessStep, SteeredStep, Has

(* On the way through a call neither promise begins or ends to bind.       *)
LEMMA GotoKeepsPromises ==
  ASSUME pc # "idle", NEW l, l # "idle", Goto(l)
  PROVE  /\ call' = call /\ before' = before /\ programmed' = programmed
         /\ nil' = nil /\ pc' = l
         /\ target' = target /\ endpoint' = endpoint
         /\ Programming' = Programming /\ InPlace' = InPlace
         /\ Updating' = Updating /\ Moving' = Moving
BY DEF Goto, target, endpoint, Programming, InPlace, Updating, Moving,
       Replacing, Has

LEMMA GotoIsGood ==
  ASSUME IInv, pc # "idle", NEW l \in ProgramPoint \ {"idle"}, Goto(l),
         vpp' \in Plane, trouble' \in {"none", "one", "more"},
         Control', Work', Hitless', MadeFirst', HitlessStep, SteeredStep
  PROVE  Good
BY GotoKeepsPromises DEF Good, IInv, Typed

(* A call begins with nothing done.                                        *)
LEMMA BeginIsGood ==
  ASSUME IInv, NEW c \in Call, Begin(c)
  PROVE  Good
<1>1. /\ pc = "idle" /\ call' = c /\ pc' = Entry(c) /\ before' = vpp
      /\ trouble' = "none" /\ vpp' = vpp /\ adds' = adds /\ stale' = stale
      /\ programmed' = programmed /\ nil' = nil
  BY DEF Begin
<1>2. adds = {} /\ stale = {}
  BY <1>1 DEF IInv, Work
<1>3. c.op \in {"Add", "Replace", "Remove", "RemoveBSID", "InstallDrop", "RemoveDrop"}
  BY DEF Call
<1>4. /\ Entry(c) \in {"policyAdd", "dump", "unsteer", "delete", "refuse", "undrop"}
      /\ Entry(c) = "policyAdd" =>
           c.op = "Add" \/ (c.op = "Replace" /\ c.old # c.path.bsid)
      /\ Entry(c) = "dump" => c.op = "Replace" /\ c.old = c.path.bsid
      /\ Entry(c) = "delete" => c.op \in {"Remove", "RemoveBSID"}
      /\ c.op = "Replace" => Entry(c) \in {"policyAdd", "dump"}
  BY <1>3 DEF Entry
<1>5. Typed'
  BY <1>1, <1>4 DEF IInv, Typed, ProgramPoint
<1>6. Control' /\ Work'
  BY <1>1, <1>2, <1>4 DEF Control, Work, InstallPoint, UpdatePoint, SteerPoint,
     Programming, InPlace, target
<1>7. Hitless'
  BY <1>1, <1>4 DEF Hitless, Updating, Replacing, UpdatePoint, target
<1>8. MadeFirst'
  BY <1>1, <1>4 DEF MadeFirst, Moving, Replacing, InstallPoint, OnOld, target, Has
<1>9. HitlessStep /\ SteeredStep
  BY <1>1, IdleRequest
<1> QED BY <1>5, <1>6, <1>7, <1>8, <1>9 DEF Good, IInv

(* A call that begins is one of those the ports have.                      *)
LEMMA BeginsWithCall ==
  ASSUME IInv, Begins
  PROVE  \E c \in Call : Begin(c)
<1> DEFINE New(o, k, x, p) == [op |-> o, key |-> k, old |-> x, path |-> p]
<1>1. programmed \in [Key -> BSID \cup {NoAddr}]
  BY DEF IInv, Typed
<1>2. ASSUME NEW k \in Key, NEW p \in Paths, Begin(New("Add", k, NoAddr, p))
      PROVE  \E c \in Call : Begin(c)
  <2>1. New("Add", k, NoAddr, p) \in Call
    BY DEF Call
  <2> QED BY <1>2, <2>1
<1>3. ASSUME NEW k \in Key, programmed[k] # NoAddr, NEW p \in Paths,
             Begin(New("Replace", k, programmed[k], p))
      PROVE  \E c \in Call : Begin(c)
  <2>1. programmed[k] \in BSID
    BY <1>1, <1>3
  <2>2. New("Replace", k, programmed[k], p) \in Call
    BY <2>1 DEF Call
  <2> QED BY <1>3, <2>2
<1>4. ASSUME NEW k \in Key, programmed[k] # NoAddr,
             Begin(New("Remove", k, programmed[k], NoPath))
      PROVE  \E c \in Call : Begin(c)
  <2>1. programmed[k] \in BSID
    BY <1>1, <1>4
  <2>2. New("Remove", k, programmed[k], NoPath) \in Call
    BY <2>1 DEF Call
  <2> QED BY <1>4, <2>2
<1>5. ASSUME NEW x \in BSID,
             Begin(New("RemoveBSID", CHOOSE k \in Key : TRUE, x, NoPath))
      PROVE  \E c \in Call : Begin(c)
  <2>1. (CHOOSE k \in Key : TRUE) \in Key
    BY ProgrammerAssumption
  <2>2. New("RemoveBSID", CHOOSE k \in Key : TRUE, x, NoPath) \in Call
    BY <2>1 DEF Call
  <2> QED BY <1>5, <2>2
<1>6. ASSUME NEW k \in Key, NEW o \in {"InstallDrop", "RemoveDrop"},
             Begin(New(o, k, NoAddr, NoPath))
      PROVE  \E c \in Call : Begin(c)
  <2>1. New(o, k, NoAddr, NoPath) \in Call
    BY DEF Call
  <2> QED BY <1>6, <2>1
<1> HIDE DEF New
<1>7. \/ \E k \in Key, p \in Paths : Begin(New("Add", k, NoAddr, p))
      \/ \E k \in Key, p \in Paths :
           programmed[k] # NoAddr /\ Begin(New("Replace", k, programmed[k], p))
      \/ \E k \in Key :
           programmed[k] # NoAddr /\ Begin(New("Remove", k, programmed[k], NoPath))
      \/ \E x \in BSID :
           Begin(New("RemoveBSID", CHOOSE k \in Key : TRUE, x, NoPath))
      \/ \E k \in Key, o \in {"InstallDrop", "RemoveDrop"} :
           Begin(New(o, k, NoAddr, NoPath))
  BY DEF Begins, New
<1> QED BY <1>2, <1>3, <1>4, <1>5, <1>6, <1>7

LEMMA BeginsIsGood == ASSUME IInv, Begins PROVE Good
BY BeginsWithCall, BeginIsGood

-----------------------------------------------------------------------------
(* installPolicy.                                                          *)

(* It touches the lists of its target only.                                *)
OnlyTarget ==
  /\ vpp' \in Plane
  /\ \A x \in BSID \ {target} : vpp'.policies[x] = vpp.policies[x]
  /\ vpp'.steering = vpp.steering

LEMMA InstallFields ==
  ASSUME IInv, pc \in InstallPoint
  PROVE  /\ pc # "idle"
         /\ call \in Call
         /\ Programming
         /\ call.path \in Paths
         /\ target \in BSID
         /\ vpp \in Plane
         /\ stale = {}
         /\ ~Updating
         /\ trouble \in {"none", "one", "more"}
<1>1. pc # "idle" /\ pc \notin UpdatePoint
  BY DEF InstallPoint, UpdatePoint
<1>2. call \in Call /\ Programming /\ vpp \in Plane /\ ~Updating /\ stale = {}
      /\ trouble \in {"none", "one", "more"}
  BY <1>1 DEF IInv, Control, Typed, Hitless, Work, UpdatePoint
<1> QED BY <1>1, <1>2, CallFields

LEMMA InstallKeepsOld ==
  ASSUME IInv, pc \in InstallPoint, OnlyTarget
  PROVE  /\ HitlessStep
         /\ SteeredStep
         /\ Moving => vpp'.steering[endpoint] = call.old /\ Has(vpp', call.old)
<1>1. HitlessStep
  BY InstallFields DEF HitlessStep
<1>2. Moving => vpp'.steering[endpoint] = call.old /\ Has(vpp', call.old)
  <2>1. SUFFICES ASSUME Moving
                 PROVE  vpp'.steering[endpoint] = call.old /\ Has(vpp', call.old)
    OBVIOUS
  <2>2. OnOld
    BY <2>1 DEF IInv, MadeFirst, InstallPoint
  <2>3. call.old \in BSID \ {target}
    BY <2>1, InstallFields, CallFields DEF Moving, Replacing
  <2> QED BY <2>2, <2>3 DEF OnlyTarget, OnOld, Has
<1>3. SteeredStep
  BY <1>2 DEF SteeredStep
<1> QED BY <1>1, <1>2, <1>3

LEMMA InstallGoto ==
  ASSUME IInv, pc \in InstallPoint, OnlyTarget, trouble' \in {"none", "one", "more"},
         NEW l \in InstallPoint \cup {"steer", "supersede"}, Goto(l),
         adds' \subseteq DOMAIN Want(call.path), l = "install" => adds' # {},
         stale' = {},
         l \notin InstallPoint => Has(vpp', target) /\ ~InPlace,
         l = "steer" => call.key \in Steerable,
         l = "supersede" => call.op = "Replace" /\ call.key \notin Steerable
  PROVE  Good
<1>1. l \in ProgramPoint \ {"idle"} /\ l \notin UpdatePoint /\ l \notin {"delete"}
  BY DEF ProgramPoint, InstallPoint, UpdatePoint
<1>2. /\ call' = call /\ before' = before /\ pc' = l /\ target' = target
      /\ endpoint' = endpoint /\ Programming' = Programming /\ InPlace' = InPlace
      /\ Updating' = Updating /\ Moving' = Moving
  BY <1>1, InstallFields, GotoKeepsPromises
<1>3. /\ HitlessStep /\ SteeredStep
      /\ Moving => vpp'.steering[endpoint] = call.old /\ Has(vpp', call.old)
  BY InstallKeepsOld
<1>4. Control'
  BY <1>1, <1>2, InstallFields
     DEF Control, InstallPoint, UpdatePoint, SteerPoint, Has
<1>5. Work'
  BY <1>1, <1>2, InstallFields DEF Work, UpdatePoint, InstallPoint
<1>6. Hitless'
  BY <1>1, <1>2, InstallFields DEF Hitless, UpdatePoint, InstallPoint
<1>7. MadeFirst'
  <2>1. l = "supersede" => ~Moving
    BY DEF Moving
  <2> QED BY <1>2, <1>3, <2>1 DEF MadeFirst, OnOld, Has, InstallPoint
<1> QED BY <1>1, <1>3, <1>4, <1>5, <1>6, <1>7, InstallFields, GotoIsGood
        DEF OnlyTarget

LEMMA InstallReturn ==
  ASSUME IInv, pc \in InstallPoint, OnlyTarget, trouble' \in {"none", "one", "more"},
         NEW ok \in BOOLEAN, Return(ok)
  PROVE  Good
BY InstallKeepsOld, InstallFields, ReturnIsGood DEF OnlyTarget

(* Where an installation leads when all lists are in.                      *)
LEMMA InstallDone ==
  ASSUME IInv, pc \in InstallPoint, OnlyTarget, trouble' \in {"none", "one", "more"},
         Has(vpp', target), Then(AfterInstall)
  PROVE  Good
<1>1. CASE AfterInstall = "return"
  <2>1. Return(TRUE)
    BY <1>1 DEF Then
  <2> QED BY <2>1, InstallReturn
<1>2. CASE AfterInstall # "return"
  <2>1. /\ AfterInstall \in {"steer", "supersede"}
        /\ ~InPlace
        /\ AfterInstall = "steer" => call.key \in Steerable
        /\ AfterInstall = "supersede" => call.op = "Replace" /\ call.key \notin Steerable
    BY <1>2 DEF AfterInstall, AfterSteering
  <2>2. Goto(AfterInstall) /\ adds' = adds /\ stale' = stale
    BY <1>2 DEF Then
  <2>3. adds \subseteq DOMAIN Want(call.path)
    BY DEF IInv, Work
  <2>4. stale = {}
    BY InstallFields
  <2>5. AfterInstall \notin InstallPoint
    BY <2>1 DEF InstallPoint
  <2> HIDE DEF AfterInstall
  <2> QED BY <2>1, <2>2, <2>3, <2>4, <2>5, InstallGoto
<1> QED BY <1>1, <1>2

(* The requests that add the list at a position, or delete the target.     *)
LEMMA AddRequest ==
  ASSUME IInv, pc \in InstallPoint, NEW i \in DOMAIN Want(call.path),
         NEW a \in Ask(WithList(vpp, target, Rendering(Want(call.path)[i]))), Sent(a)
  PROVE  /\ OnlyTarget
         /\ trouble' \in {"none", "one", "more"}
         /\ a.reply = "ok" => Has(vpp', target)
<1> DEFINE w == WithList(vpp, target, Rendering(Want(call.path)[i]))
<1>1. Rendering(Want(call.path)[i]) \in SIDList
  BY InstallFields, WantTyped
<1>2. /\ w \in Plane
      /\ Has(w, target)
      /\ \A x \in BSID \ {target} : w.policies[x] = vpp.policies[x]
      /\ w.steering = vpp.steering
  BY <1>1, InstallFields, WithListAdds
<1> HIDE DEF w
<1>3. /\ vpp' \in {vpp, w} /\ vpp' \in Plane /\ trouble' \in {"none", "one", "more"}
      /\ a.reply = "ok" => vpp' = w
  BY <1>2, SentTyped DEF w
<1> QED BY <1>2, <1>3 DEF OnlyTarget, Has

LEMMA DeleteRequest ==
  ASSUME IInv, pc \in InstallPoint,
         NEW a \in Ask(WithoutPolicy(vpp, target)), Sent(a)
  PROVE  OnlyTarget /\ trouble' \in {"none", "one", "more"}
<1> DEFINE w == WithoutPolicy(vpp, target)
<1>1. /\ w \in Plane
      /\ \A x \in BSID \ {target} : w.policies[x] = vpp.policies[x]
      /\ w.steering = vpp.steering
  BY InstallFields, WithoutPolicyDeletes
<1> HIDE DEF w
<1>2. vpp' \in {vpp, w} /\ vpp' \in Plane /\ trouble' \in {"none", "one", "more"}
  BY <1>1, SentTyped DEF w
<1> QED BY <1>1, <1>2 DEF OnlyTarget

LEMMA PolicyAddIsGood == ASSUME IInv, PolicyAdd PROVE Good
<1>1. pc \in InstallPoint
  BY DEF PolicyAdd, InstallPoint
<1>2. adds \subseteq DOMAIN Want(call.path) /\ stale = {}
  BY <1>1, InstallFields DEF IInv, Work
<1>3. CASE Has(vpp, target)
  <2>1. vpp' = vpp /\ OnlyTarget
    BY <1>1, <1>3, InstallFields DEF PolicyAdd, OnlyTarget
  <2>2. CASE trouble' = trouble /\ Then("replaceExisting")
    <3>1. Goto("replaceExisting") /\ adds' = adds /\ stale' = stale
      BY <2>2 DEF Then
    <3>2. "replaceExisting" \in InstallPoint
      BY DEF InstallPoint
    <3> QED BY <1>1, <1>2, <2>1, <2>2, <3>1, <3>2, InstallFields, InstallGoto
  <2>3. CASE trouble' = Worse("one") /\ Return(FALSE)
    <3>1. trouble' \in {"none", "one", "more"}
      BY <1>1, <2>3, InstallFields DEF Worse
    <3> QED BY <1>1, <2>1, <2>3, <3>1, InstallReturn
  <2> QED BY <1>3, <2>2, <2>3 DEF PolicyAdd
<1>4. CASE ~Has(vpp, target)
  <2>1. PICK a \in Ask(WithList(vpp, target, Rendering(Want(call.path)[1]))) :
          /\ Sent(a)
          /\ IF a.reply # "ok" THEN Return(FALSE)
             ELSE IF RestOfLists = {} THEN Then(AfterInstall)
             ELSE Goto("install") /\ adds' = RestOfLists /\ UNCHANGED stale
    BY <1>4 DEF PolicyAdd
  <2>2. /\ OnlyTarget
        /\ trouble' \in {"none", "one", "more"}
        /\ a.reply = "ok" => Has(vpp', target)
    <3>1. 1 \in DOMAIN Want(call.path)
      BY <1>1, InstallFields, WantTyped
    <3> QED BY <1>1, <2>1, <3>1, AddRequest
  <2>3. CASE a.reply # "ok"
    BY <1>1, <2>1, <2>2, <2>3, InstallReturn
  <2>4. CASE a.reply = "ok" /\ RestOfLists = {}
    BY <1>1, <2>1, <2>2, <2>4, InstallDone
  <2>5. CASE a.reply = "ok" /\ RestOfLists # {}
    <3>1. Goto("install") /\ adds' = RestOfLists /\ stale' = stale
      BY <2>1, <2>5
    <3>2. RestOfLists \subseteq DOMAIN Want(call.path)
      BY <1>1, InstallFields, WantTyped DEF RestOfLists
    <3>3. "install" \in InstallPoint
      BY DEF InstallPoint
    <3> QED BY <1>1, <1>2, <2>2, <2>5, <3>1, <3>2, <3>3, InstallGoto
  <2> QED BY <2>3, <2>4, <2>5
<1> QED BY <1>3, <1>4

LEMMA ReplaceExistingIsGood == ASSUME IInv, ReplaceExisting PROVE Good
<1>1. pc \in InstallPoint
  BY DEF ReplaceExisting, InstallPoint
<1>2. adds \subseteq DOMAIN Want(call.path) /\ stale = {}
  BY <1>1, InstallFields DEF IInv, Work
<1>3. PICK a \in Ask(WithoutPolicy(vpp, target)) :
        /\ Sent(a)
        /\ IF a.reply = "ok" THEN Then("policyAddAgain") ELSE Return(FALSE)
  BY DEF ReplaceExisting
<1>4. OnlyTarget /\ trouble' \in {"none", "one", "more"}
  BY <1>1, <1>3, DeleteRequest
<1>5. CASE a.reply = "ok"
  <2>1. Goto("policyAddAgain") /\ adds' = adds /\ stale' = stale
    BY <1>3, <1>5 DEF Then
  <2>2. "policyAddAgain" \in InstallPoint
    BY DEF InstallPoint
  <2> QED BY <1>1, <1>2, <1>4, <2>1, <2>2, InstallGoto
<1>6. CASE a.reply # "ok"
  BY <1>1, <1>3, <1>4, <1>6, InstallReturn
<1> QED BY <1>5, <1>6

(* What is next to add.                                                    *)
LEMMA NextToAdd ==
  ASSUME IInv, pc \in {"install", "update"}
  PROVE  /\ FirstOf(adds) \in adds
         /\ FirstOf(adds) \in DOMAIN Want(call.path)
         /\ adds \subseteq DOMAIN Want(call.path)
<1>1. adds # {} /\ adds \subseteq DOMAIN Want(call.path) /\ Programming /\ call \in Call
  BY DEF IInv, Work, Control
<1>2. DOMAIN Want(call.path) \subseteq Nat
  <2>1. call.path \in Paths
    BY <1>1, CallFields
  <2> QED BY <2>1, WantTyped
<1>3. adds \in SUBSET Nat
  BY <1>1, <1>2
<1> QED BY <1>1, <1>3, FirstOfIn

LEMMA InstallRestIsGood == ASSUME IInv, InstallRest PROVE Good
<1>1. pc = "install" /\ pc \in InstallPoint
  BY DEF InstallRest, InstallPoint
<1>2. PICK a \in AddNext :
        /\ Sent(a)
        /\ IF a.reply # "ok" THEN Then("rollback")
           ELSE IF adds = {FirstOf(adds)} THEN Then(AfterInstall)
           ELSE Goto("install") /\ Added
  BY DEF InstallRest
<1>3. adds \subseteq DOMAIN Want(call.path) /\ stale = {} /\ FirstOf(adds) \in adds
      /\ FirstOf(adds) \in DOMAIN Want(call.path)
  BY <1>1, NextToAdd, InstallFields
<1>4. /\ OnlyTarget
      /\ trouble' \in {"none", "one", "more"}
      /\ a.reply = "ok" => Has(vpp', target)
  BY <1>1, <1>2, <1>3, AddRequest DEF AddNext
<1>5. CASE a.reply # "ok"
  <2>1. Goto("rollback") /\ adds' = adds /\ stale' = stale
    BY <1>2, <1>5 DEF Then
  <2>2. "rollback" \in InstallPoint
    BY DEF InstallPoint
  <2> QED BY <1>1, <1>3, <1>4, <2>1, <2>2, InstallGoto
<1>6. CASE a.reply = "ok" /\ adds = {FirstOf(adds)}
  BY <1>1, <1>2, <1>4, <1>6, InstallDone
<1>7. CASE a.reply = "ok" /\ adds # {FirstOf(adds)}
  <2>1. Goto("install") /\ adds' = adds \ {FirstOf(adds)} /\ stale' = stale
    BY <1>2, <1>7 DEF Added
  <2>2. "install" \in InstallPoint /\ adds' # {} /\ adds' \subseteq DOMAIN Want(call.path)
    BY <1>3, <1>7, <2>1 DEF InstallPoint
  <2> QED BY <1>1, <1>3, <1>4, <2>1, <2>2, InstallGoto
<1> QED BY <1>5, <1>6, <1>7

LEMMA RollbackIsGood == ASSUME IInv, Rollback PROVE Good
<1>1. pc \in InstallPoint
  BY DEF Rollback, InstallPoint
<1>2. PICK a \in Ask(WithoutPolicy(vpp, target)) : Sent(a) /\ Return(FALSE)
  BY DEF Rollback
<1> QED BY <1>1, <1>2, DeleteRequest, InstallReturn

-----------------------------------------------------------------------------
(* updateInPlace.                                                          *)

LEMMA UpdateFields ==
  ASSUME IInv, pc \in UpdatePoint
  PROVE  /\ pc # "idle"
         /\ call \in Call
         /\ call.op = "Replace"
         /\ Programming
         /\ InPlace
         /\ call.old = target
         /\ call.path \in Paths
         /\ target \in BSID
         /\ vpp \in Plane
         /\ ~Moving
         /\ trouble \in {"none", "one", "more"}
<1>1. pc # "idle" /\ call.op = "Replace" /\ InPlace /\ call \in Call /\ vpp \in Plane
      /\ trouble \in {"none", "one", "more"}
  BY DEF IInv, Control, Typed, UpdatePoint
<1>2. Programming /\ call.old = target /\ ~Moving
  BY <1>1 DEF Programming, InPlace, Moving
<1> QED BY <1>1, <1>2, CallFields

(* A request of an update is good when it leaves a list.                   *)
LEMMA UpdateReturn ==
  ASSUME IInv, pc \in UpdatePoint, vpp' \in Plane, trouble' \in {"none", "one", "more"},
         Updating => Has(vpp', target), NEW ok \in BOOLEAN, Return(ok)
  PROVE  Good
<1>1. HitlessStep /\ SteeredStep
  BY UpdateFields DEF HitlessStep, SteeredStep
<1> QED BY <1>1, UpdateFields, ReturnIsGood

LEMMA UpdateGoto ==
  ASSUME IInv, pc \in UpdatePoint, vpp' \in Plane, trouble' \in {"none", "one", "more"},
         NEW l \in {"update", "prune"}, Goto(l),
         adds' \subseteq DOMAIN Want(call.path), l = "update" => adds' # {},
         stale' \subseteq DOMAIN vpp'.policies[target], l = "prune" => stale' # {},
         Has(vpp', target),
         l = "prune" => DOMAIN vpp'.policies[target] \ stale' # {}
  PROVE  Good
<1>1. /\ call' = call /\ before' = before /\ pc' = l /\ target' = target
      /\ Programming' = Programming /\ InPlace' = InPlace
      /\ Updating' = Updating /\ Moving' = Moving
  BY UpdateFields, GotoKeepsPromises
<1>2. HitlessStep /\ SteeredStep
  BY UpdateFields DEF HitlessStep, SteeredStep
<1>3. Control'
  BY <1>1, UpdateFields DEF Control, InstallPoint, UpdatePoint, SteerPoint
<1>4. Work'
  BY <1>1, UpdateFields DEF Work
<1>5. Hitless' /\ MadeFirst'
  BY <1>1, UpdateFields DEF Hitless, MadeFirst, UpdatePoint, Has
<1>6. l \in ProgramPoint \ {"idle"}
  BY DEF ProgramPoint
<1> QED BY <1>2, <1>3, <1>4, <1>5, <1>6, UpdateFields, GotoIsGood

LEMMA DumpIsGood == ASSUME IInv, Dump PROVE Good
<1> DEFINE P == vpp.policies[target]
           W == Wanted(call.path)
<1>1. pc = "dump" /\ pc \in UpdatePoint
  BY DEF Dump, UpdatePoint
<1>2. PICK a \in Ask(vpp) :
        /\ Sent(a)
        /\ IF a.reply # "ok" THEN Return(FALSE)
           ELSE IF ~Has(vpp, target) THEN Then("policyAdd")
           ELSE IF Missing(P) # {}
                THEN Goto("update") /\ adds' = Missing(P) /\ stale' = Stale(P)
           ELSE IF Stale(P) # {}
                THEN Goto("prune") /\ adds' = Missing(P) /\ stale' = Stale(P)
           ELSE Return(TRUE)
  BY DEF Dump
<1>3. vpp' = vpp /\ vpp' \in Plane /\ trouble' \in {"none", "one", "more"}
  <2>1. vpp \in Plane
    BY <1>1, UpdateFields
  <2> QED BY <1>2, <2>1, SentTyped
<1>4. vpp = before /\ adds \subseteq DOMAIN Want(call.path) /\ stale = {}
  BY <1>1 DEF IInv, Control, Work
<1>5. Updating => Has(vpp', target)
  BY <1>3, <1>4 DEF Updating
<1>6. /\ Missing(P) \subseteq DOMAIN Want(call.path)
      /\ Stale(P) \subseteq DOMAIN P
  BY DEF Missing, Stale, Unmatched, Wanted
<1>7. Missing(P) = {} => DOMAIN P \ Stale(P) # {}
  <2>1. DOMAIN W = 1..Len(Want(call.path)) /\ 1 \in DOMAIN W
    BY <1>1, UpdateFields, WantTyped DEF Wanted
  <2>2. Len(Want(call.path)) \in Nat
    BY <1>1, UpdateFields, WantTyped
  <2>3. IsFiniteSet(DOMAIN W) /\ DOMAIN W \subseteq Nat
    BY <2>1, <2>2, FS_Interval
  <2>4. P \in ListTable
    BY <1>1, UpdateFields DEF Plane
  <2> HIDE DEF P, W
  <2>5. Unmatched(W, P) = {} => DOMAIN P \ Unmatched(P, W) # {}
    BY <2>1, <2>3, <2>4, MatchedStays
  <2> QED BY <2>5 DEF Missing, Stale, W
<1>8. CASE a.reply # "ok"
  BY <1>1, <1>2, <1>3, <1>5, <1>8, UpdateReturn
<1>9. CASE a.reply = "ok" /\ ~Has(vpp, target)
  <2>1. Goto("policyAdd") /\ adds' = adds /\ stale' = stale
    BY <1>2, <1>9 DEF Then
  <2>2. ~Updating
    BY <1>4, <1>9 DEF Updating
  <2>3. /\ call' = call /\ before' = before /\ pc' = "policyAdd" /\ target' = target
        /\ Programming' = Programming /\ Updating' = Updating /\ Moving' = Moving
    BY <1>1, <2>1, GotoKeepsPromises
  <2>4. Control' /\ Work' /\ Hitless' /\ MadeFirst'
    BY <1>1, <1>3, <1>4, <2>1, <2>2, <2>3, UpdateFields
       DEF Control, Work, Hitless, MadeFirst, InstallPoint, UpdatePoint, SteerPoint
  <2>5. HitlessStep /\ SteeredStep
    BY <1>1, <2>2, UpdateFields DEF HitlessStep, SteeredStep
  <2>6. "policyAdd" \in ProgramPoint \ {"idle"}
    BY DEF ProgramPoint
  <2> QED BY <1>1, <1>3, <2>1, <2>4, <2>5, <2>6, GotoIsGood
<1>10. CASE a.reply = "ok" /\ Has(vpp, target) /\ Missing(P) # {}
  <2>1. Goto("update") /\ adds' = Missing(P) /\ stale' = Stale(P)
    BY <1>2, <1>10
  <2> QED BY <1>1, <1>3, <1>6, <1>10, <2>1, UpdateGoto
<1>11. CASE a.reply = "ok" /\ Has(vpp, target) /\ Missing(P) = {} /\ Stale(P) # {}
  <2>1. Goto("prune") /\ adds' = Missing(P) /\ stale' = Stale(P)
    BY <1>2, <1>11
  <2> QED BY <1>1, <1>3, <1>6, <1>7, <1>11, <2>1, UpdateGoto
<1>12. CASE a.reply = "ok" /\ Has(vpp, target) /\ Missing(P) = {} /\ Stale(P) = {}
  <2>1. Return(TRUE)
    BY <1>2, <1>12
  <2> QED BY <1>1, <1>3, <1>5, <2>1, UpdateReturn
<1> QED BY <1>8, <1>9, <1>10, <1>11, <1>12

LEMMA UpdateAddIsGood == ASSUME IInv, UpdateAdd PROVE Good
<1> DEFINE i == FirstOf(adds)
           w == WithList(vpp, target, Rendering(Want(call.path)[i]))
<1>1. pc = "update" /\ pc \in UpdatePoint
  BY DEF UpdateAdd, UpdatePoint
<1>2. PICK a \in Ask(w) :
        /\ Sent(a)
        /\ IF a.reply # "ok" THEN Return(FALSE)
           ELSE IF adds # {i} THEN Goto("update") /\ Added
           ELSE IF stale # {} THEN Goto("prune") /\ Added
           ELSE Return(TRUE)
  BY DEF UpdateAdd, AddNext
<1>3. i \in adds /\ i \in DOMAIN Want(call.path) /\ adds \subseteq DOMAIN Want(call.path)
  BY <1>1, NextToAdd
<1>4. Has(vpp, target) /\ stale \subseteq DOMAIN vpp.policies[target]
  BY <1>1 DEF IInv, Hitless, Work
<1>5. Added => adds' = adds \ {i} /\ stale' = stale
  BY DEF Added
<1>6. /\ w \in Plane
      /\ Has(w, target)
      /\ DOMAIN vpp.policies[target] \subseteq DOMAIN w.policies[target]
      /\ \E n \in DOMAIN w.policies[target] : n \notin DOMAIN vpp.policies[target]
  <2>1. Rendering(Want(call.path)[i]) \in SIDList
    BY <1>1, <1>3, UpdateFields, WantTyped
  <2> HIDE DEF i
  <2> QED BY <1>1, <2>1, UpdateFields, WithListAdds
<1> HIDE DEF i, w
<1>7. /\ vpp' \in {vpp, w} /\ vpp' \in Plane /\ trouble' \in {"none", "one", "more"}
      /\ a.reply \in {"ok", "refused", "error"}
      /\ a.reply = "ok" => vpp' = w
  BY <1>2, <1>6, SentTyped
<1>8. Has(vpp', target)
  BY <1>4, <1>6, <1>7
<1>9. CASE a.reply # "ok"
  BY <1>1, <1>2, <1>7, <1>8, <1>9, UpdateReturn
<1>10. CASE a.reply = "ok" /\ adds # {i}
  <2>1. Goto("update") /\ adds' = adds \ {i} /\ stale' = stale
    BY <1>2, <1>5, <1>10
  <2>2. adds' # {} /\ adds' \subseteq DOMAIN Want(call.path)
    BY <1>3, <1>10, <2>1
  <2>3. stale' \subseteq DOMAIN vpp'.policies[target]
    BY <1>4, <1>6, <1>7, <1>10, <2>1
  <2> QED BY <1>1, <1>7, <1>8, <2>1, <2>2, <2>3, UpdateGoto
<1>11. CASE a.reply = "ok" /\ adds = {i} /\ stale # {}
  <2>1. Goto("prune") /\ adds' = adds \ {i} /\ stale' = stale
    BY <1>2, <1>5, <1>11
  <2>2. adds' \subseteq DOMAIN Want(call.path)
    BY <1>3, <2>1
  <2>3. stale' \subseteq DOMAIN vpp'.policies[target]
    BY <1>4, <1>6, <1>7, <1>11, <2>1
  <2>4. DOMAIN vpp'.policies[target] \ stale' # {}
    BY <1>4, <1>6, <1>7, <1>11, <2>1
  <2> QED BY <1>1, <1>7, <1>8, <1>11, <2>1, <2>2, <2>3, <2>4, UpdateGoto
<1>12. CASE a.reply = "ok" /\ adds = {i} /\ stale = {}
  <2>1. Return(TRUE)
    BY <1>2, <1>12
  <2> QED BY <1>1, <1>7, <1>8, <2>1, UpdateReturn
<1> QED BY <1>9, <1>10, <1>11, <1>12

LEMMA UpdateDelIsGood == ASSUME IInv, UpdateDel PROVE Good
<1> DEFINE i == FirstOf(stale)
           w == WithoutList(vpp, target, i)
<1>1. pc = "prune" /\ pc \in UpdatePoint
  BY DEF UpdateDel, UpdatePoint
<1>2. PICK a \in Ask(w) :
        /\ Sent(a)
        /\ IF a.reply # "ok" THEN Return(FALSE)
           ELSE IF stale # {i} THEN Goto("prune") /\ stale' = stale \ {i} /\ adds' = adds
           ELSE Return(TRUE)
  BY DEF UpdateDel
<1>3. /\ stale # {} /\ stale \subseteq DOMAIN vpp.policies[target]
      /\ DOMAIN vpp.policies[target] \ stale # {}
      /\ adds \subseteq DOMAIN Want(call.path)
  BY <1>1 DEF IInv, Hitless, Work
<1>4. i \in stale
  <2>1. vpp.policies[target] \in ListTable
    BY <1>1, UpdateFields DEF Plane
  <2>2. stale \in SUBSET Nat
    BY <1>3, <2>1, TableIsFunction
  <2> QED BY <1>3, <2>2, FirstOfIn
<1>5. /\ w \in Plane
      /\ DOMAIN w.policies[target] = DOMAIN vpp.policies[target] \ {i}
  BY <1>1, UpdateFields, WithoutListDeletes
<1> HIDE DEF i, w
<1>6. /\ vpp' \in {vpp, w} /\ vpp' \in Plane /\ trouble' \in {"none", "one", "more"}
      /\ a.reply \in {"ok", "refused", "error"}
      /\ a.reply = "ok" => vpp' = w
  BY <1>2, <1>5, SentTyped
<1>7. Has(vpp', target)
  BY <1>3, <1>4, <1>5, <1>6 DEF Has
<1>8. CASE a.reply # "ok"
  BY <1>1, <1>2, <1>6, <1>7, <1>8, UpdateReturn
<1>9. CASE a.reply = "ok" /\ stale # {i}
  <2>1. Goto("prune") /\ stale' = stale \ {i} /\ adds' = adds
    BY <1>2, <1>9
  <2>2. /\ stale' # {}
        /\ stale' \subseteq DOMAIN vpp'.policies[target]
        /\ DOMAIN vpp'.policies[target] \ stale' # {}
    BY <1>3, <1>4, <1>5, <1>6, <1>9, <2>1
  <2> QED BY <1>1, <1>3, <1>6, <1>7, <2>1, <2>2, UpdateGoto
<1>10. CASE a.reply = "ok" /\ stale = {i}
  <2>1. Return(TRUE)
    BY <1>2, <1>10
  <2> QED BY <1>1, <1>6, <1>7, <2>1, UpdateReturn
<1> QED BY <1>8, <1>9, <1>10

-----------------------------------------------------------------------------
(* steerTo, and the end of Replace.                                        *)

LEMMA SteerFields ==
  ASSUME IInv, pc \in SteerPoint \cup {"supersede"}
  PROVE  /\ pc # "idle"
         /\ call \in Call
         /\ Programming
         /\ ~InPlace
         /\ endpoint \in Endpoint
         /\ target \in BSID
         /\ Has(vpp, target)
         /\ vpp \in Plane
         /\ stale = {}
         /\ adds \subseteq DOMAIN Want(call.path)
         /\ ~Updating
         /\ trouble \in {"none", "one", "more"}
<1>1. pc # "idle" /\ pc \notin UpdatePoint
  BY DEF SteerPoint, UpdatePoint
<1>2. /\ call \in Call /\ Programming /\ ~InPlace /\ Has(vpp, target) /\ vpp \in Plane
      /\ ~Updating /\ stale = {} /\ adds \subseteq DOMAIN Want(call.path)
      /\ trouble \in {"none", "one", "more"}
  BY <1>1 DEF IInv, Control, Typed, Hitless, Work, UpdatePoint, SteerPoint, Programming
<1> QED BY <1>1, <1>2, CallFields

(* The request that steers the endpoint to b, or to nothing.               *)
LEMMA SteerRequest ==
  ASSUME IInv, pc \in SteerPoint, NEW b \in BSID \cup {NoAddr},
         NEW a \in Ask(Steered(vpp, endpoint, b)), Sent(a)
  PROVE  /\ vpp' \in Plane
         /\ trouble' \in {"none", "one", "more"}
         /\ a.reply \in {"ok", "refused", "error"}
         /\ vpp'.policies = vpp.policies
         /\ vpp'.steering[endpoint] \in {vpp.steering[endpoint], b}
         /\ a.reply = "ok" => vpp'.steering[endpoint] = b
         /\ a.reply = "refused" => vpp' = vpp
<1> DEFINE w == Steered(vpp, endpoint, b)
<1>1. /\ w \in Plane
      /\ w.policies = vpp.policies
      /\ w.steering = [vpp.steering EXCEPT ![endpoint] = b]
  BY SteerFields, SteeredSteers
<1>2. w.steering[endpoint] = b
  <2>1. vpp.steering \in [Endpoint -> BSID \cup {NoAddr}] /\ endpoint \in Endpoint
    BY SteerFields DEF Plane
  <2> HIDE DEF w
  <2> QED BY <1>1, <2>1
<1> HIDE DEF w
<1>3. /\ vpp' \in {vpp, w} /\ vpp' \in Plane /\ trouble' \in {"none", "one", "more"}
      /\ a.reply \in {"ok", "refused", "error"}
      /\ a.reply = "ok" => vpp' = w
      /\ a.reply = "refused" => vpp' = vpp
  BY <1>1, SentTyped DEF w
<1> QED BY <1>1, <1>2, <1>3

(* Either promise holds of a dataplane with the policies of this one, whose *)
(* endpoint is steered to nothing, to the target, or to a policy it has.   *)
LEMMA SteerSafe ==
  ASSUME IInv, pc \in SteerPoint, vpp'.policies = vpp.policies,
         \/ vpp'.steering[endpoint] \in {NoAddr, target}
         \/ Moving => OnOld /\ vpp'.steering[endpoint] = call.old
  PROVE  HitlessStep /\ SteeredStep
<1>1. Has(vpp', target) /\ (OnOld => Has(vpp', call.old))
  BY SteerFields DEF Has, OnOld
<1> QED BY <1>1, SteerFields DEF HitlessStep, SteeredStep

LEMMA SteerReturn ==
  ASSUME IInv, pc \in SteerPoint, vpp' \in Plane, vpp'.policies = vpp.policies,
         trouble' \in {"none", "one", "more"}, HitlessStep, SteeredStep,
         NEW ok \in BOOLEAN, Return(ok)
  PROVE  Good
BY SteerFields, ReturnIsGood

LEMMA SteerGoto ==
  ASSUME IInv, pc \in SteerPoint, vpp' \in Plane, vpp'.policies = vpp.policies,
         trouble' \in {"none", "one", "more"}, HitlessStep, SteeredStep,
         NEW l \in {"resteerDel", "resteer", "supersede"}, Goto(l),
         adds' = adds, stale' = stale,
         l = "resteerDel" /\ Moving => OnOld /\ vpp'.steering = vpp.steering,
         l = "resteer" => vpp'.steering[endpoint] = NoAddr,
         l = "supersede" => call.op = "Replace" /\ vpp'.steering[endpoint] = target
  PROVE  Good
<1>1. /\ call' = call /\ before' = before /\ pc' = l /\ target' = target
      /\ endpoint' = endpoint /\ Programming' = Programming /\ InPlace' = InPlace
      /\ Updating' = Updating /\ Moving' = Moving
  BY SteerFields, GotoKeepsPromises
<1>2. pc \in SteerPoint => call.key \in Steerable
  BY DEF IInv, Control
<1>3. Control'
  BY <1>1, <1>2, SteerFields
     DEF Control, InstallPoint, UpdatePoint, SteerPoint, Has
<1>4. Work'
  BY <1>1, SteerFields DEF Work
<1>5. Hitless'
  BY <1>1, SteerFields DEF Hitless, UpdatePoint
<1>6. MadeFirst'
  BY <1>1 DEF MadeFirst, OnOld, Has, InstallPoint
<1>7. l \in ProgramPoint \ {"idle"}
  BY DEF ProgramPoint
<1> QED BY <1>3, <1>4, <1>5, <1>6, <1>7, SteerFields, GotoIsGood

(* The endpoint is on the target: Add is done, Replace goes on.            *)
LEMMA SteerDone ==
  ASSUME IInv, pc \in SteerPoint, vpp' \in Plane, vpp'.policies = vpp.policies,
         trouble' \in {"none", "one", "more"}, vpp'.steering[endpoint] = target,
         Then(AfterSteering)
  PROVE  Good
<1>1. HitlessStep /\ SteeredStep
  BY SteerSafe
<1>2. CASE call.op = "Replace"
  <2>1. Goto("supersede") /\ adds' = adds /\ stale' = stale
    BY <1>2 DEF Then, AfterSteering
  <2> QED BY <1>1, <1>2, <2>1, SteerGoto
<1>3. CASE call.op # "Replace"
  <2>1. Return(TRUE)
    BY <1>3 DEF Then, AfterSteering
  <2> QED BY <1>1, <2>1, SteerReturn
<1> QED BY <1>2, <1>3

LEMMA SteerIsGood == ASSUME IInv, Steer PROVE Good
<1>1. pc = "steer" /\ pc \in SteerPoint
  BY DEF Steer, SteerPoint
<1>2. Moving => OnOld
  BY <1>1 DEF IInv, MadeFirst
<1>3. ASSUME vpp' = vpp, trouble' \in {"none", "one", "more"}, Then("resteerDel")
      PROVE  Good
  <2>1. Goto("resteerDel") /\ adds' = adds /\ stale' = stale
    BY <1>3 DEF Then
  <2>2. vpp' \in Plane
    BY <1>1, <1>3, SteerFields
  <2> QED BY <1>1, <1>2, <1>3, <2>1, <2>2, IdleRequest, SteerGoto
<1>4. CASE \E a \in Ask(Steered(vpp, endpoint, target)) :
             /\ Sent(a)
             /\ CASE a.reply = "ok" -> Then(AfterSteering)
                  [] a.reply = "refused" -> Then("resteerDel")
                  [] a.reply = "error" -> Return(FALSE)
  <2>1. PICK a \in Ask(Steered(vpp, endpoint, target)) :
             /\ Sent(a)
             /\ CASE a.reply = "ok" -> Then(AfterSteering)
                  [] a.reply = "refused" -> Then("resteerDel")
                  [] a.reply = "error" -> Return(FALSE)
    BY <1>4
  <2>2. /\ vpp' \in Plane
        /\ trouble' \in {"none", "one", "more"}
        /\ a.reply \in {"ok", "refused", "error"}
        /\ vpp'.policies = vpp.policies
        /\ vpp'.steering[endpoint] \in {vpp.steering[endpoint], target}
        /\ a.reply = "ok" => vpp'.steering[endpoint] = target
        /\ a.reply = "refused" => vpp' = vpp
    <3>1. target \in BSID
      BY <1>1, SteerFields
    <3> QED BY <1>1, <2>1, <3>1, SteerRequest
  <2>3. CASE a.reply = "ok"
    <3>1. Then(AfterSteering)
      BY <2>1, <2>3
    <3> QED BY <1>1, <2>2, <2>3, <3>1, SteerDone
  <2>4. CASE a.reply = "refused"
    <3>1. Then("resteerDel")
      BY <2>1, <2>4
    <3> QED BY <1>3, <2>2, <2>4, <3>1
  <2>5. CASE a.reply = "error"
    <3>1. Return(FALSE)
      BY <2>1, <2>5
    <3>2. HitlessStep /\ SteeredStep
      BY <1>1, <1>2, <2>2, SteerSafe DEF OnOld
    <3> QED BY <1>1, <2>2, <3>1, <3>2, SteerReturn
  <2> QED BY <2>2, <2>3, <2>4, <2>5
<1>5. CASE /\ vpp.steering[endpoint] # NoAddr
           /\ UNCHANGED <<vpp, trouble>>
           /\ Then("resteerDel")
  BY <1>1, <1>3, <1>5, SteerFields
<1> QED BY <1>4, <1>5 DEF Steer

LEMMA ResteerDelIsGood == ASSUME IInv, ResteerDel PROVE Good
<1>1. pc = "resteerDel" /\ pc \in SteerPoint
  BY DEF ResteerDel, SteerPoint
<1>2. Moving => OnOld
  BY <1>1 DEF IInv, MadeFirst
<1>3. PICK a \in Ask(Steered(vpp, endpoint, NoAddr)) :
        Sent(a) /\ IF a.reply = "ok" THEN Then("resteer") ELSE Return(FALSE)
  BY DEF ResteerDel
<1>4. /\ vpp' \in Plane
      /\ trouble' \in {"none", "one", "more"}
      /\ vpp'.policies = vpp.policies
      /\ vpp'.steering[endpoint] \in {vpp.steering[endpoint], NoAddr}
      /\ a.reply = "ok" => vpp'.steering[endpoint] = NoAddr
  BY <1>1, <1>3, SteerRequest
<1>5. HitlessStep /\ SteeredStep
  BY <1>1, <1>2, <1>4, SteerSafe DEF OnOld
<1>6. CASE a.reply = "ok"
  <2>1. Goto("resteer") /\ adds' = adds /\ stale' = stale
    BY <1>3, <1>6 DEF Then
  <2> QED BY <1>1, <1>4, <1>5, <1>6, <2>1, SteerGoto
<1>7. CASE a.reply # "ok"
  BY <1>1, <1>3, <1>4, <1>5, <1>7, SteerReturn
<1> QED BY <1>6, <1>7

LEMMA ResteerIsGood == ASSUME IInv, Resteer PROVE Good
<1>1. pc = "resteer" /\ pc \in SteerPoint
  BY DEF Resteer, SteerPoint
<1>2. Moving => vpp.steering[endpoint] = NoAddr
  BY <1>1 DEF IInv, MadeFirst, InstallPoint
<1>3. PICK a \in Ask(Steered(vpp, endpoint, target)) :
        Sent(a) /\ IF a.reply = "ok" THEN Then(AfterSteering) ELSE Return(FALSE)
  BY DEF Resteer
<1>4. /\ vpp' \in Plane
      /\ trouble' \in {"none", "one", "more"}
      /\ vpp'.policies = vpp.policies
      /\ vpp'.steering[endpoint] \in {vpp.steering[endpoint], target}
      /\ a.reply = "ok" => vpp'.steering[endpoint] = target
  <2>1. target \in BSID
    BY <1>1, SteerFields
  <2> QED BY <1>1, <1>3, <2>1, SteerRequest
<1>5. CASE a.reply = "ok"
  BY <1>1, <1>3, <1>4, <1>5, SteerDone
<1>6. CASE a.reply # "ok"
  <2>1. HitlessStep
    BY <1>1, SteerFields DEF HitlessStep
  <2>2. SteeredStep
    <3>1. Has(vpp', target)
      BY <1>1, <1>4, SteerFields DEF Has
    <3> QED BY <1>2, <1>4, <3>1 DEF SteeredStep
  <2> QED BY <1>1, <1>3, <1>4, <1>6, <2>1, <2>2, SteerReturn
<1> QED BY <1>5, <1>6

(* The superseded policy goes; the endpoint is not on it any more.         *)
LEMMA SupersedeIsGood == ASSUME IInv, Supersede PROVE Good
<1> DEFINE w == WithoutPolicy(vpp, call.old)
<1>1. pc = "supersede" /\ pc \in SteerPoint \cup {"supersede"}
  BY DEF Supersede
<1>2. PICK a \in Ask(w) : Sent(a) /\ Return(TRUE)
  BY DEF Supersede
<1>3. call.op = "Replace" /\ call.old # target /\ call.old \in BSID
  <2>1. call.op = "Replace" /\ ~InPlace
    BY <1>1 DEF IInv, Control
  <2> QED BY <1>1, <2>1, SteerFields, CallFields DEF InPlace
<1>4. Moving => vpp.steering[endpoint] = target
  BY <1>1 DEF IInv, MadeFirst, InstallPoint
<1>5. /\ w \in Plane
      /\ \A x \in BSID \ {call.old} : w.policies[x] = vpp.policies[x]
      /\ w.steering = vpp.steering
  BY <1>1, <1>3, SteerFields, WithoutPolicyDeletes
<1> HIDE DEF w
<1>6. vpp' \in {vpp, w} /\ vpp' \in Plane /\ trouble' \in {"none", "one", "more"}
  BY <1>2, <1>5, SentTyped
<1>7. Has(vpp', target) /\ vpp'.steering = vpp.steering
  BY <1>1, <1>3, <1>5, <1>6, SteerFields DEF Has
<1>8. HitlessStep /\ SteeredStep
  BY <1>4, <1>7 DEF HitlessStep, SteeredStep
<1> QED BY <1>1, <1>2, <1>6, <1>8, SteerFields, ReturnIsGood

-----------------------------------------------------------------------------
(* The calls that withdraw a policy or handle a drop route: no promise     *)
(* binds them.                                                             *)

OtherPoint == {"unsteer", "delete", "refuse", "drop", "undrop"}

LEMMA OtherFields ==
  ASSUME IInv, pc \in OtherPoint
  PROVE  /\ pc # "idle"
         /\ call \in Call
         /\ endpoint \in Endpoint
         /\ vpp \in Plane
         /\ stale = {}
         /\ HitlessStep
         /\ SteeredStep
         /\ ~Updating
         /\ ~Moving
         /\ trouble \in {"none", "one", "more"}
<1>1. /\ pc # "idle" /\ pc \notin UpdatePoint
      /\ pc \notin InstallPoint \cup {"steer", "resteerDel", "resteer", "supersede"}
  BY DEF OtherPoint, UpdatePoint, InstallPoint
<1>2. call \in Call /\ vpp \in Plane /\ stale = {} /\ ~Updating /\ ~Moving
      /\ trouble \in {"none", "one", "more"}
  BY <1>1 DEF IInv, Control, Typed, Work, Hitless, MadeFirst, UpdatePoint
<1>3. HitlessStep /\ SteeredStep
  BY <1>2 DEF HitlessStep, SteeredStep
<1> QED BY <1>1, <1>2, <1>3, CallFields

LEMMA OtherReturn ==
  ASSUME IInv, pc \in OtherPoint, NEW effect \in Plane, NEW a \in Ask(effect),
         Sent(a), NEW ok \in BOOLEAN, Return(ok)
  PROVE  Good
BY OtherFields, SentTyped, ReturnIsGood

LEMMA UnsteerIsGood == ASSUME IInv, Unsteer PROVE Good
<1> DEFINE l == IF call.op = "Remove" THEN "delete" ELSE "drop"
<1>1. pc \in OtherPoint
  BY DEF Unsteer, OtherPoint
<1>2. PICK a \in Ask(Steered(vpp, endpoint, NoAddr)) : Sent(a) /\ Then(l)
  BY DEF Unsteer
<1>3. vpp' \in Plane /\ trouble' \in {"none", "one", "more"}
  BY <1>1, <1>2, OtherFields, SteeredSteers, SentTyped
<1>4. l \in {"delete", "drop"} /\ (l = "delete" => call.op = "Remove")
  OBVIOUS
<1>5. Goto(l) /\ adds' = adds /\ stale' = stale
  BY <1>2, <1>4 DEF Then
<1>6. /\ call' = call /\ before' = before /\ pc' = l /\ target' = target
      /\ Programming' = Programming /\ Updating' = Updating /\ Moving' = Moving
  BY <1>1, <1>4, <1>5, OtherFields, GotoKeepsPromises
<1> HIDE DEF l
<1>7. Control'
  BY <1>1, <1>4, <1>6, OtherFields DEF Control, InstallPoint, UpdatePoint, SteerPoint
<1>8. Work'
  BY <1>1, <1>4, <1>5, <1>6, OtherFields DEF Work, IInv
<1>9. Hitless' /\ MadeFirst'
  BY <1>1, <1>4, <1>6, OtherFields DEF Hitless, MadeFirst
<1>10. l \in ProgramPoint \ {"idle"}
  BY <1>4 DEF ProgramPoint
<1> QED BY <1>1, <1>3, <1>5, <1>7, <1>8, <1>9, <1>10, OtherFields, GotoIsGood

LEMMA DeleteIsGood == ASSUME IInv, Delete PROVE Good
<1>1. pc = "delete" /\ pc \in OtherPoint
  BY DEF Delete, OtherPoint
<1>2. PICK a \in Ask(WithoutPolicy(vpp, call.old)) :
        Sent(a) /\ Return(a.reply = "ok")
  BY DEF Delete
<1>3. call.old \in BSID
  BY <1>1, OtherFields, CallFields DEF IInv, Control
<1>4. WithoutPolicy(vpp, call.old) \in Plane
  BY <1>1, <1>3, OtherFields, WithoutPolicyDeletes
<1> QED BY <1>1, <1>2, <1>4, OtherReturn

LEMMA DropIsGood == ASSUME IInv, Drop PROVE Good
<1>1. pc \in OtherPoint
  BY DEF Drop, OtherPoint
<1>2. PICK a \in Ask([vpp EXCEPT !.drops = @ \cup {endpoint}]) :
        Sent(a) /\ Return(a.reply = "ok")
  BY DEF Drop
<1>3. [vpp EXCEPT !.drops = @ \cup {endpoint}] \in Plane
  BY <1>1, OtherFields DEF Plane
<1> QED BY <1>1, <1>2, <1>3, OtherReturn

LEMMA UndropIsGood == ASSUME IInv, Undrop PROVE Good
<1>1. pc \in OtherPoint
  BY DEF Undrop, OtherPoint
<1>2. PICK a \in Ask([vpp EXCEPT !.drops = @ \ {endpoint}]) :
        Sent(a) /\ Return(a.reply # "error")
  BY DEF Undrop
<1>3. [vpp EXCEPT !.drops = @ \ {endpoint}] \in Plane
  BY <1>1, OtherFields DEF Plane
<1> QED BY <1>1, <1>2, <1>3, OtherReturn

LEMMA RefuseIsGood == ASSUME IInv, Refuse PROVE Good
<1>1. pc \in OtherPoint
  BY DEF Refuse, OtherPoint
<1>2. Return(FALSE) /\ vpp' = vpp /\ trouble' = trouble
  BY DEF Refuse
<1> QED BY <1>1, <1>2, OtherFields, ReturnIsGood

LEMMA CrashIsGood == ASSUME IInv, Crash PROVE Good
<1>1. /\ Over(FALSE)
      /\ trouble' = "more"
      /\ programmed' = [k \in Key |-> NoAddr]
      /\ vpp' = vpp
  BY DEF Crash
<1>2. vpp' \in Plane /\ programmed' \in [Key -> BSID \cup {NoAddr}]
  BY <1>1 DEF IInv, Typed
<1> QED BY <1>1, <1>2, IdleRequest, OverIsGood

-----------------------------------------------------------------------------
(* The specification.                                                      *)

LEMMA InitIInv == ASSUME Init PROVE IInv
<1>1. Typed
  BY EmptyPlane DEF Init, Typed, ProgramPoint
<1>2. Control /\ Work
  BY DEF Init, Control, Work, InstallPoint, UpdatePoint, SteerPoint
<1>3. Hitless /\ MadeFirst
  BY DEF Init, Hitless, MadeFirst, Updating, Moving, Replacing
<1> QED BY <1>1, <1>2, <1>3 DEF IInv

LEMMA NextIsGood == ASSUME IInv, Next PROVE Good
<1>1. CASE Begins
  BY <1>1, BeginsIsGood
<1>2. CASE Install
  BY <1>2, PolicyAddIsGood, ReplaceExistingIsGood, InstallRestIsGood, RollbackIsGood
     DEF Install
<1>3. CASE Update
  BY <1>3, DumpIsGood, UpdateAddIsGood, UpdateDelIsGood DEF Update
<1>4. CASE Steering
  BY <1>4, SteerIsGood, ResteerDelIsGood, ResteerIsGood, SupersedeIsGood,
     UnsteerIsGood DEF Steering
<1>5. CASE Routes
  BY <1>5, DeleteIsGood, RefuseIsGood, DropIsGood, UndropIsGood DEF Routes
<1>6. CASE Crash
  BY <1>6, CrashIsGood
<1> QED BY <1>1, <1>2, <1>3, <1>4, <1>5, <1>6 DEF Next

LEMMA IdleIsGood == ASSUME IInv, UNCHANGED vars PROVE Good
<1>1. HitlessStep /\ SteeredStep
  BY IdleRequest DEF vars
<1>2. IInv'
  BY DEF vars, IInv, Typed, Control, Work, Hitless, MadeFirst, Updating, Moving,
     Replacing, OnOld, Has, Programming, InPlace, target, endpoint
<1> QED BY <1>1, <1>2 DEF Good

THEOREM InductiveInvariant == Spec => []IInv
<1>1. Init => IInv
  BY InitIInv
<1>2. IInv /\ [Next]_vars => IInv'
  BY NextIsGood, IdleIsGood DEF Good
<1> QED BY <1>1, <1>2, PTL DEF Spec

LEMMA IInvTypeOK == ASSUME IInv PROVE TypeOK
<1>1. Typed /\ Control /\ Work
  BY DEF IInv
<1>2. /\ DOMAIN vpp = {"policies", "steering", "drops"}
      /\ DOMAIN vpp.policies = BSID
      /\ vpp.steering \in [Endpoint -> BSID \cup {NoAddr}]
      /\ vpp.drops \subseteq Endpoint
      /\ \A x \in BSID : vpp.policies[x] \in ListTable
  BY <1>1 DEF Typed, Plane
<1>3. \A x \in BSID :
        /\ IsFiniteSet(DOMAIN vpp.policies[x])
        /\ \A i \in DOMAIN vpp.policies[x] :
             i \in Nat /\ vpp.policies[x][i] \in SIDList
  BY <1>2, TableIsFunction
<1>4. /\ adds # {} => adds \subseteq DOMAIN Want(call.path)
      /\ stale # {} => stale \subseteq DOMAIN vpp.policies[call.path.bsid]
  BY <1>1 DEF Work, target
<1> QED BY <1>1, <1>2, <1>3, <1>4 DEF Typed, TypeOK

(* In every state of every run the dataplane is typed, what is still to    *)
(* be added is on the path, and every list that is still to be deleted is  *)
(* one the policy has.                                                     *)
THEOREM ProgrammerTypeCorrect == Spec => []TypeOK
BY InductiveInvariant, IInvTypeOK, PTL

(* Whatever is refused, lost or cut short by a crash, a policy that has a  *)
(* list when an update in place begins has one after every request of it.  *)
THEOREM UpdateIsHitless == Spec => HitlessUpdate
<1>1. IInv /\ [Next]_vars =>
        [Replacing /\ call.old = target /\ Has(before, target) => Has(vpp', target)]_vars
  BY NextIsGood DEF Good, HitlessStep, Updating
<1> QED BY <1>1, InductiveInvariant, PTL DEF Spec, HitlessUpdate

(* While a policy moves to another BSID the endpoint that was steered to   *)
(* it is steered to a policy that is there, or to none.                    *)
THEOREM MoveIsMadeFirst == Spec => SteeredToPolicy
<1>1. IInv /\ [Next]_vars =>
        [/\ Replacing
         /\ call.old # target
         /\ call.key \in Steerable
         /\ before.steering[endpoint] = call.old
         /\ Has(before, call.old)
         => \/ vpp'.steering[endpoint] = NoAddr
            \/ Has(vpp', vpp'.steering[endpoint])]_vars
  BY NextIsGood DEF Good, SteeredStep, Moving
<1> QED BY <1>1, InductiveInvariant, PTL DEF Spec, SteeredToPolicy

=============================================================================
