--------------------------- MODULE ProgrammerPort ---------------------------
(***************************************************************************)
(* What the calls of the ports Programmer, Resyncer and InvalidDropper do  *)
(* to the dataplane, as internal/adapter/vpp implements them.  The         *)
(* reconciler makes every call with its mutex held and nobody else writes  *)
(* these objects, so a call is a set of outcomes [dp, ok]: the dataplane   *)
(* it leaves and whether it returned nil.  Several VPP requests make up a  *)
(* call and each may fail, so a failed call may leave half of its work.    *)
(***************************************************************************)
EXTENDS SRPolicy, FiniteSets

CONSTANTS
  Key,         (* SR Policies <color, endpoint>                            *)
  Endpoint,    (* their endpoints                                          *)
  EndpointOf,  (* the endpoint of a policy                                 *)
  Steerable,   (* the policies whose endpoint is steered                   *)
  Refusals,    (* VPP may refuse a request, or not be reached              *)
  Unacked      (* VPP may carry out a request whose reply is lost          *)

ASSUME PortAssumption ==
  /\ EndpointOf \in [Key -> Endpoint]
  /\ Steerable \subseteq Key
  /\ Refusals \in BOOLEAN
  /\ Unacked \in BOOLEAN

VARIABLES
  dp,          (* the dataplane                                            *)
  calm         (* from now on every request succeeds                       *)

(* A segment list as the dataplane holds it.                               *)
SIDList == [weight : Nat, sids : Seq(SID \cup OtherAddr)]

Dataplane ==
  [policies : [BSID -> SUBSET SIDList],          (* {}: no such policy     *)
   steering : [Endpoint -> BSID \cup {NoAddr}],
   drops    : SUBSET Endpoint]

EmptyDataplane ==
  [policies |-> [b \in BSID |-> {}],
   steering |-> [e \in Endpoint |-> NoAddr],
   drops    |-> {}]

(* The segment lists a candidate path is programmed with.                  *)
Rendered(cp) ==
  {[weight |-> sl.weight, sids |-> sl.sids] : sl \in ValidSegmentLists(cp)}

Faulty == Refusals /\ ~calm
Silent == Faulty /\ Unacked

Done(d) == {[dp |-> d, ok |-> TRUE]}
Failed(D) == {[dp |-> d, ok |-> FALSE] : d \in D}

WithPolicy(d, b, lists) == [d EXCEPT !.policies[b] = lists]
WithSteering(d, e, b) == [d EXCEPT !.steering[e] = b]

ProperSubsets(S) == (SUBSET S) \ {S}

-----------------------------------------------------------------------------
(* sr_policy_del; "not found" counts as success.                           *)
DeletePolicy(d, b) ==
  LET gone == WithPolicy(d, b, {})
  IN  Done(gone)
        \cup (IF Faulty THEN Failed({d}) ELSE {})
        \cup (IF Silent THEN Failed({gone}) ELSE {})

(* Add the first list, deleting a policy that holds the BSID already, and  *)
(* then the others; roll back if one is refused.  The rollback may fail    *)
(* too, and then a part of the lists stays.                                *)
InstallPolicy(d, b, lists) ==
  Done(WithPolicy(d, b, lists))
    \cup (IF Faulty
          THEN Failed({d} \cup {WithPolicy(d, b, L) : L \in ProperSubsets(lists)})
          ELSE {})
    \cup (IF Silent THEN Failed({WithPolicy(d, b, lists)}) ELSE {})

(* Mutant of UpdateInPlace: what is stale goes first.                      *)
UpdateDeletingFirst(d, b, lists) ==
  LET has == d.policies[b]
      partial == {has} \cup {has \ S : S \in SUBSET (has \ lists)}
  IN  Done(WithPolicy(d, b, lists))
        \cup (IF Faulty
              THEN Failed({WithPolicy(d, b, L) : L \in partial}) ELSE {})

(* Add what is missing, then delete what is stale: the policy has a list   *)
(* at every moment.  A failure leaves the additions or deletions so far.   *)
UpdateInPlace(d, b, lists) ==
  LET has == d.policies[b]
      toAdd == lists \ has
      stale == has \ lists
      partial == {has} \cup {has \cup A : A \in ProperSubsets(toAdd)}
                   \cup {(has \cup lists) \ S : S \in ProperSubsets(stale)}
  IN  IF has = {}
      THEN InstallPolicy(d, b, lists) \cup (IF Faulty THEN Failed({d}) ELSE {})
      ELSE Done(WithPolicy(d, b, lists))
             \cup (IF Faulty
                   THEN Failed({WithPolicy(d, b, L) : L \in partial}) ELSE {})
             \cup (IF Silent
                   THEN Failed({WithPolicy(d, b, L) :
                                  L \in {has \cup lists, lists}}) ELSE {})

(* Point the endpoint at b; an entry VPP would not overwrite is deleted    *)
(* first, and is lost when the second attempt is refused.                  *)
SteerTo(d, k, b) ==
  LET e == EndpointOf[k] IN
  IF k \notin Steerable THEN Done(d)
  ELSE Done(WithSteering(d, e, b))
         \cup (IF Faulty THEN Failed({d, WithSteering(d, e, NoAddr)}) ELSE {})
         \cup (IF Silent THEN Failed({WithSteering(d, e, b)}) ELSE {})

(* steerDel where the caller only logs a failure.                          *)
Unsteered(d, k) ==
  LET e == EndpointOf[k] IN
  {WithSteering(d, e, NoAddr)} \cup (IF Faulty THEN {d} ELSE {})

(* The rest of a call after a first part with the outcomes S: skipped when *)
(* that part failed.                                                       *)
Then(S, Rest(_)) == UNION {IF o.ok THEN Rest(o.dp) ELSE {o} : o \in S}

-----------------------------------------------------------------------------
(* The ports.                                                              *)

Add(d, k, cp) ==
  LET Steer(x) == SteerTo(x, k, cp.bsid)
  IN  Then(InstallPolicy(d, cp.bsid, Rendered(cp)), Steer)

(* Mutant of Replace: the steering stays with the superseded policy.       *)
ReplaceUnsteered(d, k, prev, next) ==
  LET Supersede(x) == {[o EXCEPT !.ok = TRUE] : o \in DeletePolicy(x, prev.bsid)}
  IN  IF prev.bsid = next.bsid
      THEN UpdateInPlace(d, next.bsid, Rendered(next))
      ELSE Then(InstallPolicy(d, next.bsid, Rendered(next)), Supersede)

(* The deletion of the superseded policy is best effort.                   *)
Replace(d, k, prev, next) ==
  LET Steer(x) == SteerTo(x, k, next.bsid)
      Supersede(x) == {[o EXCEPT !.ok = TRUE] : o \in DeletePolicy(x, prev.bsid)}
  IN  IF prev.bsid = next.bsid
      THEN UpdateInPlace(d, next.bsid, Rendered(next))
      ELSE Then(Then(InstallPolicy(d, next.bsid, Rendered(next)), Steer),
                Supersede)

Remove(d, k, cp) ==
  UNION {DeletePolicy(x, cp.bsid) :
           x \in IF k \in Steerable THEN Unsteered(d, k) ELSE {d}}

InstalledBSIDs(d) == {b \in BSID : d.policies[b] # {}}

RemoveBSID(d, b) == DeletePolicy(d, b)

InstallDrop(d, k) ==
  LET e == EndpointOf[k] IN
  IF k \notin Steerable THEN Failed({d})
  ELSE UNION {Done([x EXCEPT !.drops = @ \cup {e}])
                \cup (IF Faulty THEN Failed({x}) ELSE {})
                \cup (IF Silent
                      THEN Failed({[x EXCEPT !.drops = @ \cup {e}]}) ELSE {})
              : x \in Unsteered(d, k)}

(* Any answer of VPP counts as success, a refusal as "no such route".      *)
RemoveDrop(d, k) ==
  LET gone == [d EXCEPT !.drops = @ \ {EndpointOf[k]}]
  IN  Done(gone)
        \cup (IF Faulty THEN Done(d) \cup Failed({d}) ELSE {})
        \cup (IF Silent THEN Failed({gone}) ELSE {})

=============================================================================
