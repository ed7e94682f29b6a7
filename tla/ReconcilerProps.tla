--------------------------- MODULE ReconcilerProps ---------------------------
(***************************************************************************)
(* What the reconciler promises, over the variables of module Reconciler.  *)
(***************************************************************************)
EXTENDS Reconciler

Active(k) == policies[k].hasActive
ActiveBSID(k) == policies[k].installed.bsid

(* The types of the variables.                                             *)
TypeOK ==
  /\ policies \in [Key -> PolicyState]
  /\ bsidOwner \in [BSID -> Key \cup {NoKey}]
  /\ dynUsed \subseteq BSID
  /\ orphans \subseteq BSID
  /\ gen \in Nat
  /\ task \in {"idle", "sweep", "gc", "revalidate"}
  /\ todo \subseteq IF task = "gc" THEN BSID ELSE Key
  /\ sub \in BOOLEAN
  /\ unsynced \subseteq Nat
  /\ reach \subseteq SID
  /\ dp \in Dataplane
  /\ calm \in BOOLEAN

(* The table of BSID owners says exactly which BSIDs the active paths use, *)
(* so two SR Policies never have the same BSID (RFC 9256 6.1) and none is  *)
(* kept from everybody by an owner that has left it.                       *)
OwnerExact ==
  \A b \in BSID, k \in Key :
    bsidOwner[b] = k <=> Active(k) /\ ActiveBSID(k) = b

(* The orphan collection of synced, which deletes without asking again,    *)
(* never has a BSID before it that an active path uses.                    *)
OrphansUnclaimed ==
  \A b \in orphans, k \in Key : ~(Active(k) /\ ActiveBSID(k) = b)

(* The addresses marked as handed out are those that policies hold: none   *)
(* leaks when a policy goes, none is held twice (reconciler.go's dynUsed). *)
DynExact ==
  /\ dynUsed = {policies[k].dynBSID : k \in Key} \ {NoAddr}
  /\ \A j, k \in Key :
       policies[j].dynBSID = policies[k].dynBSID =>
         j = k \/ policies[k].dynBSID = NoAddr

(* A policy the reconciler takes for up is in the dataplane, whatever VPP  *)
(* has refused and the daemon has been through: a failed replacement or    *)
(* roll-back, a best-effort deletion or a collected orphan never removes   *)
(* the policy that carries traffic.                                        *)
ActiveInDataplane ==
  \A k \in Key : Active(k) => dp.policies[ActiveBSID(k)] # {}

(* A dropped policy is down, and its endpoint has the drop route: the      *)
(* release is tried again and not forgotten while a route may be in place. *)
DropEngaged ==
  \A k \in Key : policies[k].dropped =>
    ~Active(k) /\ EndpointOf[k] \in dp.drops

(* A dynamic BSID stays with its policy as long as the policy lives        *)
(* (RFC 9256 6.2.1), whichever path is active and whatever fails.          *)
DynStable ==
  [][\A k \in Key : policies[k].dynBSID # NoAddr =>
       \/ policies'[k].dynBSID = policies[k].dynBSID
       \/ policies'[k] = NewPolicy]_vars

-----------------------------------------------------------------------------
(* With a dataplane that answers.                                          *)

(* No handler is running and the subscription's initial state is in.       *)
InSync == sub /\ task = "idle" /\ unsynced = {}

(* Once synced has run, no path of an earlier subscription is left, even   *)
(* when a late synced of that subscription came in between.                *)
NoGhosts ==
  InSync => \A k \in Key : \A c \in policies[k].cps : c.gen = gen

(* Once synced has run with -orphan-gc, the dataplane holds the policies   *)
(* of the active paths, with their segment lists, and no others: what a    *)
(* restart left behind is gone and nothing in use went with it.            *)
ResyncExact ==
  InSync /\ OrphanGC =>
    \A b \in BSID :
      dp.policies[b] =
        IF bsidOwner[b] = NoKey THEN {}
        ELSE Rendered(policies[bsidOwner[b]].installed)

(* An endpoint with a policy up is steered into an active policy for it.   *)
EndpointSteered ==
  \A k \in Key : Active(k) /\ k \in Steerable =>
    \E j \in Key : /\ Active(j)
                   /\ EndpointOf[j] = EndpointOf[k]
                   /\ dp.steering[EndpointOf[k]] = ActiveBSID(j)

(* A drop route is there exactly for the dropped policies, and never with  *)
(* a steering for the same endpoint, which would compete with it.          *)
DropExclusive ==
  /\ dp.drops = {EndpointOf[k] : k \in {k \in Key : policies[k].dropped}}
  /\ \A e \in dp.drops : dp.steering[e] = NoAddr

(* A policy leaves the drop only for being up again or being gone.         *)
FailClosed ==
  [][\A k \in Key : policies[k].dropped =>
       policies'[k].dropped \/ policies'[k].hasActive
         \/ policies'[k] = NewPolicy]_vars

(* The announcement of the path that is active.                            *)
ActivePath(k) ==
  {c.path : c \in {c \in policies[k].cps :
                     CPKey(c.path) = CPKey(policies[k].installed)}}

(* When the path that was active carried the I-Flag and the policy becomes *)
(* invalid without going away, the endpoint is dropped: README.md:169-174, *)
(* which the code follows (reconciler.go:483-484).  It contradicts         *)
(* README.md:130 and policy.go:120-121, which call the flag unsupported,   *)
(* detected and logged only.                                               *)
DropUponInvalid ==
  [][\A k \in Key :
       (/\ Active(k) /\ k \in Steerable
        /\ \E cp \in ActivePath(k) : cp.drop
        /\ ~policies'[k].hasActive /\ policies'[k] # NewPolicy)
       => policies'[k].dropped]_vars

(* A path whose BSID is specified but is not SRv6 is invalid               *)
(* (srpolicy/policy.go), so no policy is up by one.                        *)
ActiveIsValid ==
  \A k \in Key : Active(k) => \A cp \in ActivePath(k) : cp.bsid \notin OtherAddr

-----------------------------------------------------------------------------
(* Convergence.                                                            *)

(* What reconcile would change nothing about.                              *)
Settled(k) ==
  LET ps == policies[k]
      best == Best(k, View(ps), reach)
  IN  /\ ps.hasActive <=> best # {}
      /\ \A cp \in best : SameInstall(ps.installed, cp)
      /\ ps.cps = {} => ps = NewPolicy

(* Once VPP answers and nothing new is announced, every policy comes to    *)
(* rest with its preferred usable path up, or down for want of one, and    *)
(* stays so: a removal or an installation that failed is tried again, a    *)
(* BSID that was freed is taken up, a SID that came back is used.          *)
Convergence == calm ~> [](task = "idle" => \A k \in Key : Settled(k))

(* Then a failed call leaves nothing behind that is never repaired.        *)
SteeringRepaired == calm ~> []EndpointSteered

=============================================================================
