--------------------------- MODULE ProgrammerProps ---------------------------
(***************************************************************************)
(* What the requests of module Programmer must keep true of the dataplane  *)
(* while a call is under way, and what a call amounts to when it returns.  *)
(***************************************************************************)
EXTENDS Programmer

ProgramPoint ==
  {"idle", "policyAdd", "policyAddAgain", "replaceExisting", "install",
   "rollback", "dump", "update", "prune", "steer", "resteerDel", "resteer",
   "supersede", "unsteer", "delete", "refuse", "drop", "undrop"}

(* Every variable has its type; what is left to add is a list of the path, *)
(* what is left to delete is a list the policy has.                        *)
TypeOK ==
  /\ DOMAIN vpp = {"policies", "steering", "drops"}
  /\ DOMAIN vpp.policies = BSID
  /\ \A x \in BSID :
       /\ IsFiniteSet(DOMAIN vpp.policies[x])
       /\ \A i \in DOMAIN vpp.policies[x] :
            i \in Nat /\ vpp.policies[x][i] \in SIDList
  /\ vpp.steering \in [Endpoint -> BSID \cup {NoAddr}]
  /\ vpp.drops \subseteq Endpoint
  /\ pc \in ProgramPoint
  /\ call \in Call \cup {NoCall}
  /\ adds # {} => adds \subseteq DOMAIN Want(call.path)
  /\ stale # {} => stale \subseteq DOMAIN vpp.policies[call.path.bsid]
  /\ programmed \in [Key -> BSID \cup {NoAddr}]
  /\ nil \in BOOLEAN
  /\ trouble \in {"none", "one", "more"}

Replacing == pc # "idle" /\ call.op = "Replace"

(* updateInPlace adds before it deletes: "the policy keeps one SID list or *)
(* more at every moment, and traffic flows while it is updated".  Whatever *)
(* is refused or lost on the way, a policy that had a list when an update  *)
(* in place began has one after every request of it.                       *)
HitlessUpdate ==
  [][Replacing /\ call.old = target /\ Has(before, target)
       => Has(vpp', target)]_vars

(* Replace makes before it breaks.  While a policy moves to another BSID,  *)
(* its endpoint, if it was steered to a policy that was there, is steered  *)
(* to one that is there, or from a steerDel on to none.                    *)
SteeredToPolicy ==
  [][/\ Replacing
     /\ call.old # target
     /\ call.key \in Steerable
     /\ before.steering[endpoint] = call.old
     /\ Has(before, call.old)
     => \/ vpp'.steering[endpoint] = NoAddr
        \/ Has(vpp', vpp'.steering[endpoint])]_vars

SameLists(f, g) ==
  \A l \in {f[i] : i \in DOMAIN f} \cup {g[i] : i \in DOMAIN g} :
    Count(f, l) = Count(g, l)

Returns == pc # "idle" /\ pc' = "idle"
Programs == call.op \in {"Add", "Replace"}

(* When Add or Replace returns nil the policy has exactly the valid lists  *)
(* of its path, each as often as the path has it, whatever an earlier call *)
(* that failed half-way has left: updateInPlace matches lists one to one   *)
(* and deletes by the right index.                                         *)
ExactLists ==
  [][Returns /\ Programs /\ nil' =>
       SameLists(vpp'.policies[target], Wanted(call.path))]_vars

(* installPolicy "rolls back what it has put in (leaves no half policy)":  *)
(* an Add or a move to another BSID that fails because one request was     *)
(* refused, or did not reach VPP, leaves of the new policy nothing, all of *)
(* its lists, or what was there.                                           *)
NoHalfPolicy ==
  [][Returns /\ Programs /\ ~InPlace /\ ~nil' /\ trouble' = "one" =>
       \/ ~Has(vpp', target)
       \/ SameLists(vpp'.policies[target], Wanted(call.path))
       \/ vpp'.policies[target] = before.policies[target]]_vars

-----------------------------------------------------------------------------
(* The refinement.  Until a call returns, the abstraction still sees the   *)
(* dataplane as the call found it; lists are seen as a set.                *)

Lists(v) ==
  [policies |-> [x \in BSID |-> {v.policies[x][i] : i \in DOMAIN v.policies[x]}],
   steering |-> v.steering,
   drops |-> v.drops]

AsPath(p) ==
  [bsid |-> p.bsid, sls |-> {p.sls[i] : i \in DOMAIN p.sls}]

AsCall(c) ==
  IF c = NoCall THEN c ELSE [c EXCEPT !.path = AsPath(@)]

Port == INSTANCE PortSpec WITH
  dp <- Lists(IF pc = "idle" THEN vpp ELSE before),
  calm <- FALSE,
  request <- AsCall(call),
  Calls <- {AsCall(c) : c \in Call}

(* Each call of the adapter, with every failure and crash on the way, is   *)
(* one step of the port the reconciler is checked against: it ends with a  *)
(* dataplane and an answer that ProgrammerPort allows for that call.       *)
ImplementsPort == Port!Spec

=============================================================================
