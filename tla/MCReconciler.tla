---------------------------- MODULE MCReconciler ----------------------------
(***************************************************************************)
(* Small instances of module Reconciler: two SR Policies, and one or two   *)
(* discriminators each.                                                    *)
(***************************************************************************)
EXTENDS ReconcilerProps

CONSTANTS k1, k2, e1, e2, b1, b2, b3, s1, s2, v4

MCOwnEndpoint == [k \in Key |-> IF k = k1 THEN e1 ELSE e2]
MCOneEndpoint == [k \in Key |-> e1]

MCList(s) == [weight |-> 1, sids |-> <<s>>, unsupported |-> FALSE,
              verify |-> {}, unresolvable |-> FALSE]
MCVList == [MCList(s1) EXCEPT !.sids = <<s1, s2>>, !.verify = {2}]
MCEmptyList == [MCList(s1) EXCEPT !.sids = <<>>]

MCUpdate(k, disc, pref, bsid, lists) ==
  [key |-> k,
   path |-> [origin |-> 20, originator |-> [asn |-> 1, node |-> 1],
             disc |-> disc, pref |-> pref, prio |-> IF k = k1 THEN 1 ELSE 2,
             bsid |-> bsid, sls |-> lists, sOnly |-> FALSE, drop |-> FALSE]]

WithIFlag(u) == [u EXCEPT !.path.drop = TRUE]

(* k1 has a path with two segment lists or another one, and a better path  *)
(* that needs an address from the pool; k2 wants the BSID k1 may use, or   *)
(* the address of the pool; k2 asks to be dropped and cannot be steered.   *)
MCCoreUpdates ==
  {WithIFlag(MCUpdate(k1, 1, 100, b1, {MCList(s1), MCList(s2)})),
   MCUpdate(k1, 1, 100, b1, {[MCList(s1) EXCEPT !.weight = 2]}),
   MCUpdate(k1, 2, 200, NoAddr, {MCList(s1)}),
   WithIFlag(MCUpdate(k2, 1, 100, b1, {MCList(s2)})),
   MCUpdate(k2, 1, 100, NoAddr, {MCList(s2)})}

(* I-Flags, an update of the active path's lists, a better path that       *)
(* relies on another SID, a BSID from the pool and one that both want.     *)
MCSyncUpdates ==
  {WithIFlag(MCUpdate(k1, 1, 100, b1, {MCList(s1)})),
   WithIFlag(MCUpdate(k1, 1, 100, NoAddr, {MCList(s1), MCVList})),
   MCUpdate(k1, 2, 200, b1, {MCList(s2)}),
   WithIFlag(MCUpdate(k2, 1, 100, b1, {MCList(s2)}))}

(* Two policies that want the same BSID, one with an alternative from the  *)
(* pool.                                                                   *)
MCConvergeUpdates ==
  {WithIFlag(MCUpdate(k1, 1, 100, b1, {MCList(s1)})),
   MCUpdate(k2, 1, 200, b1, {MCList(s2)}),
   MCUpdate(k2, 2, 100, NoAddr, {MCList(s1)})}

(* The same path with and without the I-Flag, and an invalid one.          *)
MCFlagUpdates ==
  {MCUpdate(k1, 1, 100, b1, {MCList(s1)}),
   WithIFlag(MCUpdate(k1, 1, 100, b1, {MCList(s1)})),
   WithIFlag(MCUpdate(k1, 1, 100, b1, {MCEmptyList}))}

(* Two colors of one endpoint.                                             *)
MCColorUpdates ==
  {MCUpdate(k1, 1, 100, b1, {MCList(s1)}),
   MCUpdate(k2, 1, 100, b2, {MCList(s2)})}

(* A path and a better one with another BSID.                              *)
MCRepairUpdates ==
  {MCUpdate(k1, 1, 100, b1, {MCList(s1)}),
   MCUpdate(k1, 2, 200, b2, {MCList(s2)})}

(* A path with an IPv4 BSID and no S-Flag.                                 *)
MCIPv4Updates == {MCUpdate(k1, 1, 100, v4, {MCList(s1)})}

MCEmpty == {EmptyDataplane}

(* Another start's policy and steering are still there.                    *)
MCLeftovers ==
  {EmptyDataplane,
   [EmptyDataplane EXCEPT
      !.policies[b2] = {[weight |-> 1, sids |-> <<s1>>]},
      !.steering[e1] = b2]}

=============================================================================
