--------------------------- MODULE MCSubscription ---------------------------
(***************************************************************************)
(* Two NLRI of one policy.  One has a usable and an unusable version, the  *)
(* other is usable by NO_ADVERTISE.                                        *)
(***************************************************************************)
EXTENDS SubscriptionProps, DecodeProps

CONSTANTS k1, b1, b2, s1, s2, v4

MCLocalID == 1
Elsewhere == 2

Bind13(sid, s, i) == [tag |-> "BindingSID", sid |-> sid, sFlag |-> s, iFlag |-> i]
Bind20(sid, s, i) == [tag |-> "SRv6BSID", sid |-> sid, sFlag |-> s, iFlag |-> i]
SegB(sid, v) == [tag |-> "B", sid |-> sid, vFlag |-> v]
List(segs) ==
  [tag |-> "SegmentList", weighted |-> FALSE, weight |-> 0, segments |-> segs]

MCSubTLVs ==
  {Bind13(b1, FALSE, TRUE), Bind13(v4, TRUE, FALSE), Bind13(NoAddr, TRUE, TRUE),
   Bind20(b2, TRUE, FALSE), Bind20(b1, FALSE, FALSE), Bind20(NoAddr, TRUE, TRUE),
   [tag |-> "Preference", value |-> 7], [tag |-> "Other"]}

MCSegments ==
  {SegB(s1, FALSE), SegB(s1, TRUE), SegB(s2, TRUE), SegB(NoAddr, TRUE),
   [tag |-> "A"]}

Tunnel(subs) ==
  [tag |-> "tunnelEncap",
   value |-> <<[type |-> 8, subs |-> <<>>], [type |-> 15, subs |-> subs]>>]
RouteTarget(node) ==
  [tag |-> "extComms", value |-> <<[sub |-> "RouteTarget", node |-> node],
                                   [sub |-> "RouteOrigin", node |-> 5]>>]
NoAdvertise == [tag |-> "communities", value |-> {"NO_ADVERTISE"}]

Route(d, attrs) ==
  [safi |-> 73, key |-> k1, distinguisher |-> d, asn |-> 1, peer |-> 9,
   withdraw |-> FALSE, attrs |-> attrs]

MCRoutes ==
  {Route(1, <<Tunnel(<<Bind13(b1, FALSE, FALSE), List(<<SegB(s1, TRUE)>>)>>),
              RouteTarget(MCLocalID)>>),
   Route(1, <<Tunnel(<<Bind13(b1, FALSE, FALSE), List(<<SegB(s2, FALSE)>>)>>),
              NoAdvertise, RouteTarget(Elsewhere)>>),
   Route(2, <<[tag |-> "originatorID", value |-> 6], NoAdvertise,
              Tunnel(<<Bind20(b2, TRUE, TRUE), List(<<SegB(s2, FALSE)>>)>>)>>)}

MCForeign ==
  [safi |-> 1, key |-> k1, distinguisher |-> 1, asn |-> 1, peer |-> 9,
   withdraw |-> FALSE, attrs |-> <<>>]

(* What the proofs assume of the routes holds of these.                    *)
ASSUME MCRoutesAssumption == OneOfAKind

-----------------------------------------------------------------------------
(* Sequences of sub-TLVs and segments are tried before anything else       *)
(* happens, and nothing else happens while one is tried.                   *)
MCInit == Init /\ NoTLVs

MCNext ==
  \/ Next /\ NoTLVs /\ UNCHANGED <<triedSubs, triedSegs>>
  \/ Init /\ TryTLVs /\ UNCHANGED vars

MCSpec ==
  /\ MCInit
  /\ [][MCNext]_<<vars, triedSubs, triedSegs>>
  /\ Fairness

=============================================================================
