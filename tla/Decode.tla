------------------------------- MODULE Decode -------------------------------
(***************************************************************************)
(* adapter/bgp/decode.go: a path of gobgp's stream becomes the update of   *)
(* one candidate path.                                                     *)
(*                                                                         *)
(* What the protobuf accessors say of a message is its data here: an       *)
(* attribute, sub-TLV or segment is a record with a tag, an address is a   *)
(* member of the sets of module SRPolicy, and a byte string that makes no  *)
(* address is NoAddr.  Node stands for an IPv4 address that identifies a   *)
(* node, of which NoNode is the zero value.                                *)
(***************************************************************************)
EXTENDS SRPolicy, SequencesExt

CONSTANTS
  MaskBits     (* bits of VerifyMask: 32                                   *)

ASSUME DecodeAssumption == MaskBits \in Nat

NoNode == 0

OriginBGP == 20
DefaultPreference == 100
DefaultPriority == 128

-----------------------------------------------------------------------------
(* What gobgp hands over: the attributes of a path, the sub-TLVs of an SR  *)
(* Policy TLV and the segments of a list.  "A" is a segment of any type    *)
(* that is not B, "Other" a sub-TLV that is not read.                      *)
Segment ==
  [tag : {"B"}, sid : SID \cup OtherAddr \cup {NoAddr}, vFlag : BOOLEAN]
    \cup [tag : {"A"}]

SubTLV ==
  [tag : {"BindingSID", "SRv6BSID"}, sid : BSID \cup OtherAddr \cup {NoAddr},
   sFlag : BOOLEAN, iFlag : BOOLEAN]
    \cup [tag : {"Preference", "Priority"}, value : Nat]
    \cup [tag : {"SegmentList"}, weighted : BOOLEAN, weight : Nat,
          segments : Seq(Segment)]
    \cup [tag : {"Other"}]

Attribute ==
  [tag : {"tunnelEncap"}, value : Seq([type : Nat, subs : Seq(SubTLV)])]
    \cup [tag : {"communities"}, value : SUBSET STRING]
    \cup [tag : {"extComms"}, value : Seq([sub : STRING, node : Nat])]
    \cup [tag : {"originatorID"}, value : Nat]
    \cup [tag : {"Other"}]

-----------------------------------------------------------------------------
(* Attributes.                                                             *)

(* The last attribute of a kind counts; an ORIGINATOR_ID that does not     *)
(* parse leaves the one before.                                            *)
LastAmong(attrs, I, default) ==
  IF I = {} THEN default ELSE attrs[CHOOSE i \in I : \A j \in I : j =< i].value

LastAttr(attrs, tag, default) ==
  LastAmong(attrs, {i \in DOMAIN attrs : attrs[i].tag = tag}, default)

CollectAttrs(p) ==
  [tunnelEncap |-> LastAttr(p.attrs, "tunnelEncap", <<>>),
   communities |-> LastAttr(p.attrs, "communities", {}),
   extComms |-> LastAttr(p.attrs, "extComms", <<>>),
   originatorID |->
     LET Parsed == {i \in DOMAIN p.attrs : /\ p.attrs[i].tag = "originatorID"
                                           /\ p.attrs[i].value # NoNode}
     IN  LastAmong(p.attrs, Parsed, NoNode)]

(* Where the extended communities of a sub-type name a node.               *)
Naming(extComms, sub) ==
  {i \in DOMAIN extComms : extComms[i].sub = sub /\ extComms[i].node # NoNode}

RouteTargets(attrs) ==
  {attrs.extComms[i].node : i \in Naming(attrs.extComms, "RouteTarget")}

(* Mutant of Usable: NO_ADVERTISE makes any path usable.                   *)
UsableAnyway(attrs, id) ==
  "NO_ADVERTISE" \in attrs.communities \/ id \in RouteTargets(attrs)

(* With route targets one has to name this node; without, the path is      *)
(* usable when it carries NO_ADVERTISE.                                    *)
Usable(attrs, id) ==
  IF RouteTargets(attrs) = {} THEN "NO_ADVERTISE" \in attrs.communities
  ELSE id \in RouteTargets(attrs)

(* Route Origin, then ORIGINATOR_ID, then the router-id of the peer.       *)
OriginatorNode(p, attrs) ==
  LET I == Naming(attrs.extComms, "RouteOrigin")
  IN  IF I # {} THEN attrs.extComms[CHOOSE i \in I : \A j \in I : i =< j].node
      ELSE IF attrs.originatorID # NoNode THEN attrs.originatorID
      ELSE p.peer

-----------------------------------------------------------------------------
(* Segment lists.                                                          *)

EmptyList ==
  [weight |-> 1, sids |-> <<>>, unsupported |-> FALSE, verify |-> {},
   unresolvable |-> FALSE]

(* Mutant of AddSegment: the mask counts segments, not SIDs.               *)
AddSegmentCounting(sl, seg) ==
  IF seg.tag # "B" THEN [sl EXCEPT !.unsupported = TRUE]
  ELSE LET n == Len(sl.sids) + 1 IN
       [sl EXCEPT
          !.verify = IF seg.vFlag THEN @ \cup {n} ELSE @,
          !.sids = IF seg.sid = NoAddr THEN @ ELSE Append(@, seg.sid)]

(* A segment of another type spoils the list; a SID of no length that fits *)
(* is skipped; the V-Flag is kept for the position the SID gets.           *)
AddSegment(sl, seg) ==
  IF seg.tag # "B" THEN [sl EXCEPT !.unsupported = TRUE]
  ELSE IF seg.sid = NoAddr THEN sl
  ELSE LET n == Len(sl.sids) + 1 IN
       [sl EXCEPT
          !.verify = IF seg.vFlag /\ n =< MaskBits THEN @ \cup {n} ELSE @,
          !.sids = Append(@, seg.sid)]

(* Without a Weight sub-TLV the weight is 1; an explicit 0 is kept.        *)
DecodeSegmentList(sub) ==
  FoldLeft(AddSegment,
           [EmptyList EXCEPT !.weight = IF sub.weighted THEN sub.weight ELSE 1],
           sub.segments)

-----------------------------------------------------------------------------
(* The SR Policy TLV.                                                      *)

NothingRead ==
  [pref |-> DefaultPreference, prio |-> DefaultPriority, bsid |-> NoAddr,
   sls |-> {}, sOnly |-> FALSE, drop |-> FALSE, have |-> {}]

Bind(acc, sub, kind) ==
  [acc EXCEPT !.sOnly = sub.sFlag, !.drop = sub.iFlag,
              !.bsid = IF sub.sid = NoAddr THEN @ ELSE sub.sid,
              !.have = @ \cup {kind}]

(* Mutant of ReadSubTLV: the two kinds of binding SID are not ranked.      *)
ReadSubTLVLast(acc, sub) ==
  IF sub.tag \in {"BindingSID", "SRv6BSID"} /\ sub.tag \notin acc.have
  THEN Bind(acc, sub, sub.tag) ELSE acc

(* Of a preference, a priority and each kind of binding SID the first      *)
(* instance counts, and an SRv6 binding SID (type 20) over one of type 13, *)
(* whichever comes first.  One that is too short is passed over; a type 13 *)
(* whose SID is no address still sets the flags and uses up its turn.      *)
ReadSubTLV(acc, sub) ==
  CASE sub.tag = "BindingSID" ->
         IF acc.have \cap {"BindingSID", "SRv6BSID"} # {} THEN acc
         ELSE Bind(acc, sub, sub.tag)
    [] sub.tag = "SRv6BSID" ->
         IF "SRv6BSID" \in acc.have \/ sub.sid = NoAddr THEN acc
         ELSE Bind(acc, sub, sub.tag)
    [] sub.tag = "Preference" ->
         IF sub.tag \in acc.have THEN acc
         ELSE [acc EXCEPT !.pref = sub.value, !.have = @ \cup {sub.tag}]
    [] sub.tag = "Priority" ->
         IF sub.tag \in acc.have THEN acc
         ELSE [acc EXCEPT !.prio = sub.value, !.have = @ \cup {sub.tag}]
    [] sub.tag = "SegmentList" ->
         [acc EXCEPT !.sls = @ \cup {DecodeSegmentList(sub)}]
    [] sub.tag = "Other" -> acc

(* The first TLV of tunnel type 15 is read, the others are not.            *)
DecodeTunnelEncap(tlvs) ==
  LET policies == {i \in DOMAIN tlvs : tlvs[i].type = 15}
  IN  IF policies = {} THEN NothingRead
      ELSE FoldLeft(ReadSubTLV, NothingRead, tlvs[Min(policies)].subs)

-----------------------------------------------------------------------------
(* decodePath, for a path of SAFI 73.  An announcement that may not be     *)
(* used becomes a withdrawal.                                              *)
DecodePath(p, id) ==
  LET attrs == CollectAttrs(p)
      read == DecodeTunnelEncap(attrs.tunnelEncap)
  IN  [key |-> p.key,
       path |->
         [origin |-> OriginBGP,
          originator |-> [asn |-> p.asn, node |-> OriginatorNode(p, attrs)],
          disc |-> p.distinguisher,
          pref |-> read.pref, prio |-> read.prio, bsid |-> read.bsid,
          sls |-> read.sls, sOnly |-> read.sOnly, drop |-> read.drop],
       withdraw |-> p.withdraw \/ ~Usable(attrs, id)]

IsSRPolicy(p) == p.safi = 73

=============================================================================
