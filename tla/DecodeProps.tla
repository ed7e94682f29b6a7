----------------------------- MODULE DecodeProps -----------------------------
(***************************************************************************)
(* Decoding against the rules of RFC 9830 that it implements, over all     *)
(* sequences of some sub-TLVs and of some segments.                        *)
(***************************************************************************)
EXTENDS Decode

CONSTANTS
  SubTLVs,     (* sub-TLVs an SR Policy TLV is made of                     *)
  Segments,    (* segments a segment list is made of                       *)
  MaxSubTLVs   (* length of the sequences that are tried                   *)

ASSUME TriedTLVAssumption == SubTLVs \subseteq SubTLV /\ Segments \subseteq Segment

VARIABLES
  triedSubs,   (* the SR Policy TLV that is tried                          *)
  triedSegs    (* the segment list that is tried                           *)

NoTLVs == triedSubs = <<>> /\ triedSegs = <<>>

(* One of the two grows by an element, or both are begun anew.             *)
TryTLVs ==
  \/ /\ Len(triedSubs) < MaxSubTLVs
     /\ triedSegs = <<>>
     /\ \E s \in SubTLVs : triedSubs' = Append(triedSubs, s)
     /\ UNCHANGED triedSegs
  \/ /\ Len(triedSegs) < MaxSubTLVs
     /\ triedSubs = <<>>
     /\ \E s \in Segments : triedSegs' = Append(triedSegs, s)
     /\ UNCHANGED triedSubs
  \/ ~NoTLVs /\ triedSubs' = <<>> /\ triedSegs' = <<>>

TriedTLVs == <<triedSubs, triedSegs>>

DecodingSpec == NoTLVs /\ [][TryTLVs]_TriedTLVs

(* RFC 9830 2.4: the first SRv6 Binding SID sub-TLV that can be read gives *)
(* BSID and flags; without one, the first Binding SID sub-TLV does,        *)
(* wherever the two kinds stand and however often.                         *)
(* decode.go:154-155 speaks of the first instance; one that is too short   *)
(* is passed over, and the next one counts.                                *)
BindingSIDRule ==
  LET i == SelectInSeq(triedSubs, LAMBDA s : s.tag = "SRv6BSID" /\ s.sid # NoAddr)
      j == SelectInSeq(triedSubs, LAMBDA s : s.tag = "BindingSID")
      n == IF i # 0 THEN i ELSE j
      r == DecodeTunnelEncap(<<[type |-> 15, subs |-> triedSubs]>>)
  IN  <<r.bsid, r.sOnly, r.drop>> =
        IF n = 0 THEN <<NoAddr, FALSE, FALSE>>
        ELSE <<triedSubs[n].sid, triedSubs[n].sFlag, triedSubs[n].iFlag>>

(* A list has the SIDs of its type B segments in order; one with a segment *)
(* of another type is never used in part; a SID is verified at the place   *)
(* it has in the list, if the mask reaches that far.                       *)
SegmentListRule ==
  LET sl == DecodeSegmentList([weighted |-> FALSE, segments |-> triedSegs])
      kept == {i \in DOMAIN triedSegs : triedSegs[i].tag = "B" /\ triedSegs[i].sid # NoAddr}
      Place(i) == Cardinality({j \in kept : j =< i})
  IN  /\ Len(sl.sids) = Cardinality(kept)
      /\ \A i \in kept : sl.sids[Place(i)] = triedSegs[i].sid
      /\ sl.unsupported = (\E i \in DOMAIN triedSegs : triedSegs[i].tag # "B")
      /\ sl.verify = {Place(i) : i \in {j \in kept : triedSegs[j].vFlag /\ Place(j) =< MaskBits}}

=============================================================================
