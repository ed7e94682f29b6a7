------------------------------ MODULE SRPolicy ------------------------------
(***************************************************************************)
(* The domain layer internal/srpolicy: segment lists, candidate paths,     *)
(* their validity (RFC 9256 5.1) and the order in which valid candidate    *)
(* paths of one SR Policy are preferred (RFC 9256 2.9).                    *)
(*                                                                         *)
(* An address is a member of a set that says what netip says of it: SID    *)
(* and BSID are SRv6 addresses (Is6 and not Is4In6), OtherAddr is every    *)
(* other valid address, NoAddr is the zero netip.Addr.  The segment lists  *)
(* of a path are a set: neither validity nor selection reads their order.  *)
(***************************************************************************)
EXTENDS Integers, Sequences

CONSTANTS
  SID,             (* SRv6 addresses that appear in segment lists          *)
  BSID,            (* SRv6 addresses that appear as binding SIDs           *)
  OtherAddr,       (* IPv4 and IPv4-mapped addresses                       *)
  NoAddr,          (* the zero netip.Addr: no address                      *)
  MaxSIDsPerList   (* longest SID list the headend can instantiate         *)

ASSUME AddrAssumption ==
  /\ NoAddr \notin SID \cup BSID \cup OtherAddr
  /\ OtherAddr \cap (SID \cup BSID) = {}
  /\ MaxSIDsPerList \in Nat \ {0}

SegmentList ==
  [weight : Nat,
   sids : Seq(SID \cup OtherAddr),
   unsupported : BOOLEAN,      (* held a segment that is not SRv6          *)
   verify : SUBSET (Nat \ {0}),(* positions whose V-Flag was set           *)
   unresolvable : BOOLEAN]     (* the headend could not resolve a SID      *)

(* An originator is ordered as the 160-bit number <ASN, node>.             *)
Originator == [asn : Nat, node : Nat]

CandidatePath ==
  [origin : Nat, originator : Originator, disc : Nat,
   pref : Nat, prio : Nat,
   bsid : BSID \cup OtherAddr \cup {NoAddr},
   sls : SUBSET SegmentList,
   sOnly : BOOLEAN,            (* S-Flag, SpecifiedBSIDOnly                *)
   drop : BOOLEAN]             (* I-Flag, DropUponInvalid                  *)

-----------------------------------------------------------------------------
(* Validity.                                                               *)

ListValid(sl) ==
  /\ ~sl.unsupported
  /\ ~sl.unresolvable
  /\ Len(sl.sids) \in 1..MaxSIDsPerList
  /\ sl.weight # 0
  /\ \A i \in DOMAIN sl.sids : sl.sids[i] \in SID

ValidSegmentLists(cp) == {sl \in cp.sls : ListValid(sl)}

HasBSID(cp) == cp.bsid \in BSID

Valid(cp) ==
  /\ cp.bsid \notin OtherAddr
  /\ HasBSID(cp) \/ ~cp.sOnly
  /\ ValidSegmentLists(cp) # {}

-----------------------------------------------------------------------------
(* Selection.                                                              *)

CPKey(cp) == <<cp.origin, cp.originator, cp.disc>>

OriginatorLess(o, p) ==
  \/ o.asn < p.asn
  \/ o.asn = p.asn /\ o.node < p.node

(* Mutants of Preferred: the last tie-break, or the third rule, forgotten. *)
PreferredNoDisc(a, b, current, hasCurrent) ==
  \/ a.pref > b.pref
  \/ a.pref = b.pref /\ a.origin > b.origin
  \/ /\ a.pref = b.pref /\ a.origin = b.origin
     /\ OriginatorLess(a.originator, b.originator)

PreferredNoCurrent(a, b, current, hasCurrent) ==
  \/ PreferredNoDisc(a, b, current, hasCurrent)
  \/ /\ a.pref = b.pref /\ a.origin = b.origin
     /\ a.originator = b.originator
     /\ a.disc > b.disc

(* a is preferred over b: higher preference, higher protocol-origin, the   *)
(* path that is active already, lower originator, higher discriminator.    *)
Preferred(a, b, current, hasCurrent) ==
  \/ a.pref > b.pref
  \/ /\ a.pref = b.pref
     /\ \/ a.origin > b.origin
        \/ /\ a.origin = b.origin
           /\ LET ac == hasCurrent /\ CPKey(a) = current
                  bc == hasCurrent /\ CPKey(b) = current
              IN  \/ ac /\ ~bc
                  \/ /\ ac = bc
                     /\ \/ OriginatorLess(a.originator, b.originator)
                        \/ /\ a.originator = b.originator
                           /\ a.disc > b.disc

(* What SelectActive returns for the candidate paths cps: the valid path   *)
(* preferred over every other valid one, or nothing.  Module Selection     *)
(* models the loop that computes it.                                       *)
SelectActive(cps, current, hasCurrent) ==
  {a \in cps : /\ Valid(a)
               /\ \A b \in cps : Valid(b) =>
                    b = a \/ Preferred(a, b, current, hasCurrent)}

=============================================================================
