------------------------------ MODULE USIDProps ------------------------------
(***************************************************************************)
(* What packing owes the segment list, over all lists of some addresses.   *)
(***************************************************************************)
EXTENDS USID

CONSTANTS
  TriedAddrs,   (* addresses the lists are made of                         *)
  MaxTried      (* length of the lists that are tried                      *)

ASSUME TriedAssumption == TriedAddrs \subseteq SID \cup OtherAddr

VARIABLE
  triedSIDs     (* the list that is tried                                  *)

NoSIDs == triedSIDs = <<>>

(* The list grows by an address, or another list is begun.                 *)
TrySIDs ==
  \/ /\ Len(triedSIDs) < MaxTried
     /\ \E a \in TriedAddrs : triedSIDs' = Append(triedSIDs, a)
  \/ triedSIDs # <<>> /\ triedSIDs' = <<>>

PackingSpec == NoSIDs /\ [][TrySIDs]_triedSIDs

(* Where an address sends a packet: one uSID after the other while uSIDs   *)
(* are left, if the address is nothing but uSIDs of the block.             *)
Slot(s, i) == SubSeq(s, blockBytes + (i - 1) * usidBytes + 1,
                     blockBytes + i * usidBytes)
Padding(s, i) == SubSeq(s, blockBytes + i * usidBytes + 1, addrBytes)

Waypoints(s) ==
  LET Holds(n) == /\ \A i \in 1..n : ~IsZero(Slot(s, i))
                  /\ IsZero(Padding(s, n))
      N == IF InBlock(s) THEN {n \in 1..PerCarrier : Holds(n)} ELSE {}
  IN  IF N = {} THEN <<s>>
      ELSE [i \in 1..(CHOOSE n \in N : TRUE) |-> Slot(s, i)]

Route(l) == FlattenSeq([i \in DOMAIN l |-> Waypoints(l[i])])

(* Compaction does not break "the order and meaning even of a mixed list": *)
(* the packet visits the same uSIDs and addresses in the same order; one   *)
(* that is a carrier already, has a gap or does not end in zeros keeps     *)
(* every bit.                                                              *)
SameRoute == Route(Compact(triedSIDs)) = Route(triedSIDs)

(* "The smallest number of carriers": a run of n single uSIDs takes n      *)
(* divided by what a carrier holds, rounded up, and any other address one. *)
FewestCarriers ==
  LET Single(i) == InBlock(triedSIDs[i]) /\ isSingleUSID(triedSIDs[i])
      RunStart(i) ==
        CHOOSE j \in 1..i : /\ \A k \in j..i : Single(k)
                           /\ (j = 1 \/ ~Single(j - 1))
      Opens(i) == Single(i) => (i - RunStart(i)) % PerCarrier = 0
  IN  Len(Compact(triedSIDs)) = Cardinality({i \in DOMAIN triedSIDs : Opens(i)})

(* A list stays valid, and one that is not does not become so unless it    *)
(* was too long: "validity is judged after compaction".                    *)
ValidityKept ==
  \A w \in {0, 1}, bad \in BOOLEAN, v \in {{}, {2}} :
    LET sl == [weight |-> w, sids |-> triedSIDs, unsupported |-> bad,
               verify |-> v, unresolvable |-> FALSE]
    IN  /\ ListValid(sl) => ListValid(Compacted(sl))
        /\ ListValid(Compacted(sl)) =>
             ListValid(sl) \/ Len(triedSIDs) > MaxSIDsPerList

=============================================================================
