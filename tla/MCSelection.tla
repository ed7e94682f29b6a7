---------------------------- MODULE MCSelection ----------------------------
(***************************************************************************)
(* Candidate paths for checking module Selection: two preferences, two     *)
(* protocol-origins, two originators and three discriminators, valid and   *)
(* invalid (by an empty list and by a BSID that is not SRv6).              *)
(***************************************************************************)
EXTENDS Selection

CONSTANTS s1, b1, v4

MCList(w) == [weight |-> w, sids |-> <<s1>>, unsupported |-> FALSE,
              verify |-> {}, unresolvable |-> FALSE]

MCPath(p, o, n, d, b, w) ==
  [origin |-> o, originator |-> [asn |-> n, node |-> 1 - n], disc |-> d,
   pref |-> p, prio |-> 128, bsid |-> b, sls |-> {MCList(w)},
   sOnly |-> FALSE, drop |-> FALSE]

MCUniverse ==
  {MCPath(p, 20, n, d, b1, 1) : p \in {100, 200}, n \in {0, 1}, d \in 1..3}
    \cup {MCPath(100, 30, 1, 1, NoAddr, 1),
          MCPath(200, 20, 0, 2, v4, 1),
          MCPath(300, 20, 0, 3, b1, 0)}

=============================================================================
