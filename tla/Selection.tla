------------------------------ MODULE Selection ------------------------------
(***************************************************************************)
(* The loop of srpolicy.SelectActive.  The reconciler builds its slice of  *)
(* candidate paths by ranging over a Go map, so the loop meets the paths   *)
(* in an arbitrary order that changes from one call to the next: a step    *)
(* takes any path not met yet.  Answer must not depend on that order.      *)
(***************************************************************************)
EXTENDS SRPolicy

CONSTANT Universe    (* the candidate paths a call may be given            *)

ASSUME UniverseAssumption == Universe \subseteq CandidatePath

VARIABLES
  cps,         (* the candidate paths of the call                          *)
  current,     (* key of the path that is active now                       *)
  hasCurrent,  (* there is one                                             *)
  rest,        (* paths the loop has not met yet                           *)
  best,        (* the set holding the best valid path met so far, or {}    *)
  done         (* the call has returned                                    *)

vars == <<cps, current, hasCurrent, rest, best, done>>

(* The reconciler keeps the paths of a policy in a map keyed by            *)
(* discriminator, so no two of them share one.                             *)
DistinctDiscs(S) == \A a, b \in S : a.disc = b.disc => a = b

(* Mutant of Init: the loop ranges over the paths of every policy.         *)
InitAllPaths ==
  /\ cps \in {S \in SUBSET Universe : DistinctDiscs(S)}
  /\ current \in {CPKey(cp) : cp \in Universe}
  /\ hasCurrent \in BOOLEAN
  /\ rest = Universe
  /\ best = {}
  /\ done = FALSE

Init ==
  /\ cps \in {S \in SUBSET Universe : DistinctDiscs(S)}
  /\ current \in {CPKey(cp) : cp \in Universe}
  /\ hasCurrent \in BOOLEAN
  /\ rest = cps
  /\ best = {}
  /\ done = FALSE

Skip(cp) ==
  /\ ~Valid(cp)
  /\ UNCHANGED best

(* Mutant of Consider: validity is not asked for the first path.           *)
ConsiderFirst(cp) ==
  /\ Valid(cp) \/ best = {}
  /\ best' = IF \A b \in best : Preferred(cp, b, current, hasCurrent)
             THEN {cp} ELSE best

Consider(cp) ==
  /\ Valid(cp)
  /\ best' = IF \A b \in best : Preferred(cp, b, current, hasCurrent)
             THEN {cp} ELSE best

Iterate ==
  \E cp \in rest :
    /\ rest' = rest \ {cp}
    /\ Skip(cp) \/ Consider(cp)
    /\ UNCHANGED <<cps, current, hasCurrent, done>>

Return ==
  /\ rest = {}
  /\ ~done
  /\ done' = TRUE
  /\ UNCHANGED <<cps, current, hasCurrent, rest, best>>

Next == Iterate \/ Return

Spec == Init /\ [][Next]_vars

-----------------------------------------------------------------------------
(* The loop's variables have their types.                                  *)
TypeOK ==
  /\ cps \subseteq Universe
  /\ hasCurrent \in BOOLEAN
  /\ rest \subseteq cps
  /\ best \subseteq cps
  /\ done \in BOOLEAN

(* Of the paths met so far, best holds the valid one preferred over every  *)
(* other valid one, and is empty only when none of them is valid: the loop *)
(* invariant of SelectActive.                                              *)
BestSoFar ==
  best = SelectActive(cps \ rest, current, hasCurrent)

(* Whatever order the map iteration took, the call returns the one valid   *)
(* path preferred over all others, and returns nothing only when no path   *)
(* is valid (RFC 9256 2.9): failover is deterministic.                     *)
OrderIndependent ==
  done => /\ best = SelectActive(cps, current, hasCurrent)
          /\ (best = {}) <=> (\A cp \in cps : ~Valid(cp))
          /\ \A a, b \in best : a = b

(* Flap suppression (2.9 rule 3): a valid path that is active already is   *)
(* given up only for one of higher preference or protocol-origin.          *)
CurrentIsKept ==
  done => \A cp \in cps :
    (hasCurrent /\ Valid(cp) /\ CPKey(cp) = current) =>
      \A b \in best : \/ b = cp
                      \/ b.pref > cp.pref
                      \/ b.pref = cp.pref /\ b.origin > cp.origin

=============================================================================
