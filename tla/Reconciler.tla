----------------------------- MODULE Reconciler -----------------------------
(***************************************************************************)
(* control.Reconciler: candidate-path events of the subscription in, calls *)
(* on the dataplane out.  Every handler holds the mutex for its whole run, *)
(* so apply is one step; synced and the revalidation loop over policies    *)
(* and orphans, calling the dataplane once or more each time, and are one  *)
(* step per iteration, during which FIB and dataplane may still change.    *)
(*                                                                         *)
(* Paths are taken as PolicyTransform leaves them.                         *)
(***************************************************************************)
EXTENDS ProgrammerPort

CONSTANTS
  NoKey,       (* no policy                                                *)
  Updates,     (* what BGP may announce: records [key, path]               *)
  Pool,        (* addresses of -bsid-pool; {} when it is not set           *)
  OrphanGC,    (* -orphan-gc                                               *)
  VerifySIDs,  (* -verify-sids                                             *)
  Revalidate,  (* -revalidate                                              *)
  Restarts,    (* the daemon may crash and start again                     *)
  Quiet,       (* the environment may fall quiet for good                  *)
  Leftovers,   (* dataplanes the daemon may find when it first starts      *)
  MaxGen       (* bound on subscriptions between two starts                *)

ASSUME ReconcilerAssumption ==
  /\ NoKey \notin Key
  /\ Updates \subseteq [key : Key, path : CandidatePath]
  /\ Pool \subseteq BSID
  /\ {OrphanGC, VerifySIDs, Revalidate, Restarts, Quiet} \subseteq BOOLEAN
  /\ Leftovers \subseteq Dataplane
  /\ MaxGen \in Nat

VARIABLES
  policies,    (* r.policies; an absent entry is NewPolicy                 *)
  bsidOwner,   (* r.bsidOwner                                              *)
  dynUsed,     (* domain of r.dynUsed                                      *)
  orphans,     (* r.orphans                                                *)
  gen,         (* r.gen                                                    *)
  task,        (* the loop that holds the mutex, or "idle"                 *)
  todo,        (* what is left of that loop: policies or BSIDs             *)
  sub,         (* Subscribe is running                                     *)
  unsynced,    (* generations whose synced has not run and still may       *)
  reach        (* SIDs the FIB of the dataplane resolves                   *)

mem == <<policies, bsidOwner, dynUsed, orphans>>
loop == <<task, todo>>
vars == <<mem, gen, loop, sub, unsynced, reach, dp, calm>>

-----------------------------------------------------------------------------
(* The state of one policy.                                                *)

ZeroPath ==
  [origin |-> 0, originator |-> [asn |-> 0, node |-> 0], disc |-> 0,
   pref |-> 0, prio |-> 0, bsid |-> NoAddr, sls |-> {},
   sOnly |-> FALSE, drop |-> FALSE]

Candidate == [path : CandidatePath, gen : Nat]

PolicyState ==
  [cps : SUBSET Candidate,      (* one per discriminator                   *)
   installed : CandidatePath,   (* activeKey is its key                    *)
   hasActive : BOOLEAN,
   dynBSID : BSID \cup {NoAddr},
   dropped : BOOLEAN]

NewPolicy ==
  [cps |-> {}, installed |-> ZeroPath, hasActive |-> FALSE,
   dynBSID |-> NoAddr, dropped |-> FALSE]

Present == {k \in Key : policies[k] # NewPolicy}

(* The smallest priority among the candidate paths.                        *)
PolicyPriority(ps) ==
  IF ps.cps = {} THEN ps.installed.prio
  ELSE CHOOSE p \in {c.path.prio : c \in ps.cps} :
         \A c \in ps.cps : p =< c.path.prio

-----------------------------------------------------------------------------
(* A handler works on a record of what it reads and writes for one policy. *)

View(ps) ==
  [ps |-> ps, owner |-> bsidOwner, dyn |-> dynUsed, orph |-> orphans, dp |-> dp]

Commit(k, s) ==
  /\ policies' = [policies EXCEPT ![k] = s.ps]
  /\ bsidOwner' = s.owner
  /\ dynUsed' = s.dyn
  /\ orphans' = s.orph
  /\ dp' = s.dp

(* installDrop: a failure leaves the policy removed, open to the default.  *)
Engage(k, s) ==
  {[s EXCEPT !.dp = o.dp, !.ps.dropped = @ \/ o.ok] : o \in InstallDrop(s.dp, k)}

(* removeDrop, where a drop route is thought to be in place.               *)
Release(k, s) ==
  IF ~s.ps.dropped THEN {s}
  ELSE {[s EXCEPT !.dp = o.dp, !.ps.dropped = ~o.ok] : o \in RemoveDrop(s.dp, k)}

DisownNothing(s) == s    (* mutant of Disown: the owner is kept            *)
Disown(s) == [s EXCEPT !.owner[s.ps.installed.bsid] = NoKey]

(* Mutant of Claim: the orphan is not claimed.                             *)
ClaimOrphaned(k, s, cp) ==
  [s EXCEPT !.owner[cp.bsid] = k, !.ps.installed = cp, !.ps.hasActive = TRUE]

(* The end of reconcile: cp is the active path now.                        *)
Claim(k, s, cp) ==
  [s EXCEPT !.owner[cp.bsid] = k, !.orph = @ \ {cp.bsid},
            !.ps.installed = cp, !.ps.hasActive = TRUE]

(* Mutants of TakeDown: the I-Flag is ignored; the dynamic BSID is given   *)
(* back with the policy down.                                              *)
TakeDownOpen(k, s) ==
  {LET t == [s EXCEPT !.dp = o.dp]
   IN  IF o.ok THEN [Disown(t) EXCEPT !.ps.hasActive = FALSE] ELSE t
   : o \in Remove(s.dp, k, s.ps.installed)}

TakeDownUnbinding(k, s) ==
  {[t EXCEPT !.dyn = @ \ {t.ps.dynBSID}, !.ps.dynBSID = NoAddr]
   : t \in TakeDownOpen(k, s)}

TakeDown(k, s) ==
  UNION {LET t == [s EXCEPT !.dp = o.dp]
             down == [Disown(t) EXCEPT !.ps.hasActive = FALSE]
         IN  IF ~o.ok THEN {t}
             ELSE IF s.ps.installed.drop THEN Engage(k, down) ELSE {down}
         : o \in Remove(s.dp, k, s.ps.installed)}

Switch(k, s, cp) ==
  {LET t == [s EXCEPT !.dp = o.dp]
   IN  IF o.ok THEN Claim(k, Disown(t), cp) ELSE t
   : o \in Replace(s.dp, k, s.ps.installed, cp)}

(* Mutant of BringUp: the drop route is not taken away first.              *)
BringUpDropped(k, s, cp) ==
  {LET u == [s EXCEPT !.dp = o.dp]
   IN  IF o.ok THEN Claim(k, u, cp) ELSE u
   : o \in Add(s.dp, k, cp)}

BringUp(k, s, cp) ==
  UNION {IF t.ps.dropped THEN {t}
         ELSE {LET u == [t EXCEPT !.dp = o.dp]
               IN  IF o.ok THEN Claim(k, u, cp) ELSE u
               : o \in Add(t.dp, k, cp)}
         : t \in Release(k, s)}

-----------------------------------------------------------------------------
(* The candidate paths reconcile chooses from.                             *)

NeedsBSID(cp) == ~HasBSID(cp) /\ ~cp.sOnly

Free(s) == {b \in Pool : s.owner[b] = NoKey /\ b \notin s.dyn \cup s.orph}

(* ensureDynBSID, once a candidate path needs it.                          *)
Bound(s) ==
  IF s.ps.dynBSID # NoAddr \/ \A c \in s.ps.cps : ~NeedsBSID(c.path)
  THEN {s}
  ELSE {[s EXCEPT !.ps.dynBSID = b, !.dyn = @ \cup {b}] : b \in Free(s)}
         \cup (IF Free(s) = {} THEN {s} ELSE {})

(* What the SID lookups of one reconcile answer; a failed one counts as    *)
(* reachable.                                                              *)
Lookups ==
  IF ~VerifySIDs THEN {SID}
  ELSE IF Faulty THEN {R \in SUBSET SID : reach \subseteq R} ELSE {reach}

(* verifySegmentLists looks up the first SID and those with a V-Flag.      *)
Verified(cp, seen) ==
  IF ~VerifySIDs THEN cp
  ELSE [cp EXCEPT !.sls =
         {[sl EXCEPT !.unresolvable = @ \/
             \E j \in DOMAIN sl.sids :
               (j = 1 \/ j \in sl.verify) /\ sl.sids[j] \notin seen]
           : sl \in cp.sls}]

BoundPath(cp, dyn) ==
  IF NeedsBSID(cp) THEN [cp EXCEPT !.bsid = dyn] ELSE cp

(* Without a BSID of its own or from the pool, or with one another policy  *)
(* owns, a path is left out.                                               *)
Candidates(k, s, seen) ==
  {cp \in {BoundPath(Verified(c.path, seen), s.ps.dynBSID) : c \in s.ps.cps} :
     /\ ~NeedsBSID(cp)
     /\ HasBSID(cp) => s.owner[cp.bsid] \in {NoKey, k}}

Best(k, s, seen) ==
  SelectActive(Candidates(k, s, seen), CPKey(s.ps.installed), s.ps.hasActive)

SameInstall(a, b) ==
  CPKey(a) = CPKey(b) /\ a.bsid = b.bsid /\ a.sls = b.sls

(* Bring the dataplane to the best path, if there is one.                  *)
Pursue(k, s, best) ==
  UNION {IF ~s.ps.hasActive THEN BringUp(k, s, cp)
         ELSE IF SameInstall(s.ps.installed, cp) THEN {s}
         ELSE Switch(k, s, cp)
         : cp \in best}

(* Mutant of Decide: a policy that stays down is released from its drop.   *)
DecideReleasing(k, s, best) ==
  IF best # {} THEN Pursue(k, s, best)
  ELSE IF s.ps.hasActive THEN TakeDown(k, s) ELSE Release(k, s)

Decide(k, s, best) ==
  IF best # {} THEN Pursue(k, s, best)
  ELSE IF s.ps.hasActive THEN TakeDown(k, s) ELSE {s}

Reconcile(k, s0) ==
  UNION {Decide(k, s, Best(k, s, seen)) : s \in Bound(s0), seen \in Lookups}

(* Mutant of CleanupIfGone: the dynamic BSID is not given back.            *)
CleanupLeaking(k, s) ==
  IF s.ps.cps # {} \/ s.ps.hasActive THEN {s}
  ELSE {IF t.ps.dropped THEN t ELSE [t EXCEPT !.ps = NewPolicy]
        : t \in Release(k, s)}

CleanupIfGone(k, s) ==
  IF s.ps.cps # {} \/ s.ps.hasActive THEN {s}
  ELSE {IF t.ps.dropped THEN t
        ELSE [t EXCEPT !.dyn = @ \ {t.ps.dynBSID}, !.ps = NewPolicy]
        : t \in Release(k, s)}

(* What every handler does with a policy whose paths it has changed.       *)
Settle(k, ps) ==
  \E s \in Reconcile(k, View(ps)) : \E t \in CleanupIfGone(k, s) : Commit(k, t)

-----------------------------------------------------------------------------
Init ==
  /\ policies = [k \in Key |-> NewPolicy]
  /\ bsidOwner = [b \in BSID |-> NoKey]
  /\ dynUsed = {}
  /\ orphans = {}
  /\ gen = 0
  /\ task = "idle"
  /\ todo = {}
  /\ sub = FALSE
  /\ unsynced = {}
  /\ reach \in IF VerifySIDs THEN SUBSET SID ELSE {SID}
  /\ dp \in Leftovers
  /\ calm = FALSE

(* Mutant of Run: the orphans are not looked for.                          *)
RunBlind ==
  /\ ~sub
  /\ task = "idle"
  /\ gen < MaxGen
  /\ gen' = gen + 1
  /\ sub' = TRUE
  /\ unsynced' = unsynced \cup {gen + 1}
  /\ UNCHANGED <<mem, loop, reach, dp, calm>>

(* Run: a new generation; what the dataplane holds and no policy owns is   *)
(* an orphan, unless the dump fails and the old set stays.                 *)
Run ==
  /\ ~sub
  /\ task = "idle"
  /\ gen < MaxGen
  /\ gen' = gen + 1
  /\ sub' = TRUE
  /\ unsynced' = unsynced \cup {gen + 1}
  /\ \/ orphans' = {b \in InstalledBSIDs(dp) : bsidOwner[b] = NoKey}
     \/ Faulty /\ UNCHANGED orphans
  /\ UNCHANGED <<policies, bsidOwner, dynUsed, loop, reach, dp, calm>>

(* apply, for an announcement and for a withdrawal.                        *)
Announce(k, cp) ==
  /\ sub
  /\ task = "idle"
  /\ LET ps == policies[k]
         others == {c \in ps.cps : c.path.disc # cp.disc}
     IN  Settle(k, [ps EXCEPT !.cps = others \cup {[path |-> cp, gen |-> gen]}])
  /\ UNCHANGED <<gen, loop, sub, unsynced, reach, calm>>

Withdraw(k, disc) ==
  /\ sub
  /\ task = "idle"
  /\ Settle(k, [policies[k] EXCEPT !.cps = {c \in @ : c.path.disc # disc}])
  /\ UNCHANGED <<gen, loop, sub, unsynced, reach, calm>>

-----------------------------------------------------------------------------
(* synced: sweep the paths of earlier generations, collect the orphans,    *)
(* revalidate.  The timer of Subscribe calls it from its own goroutine, so *)
(* the synced of a subscription that has ended may still come.             *)

Enter(t, S) == task' = t /\ todo' = S

SyncedStart(g) ==
  /\ task = "idle"
  /\ unsynced' = unsynced \ {g}
  /\ Enter("sweep", Present)
  /\ UNCHANGED <<mem, gen, sub, reach, dp, calm>>

(* Mutant of Sweep: the generation before is taken for fresh too.          *)
SweepOlder(k) ==
  /\ task = "sweep"
  /\ todo' = todo \ {k}
  /\ Settle(k, [policies[k] EXCEPT !.cps = {c \in @ : c.gen + 1 >= gen}])
  /\ UNCHANGED <<gen, task, sub, unsynced, reach, calm>>

Sweep(k) ==
  /\ task = "sweep"
  /\ todo' = todo \ {k}
  /\ LET ps == policies[k]
         fresh == {c \in ps.cps : c.gen >= gen}
     IN  IF fresh = ps.cps THEN UNCHANGED <<mem, dp>>
         ELSE Settle(k, [ps EXCEPT !.cps = fresh])
  /\ UNCHANGED <<gen, task, sub, unsynced, reach, calm>>

(* Mutant of SweepDone: the collection walks over the policies.            *)
SweepDonePolicies ==
  /\ task = "sweep"
  /\ todo = {}
  /\ Enter("gc", Present)
  /\ UNCHANGED <<mem, gen, sub, unsynced, reach, dp, calm>>

SweepDone ==
  /\ task = "sweep"
  /\ todo = {}
  /\ IF OrphanGC
     THEN Enter("gc", orphans) /\ UNCHANGED orphans
     ELSE Enter("revalidate", Present) /\ orphans' = {}
  /\ UNCHANGED <<policies, bsidOwner, dynUsed, gen, sub, unsynced, reach, dp, calm>>

(* A refused removal leaves the orphan for the next synced.                *)
CollectOrphan(b) ==
  /\ task = "gc"
  /\ todo' = todo \ {b}
  /\ \E o \in RemoveBSID(dp, b) :
       /\ dp' = o.dp
       /\ orphans' = IF o.ok THEN orphans \ {b} ELSE orphans
  /\ UNCHANGED <<policies, bsidOwner, dynUsed, gen, task, sub, unsynced, reach, calm>>

CollectDone ==
  /\ task = "gc"
  /\ todo = {}
  /\ Enter("revalidate", Present)
  /\ UNCHANGED <<mem, gen, sub, unsynced, reach, dp, calm>>

-----------------------------------------------------------------------------
(* The revalidation, at the end of synced and at each tick of its timer.   *)

RevalidateStart ==
  /\ Revalidate
  /\ sub
  /\ task = "idle"
  /\ Enter("revalidate", Present)
  /\ UNCHANGED <<mem, gen, sub, unsynced, reach, dp, calm>>

(* Mutant of RevalidateNext: only policies that are down are looked at.    *)
RevalidateDown(k) ==
  /\ task = "revalidate"
  /\ todo' = todo \ {k}
  /\ IF policies[k].hasActive THEN UNCHANGED <<mem, dp>>
     ELSE Settle(k, policies[k])
  /\ UNCHANGED <<gen, task, sub, unsynced, reach, calm>>

RevalidateNext(k) ==
  /\ task = "revalidate"
  /\ \A j \in todo : PolicyPriority(policies[k]) =< PolicyPriority(policies[j])
  /\ todo' = todo \ {k}
  /\ Settle(k, policies[k])
  /\ UNCHANGED <<gen, task, sub, unsynced, reach, calm>>

RevalidateDone ==
  /\ task = "revalidate"
  /\ todo = {}
  /\ Enter("idle", {})
  /\ UNCHANGED <<mem, gen, sub, unsynced, reach, dp, calm>>

-----------------------------------------------------------------------------
(* The environment.                                                        *)

(* The stream breaks and Subscribe returns.  Stop does not wait for a      *)
(* timer that has fired already.                                           *)
Disconnect ==
  /\ ~calm
  /\ sub
  /\ gen < MaxGen
  /\ sub' = FALSE
  /\ unsynced' \in {unsynced, unsynced \ {gen}}
  /\ UNCHANGED <<mem, gen, loop, reach, dp, calm>>

FibChange(sid) ==
  /\ ~calm
  /\ VerifySIDs
  /\ reach' = IF sid \in reach THEN reach \ {sid} ELSE reach \cup {sid}
  /\ UNCHANGED <<mem, gen, loop, sub, unsynced, dp, calm>>

(* The daemon stops, anywhere, and starts with nothing but what the        *)
(* dataplane still holds.  A crash within a call is one after a failure.   *)
Restart ==
  /\ ~calm
  /\ Restarts
  /\ policies' = [k \in Key |-> NewPolicy]
  /\ bsidOwner' = [b \in BSID |-> NoKey]
  /\ dynUsed' = {}
  /\ orphans' = {}
  /\ gen' = 0
  /\ Enter("idle", {})
  /\ sub' = FALSE
  /\ unsynced' = {}
  /\ UNCHANGED <<reach, dp, calm>>

(* From here on nothing new is announced and nothing fails.                *)
Calm ==
  /\ Quiet
  /\ ~calm
  /\ calm' = TRUE
  /\ UNCHANGED <<mem, gen, loop, sub, unsynced, reach, dp>>

Apply ==
  /\ ~calm
  /\ \/ \E u \in Updates : Announce(u.key, u.path)
     \/ \E u \in Updates : Withdraw(u.key, u.path.disc)

Synced == \E g \in unsynced : SyncedStart(g)
SweepOne == \E k \in todo : Sweep(k)
CollectOne == \E b \in todo : CollectOrphan(b)
RevalidateOne == \E k \in todo : RevalidateNext(k)
Fib == \E sid \in SID : FibChange(sid)

Iterate ==
  SweepOne \/ SweepDone \/ CollectOne \/ CollectDone
    \/ RevalidateOne \/ RevalidateDone

Next ==
  Run \/ Apply \/ Synced \/ RevalidateStart \/ Iterate
    \/ Disconnect \/ Fib \/ Restart \/ Calm

Spec == Init /\ [][Next]_vars

(* A loop that holds the mutex goes on; the daemon subscribes again after  *)
(* its pause; a subscription's synced comes, from the first response or    *)
(* from the fallback timer; the ticker keeps ticking.                      *)
Fairness ==
  /\ WF_vars(Run)
  /\ WF_vars(Synced)
  /\ WF_vars(RevalidateStart)
  /\ WF_vars(Iterate)

FairSpec == Spec /\ Fairness
=============================================================================
