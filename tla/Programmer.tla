----------------------------- MODULE Programmer -----------------------------
(***************************************************************************)
(* adapter/vpp.Programmer, request by request: a call of the ports is a    *)
(* run of requests to VPP, each of which may be refused, may not reach     *)
(* VPP, or may be carried out although its reply is lost.  The daemon may  *)
(* crash between two requests.  Module ProgrammerPort is the abstraction   *)
(* the reconciler is checked against, which takes a call as one step.      *)
(*                                                                         *)
(* The policies, steering entries and routes of VPP are external: they do  *)
(* what programmer.go expects of them.  v1 and v2 messages carry the same  *)
(* segment lists and are not told apart.                                   *)
(***************************************************************************)
EXTENDS SRPolicy, FiniteSets, SequencesExt

CONSTANTS
  Key, Endpoint, EndpointOf, Steerable, Refusals, Unacked,  (* as the port *)
  Paths        (* candidate paths: [bsid, sls], sls a sequence             *)

(* A segment list with the index VPP gave it is a pair of a function.      *)
SIDList == [weight : Nat, sids : Seq(SID \cup OtherAddr)]
Rendering(sl) == [weight |-> sl.weight, sids |-> sl.sids]

(* CandidatePath.ValidSegmentLists, in order.                              *)
KeepValid(out, sl) == IF ListValid(sl) THEN Append(out, sl) ELSE out

Want(p) == FoldLeft(KeepValid, <<>>, p.sls)

(* The reconciler passes on valid paths with a BSID only, which have a     *)
(* valid list.                                                             *)
ASSUME ProgrammerAssumption ==
  /\ Key # {}
  /\ EndpointOf \in [Key -> Endpoint]
  /\ Steerable \subseteq Key
  /\ {Refusals, Unacked} \subseteq BOOLEAN
  /\ Paths \subseteq [bsid : BSID, sls : Seq(SegmentList)]
  /\ \A p \in Paths : \E i \in DOMAIN p.sls : ListValid(p.sls[i])

VARIABLES
  vpp,         (* the dataplane                                            *)
  pc,          (* the request of the call that is sent next, or "idle"     *)
  call,        (* the call that runs                                       *)
  adds,        (* positions of Want(call.path) that are still to be added  *)
  stale,       (* indexes of the lists that are still to be deleted        *)
  programmed,  (* BSID each policy was last brought up with                *)
  nil,         (* the last call returned no error                          *)
  before,      (* history: the dataplane as the call that runs found it    *)
  trouble      (* history: what went wrong during the last call           *)

vars == <<vpp, pc, call, adds, stale, programmed, nil, before, trouble>>

NoPath == [bsid |-> NoAddr, sls |-> <<>>]
NoCall == [op |-> "none"]

(* old is the BSID of prev or the one to remove, path what to program.     *)
Call ==
  [op : {"Add"}, key : Key, old : {NoAddr}, path : Paths]
    \cup [op : {"Replace"}, key : Key, old : BSID, path : Paths]
    \cup [op : {"Remove", "RemoveBSID"}, key : Key, old : BSID, path : {NoPath}]
    \cup [op : {"InstallDrop", "RemoveDrop"}, key : Key, old : {NoAddr},
          path : {NoPath}]

-----------------------------------------------------------------------------
(* VPP.                                                                    *)

NoLists == [i \in {} |-> 0]

VPP ==
  [policies : [BSID -> UNION {[I -> SIDList] : I \in SUBSET Nat}],
   steering : [Endpoint -> BSID \cup {NoAddr}],
   drops    : SUBSET Endpoint]

EmptyVPP ==
  [policies |-> [b \in BSID |-> NoLists],
   steering |-> [e \in Endpoint |-> NoAddr],
   drops    |-> {}]

Has(v, b) == DOMAIN v.policies[b] # {}

(* A list that is added gets an index no list of the policy has.           *)
WithList(v, b, l) ==
  LET P == v.policies[b]
      i == CHOOSE n \in 0..Cardinality(DOMAIN P) : n \notin DOMAIN P
  IN  [v EXCEPT !.policies[b] =
         [j \in DOMAIN P \cup {i} |-> IF j = i THEN l ELSE P[j]]]

WithoutList(v, b, i) ==
  [v EXCEPT !.policies[b] = [j \in DOMAIN @ \ {i} |-> @[j]]]

WithoutPolicy(v, b) == [v EXCEPT !.policies[b] = NoLists]
Steered(v, e, b) == [v EXCEPT !.steering[e] = b]

(* What a request with that effect may come to.  A reply is a return value *)
(* (ok, refused) or the error of a channel that has no reply to give.      *)
Ask(effect) ==
  {[vpp |-> effect, reply |-> "ok", harm |-> "none"]}
    \cup (IF Refusals THEN {[vpp |-> vpp, reply |-> "refused", harm |-> "one"],
                            [vpp |-> vpp, reply |-> "error", harm |-> "one"]}
          ELSE {})
    \cup (IF Refusals /\ Unacked
          THEN {[vpp |-> effect, reply |-> "error", harm |-> "more"]} ELSE {})

Worse(harm) ==
  IF harm = "none" THEN trouble ELSE IF trouble = "none" THEN harm ELSE "more"

Sent(a) == vpp' = a.vpp /\ trouble' = Worse(a.harm)

-----------------------------------------------------------------------------
(* Calls.                                                                  *)

target == call.path.bsid
endpoint == EndpointOf[call.key]

(* The call is over.                                                       *)
Over(ok) ==
  /\ pc' = "idle"
  /\ call' = NoCall
  /\ adds' = {}
  /\ stale' = {}
  /\ nil' = ok
  /\ before' = EmptyVPP

Return(ok) ==
  /\ Over(ok)
  /\ programmed' =
       IF ~ok THEN programmed
       ELSE IF call.op \in {"Add", "Replace"} THEN [programmed EXCEPT ![call.key] = target]
       ELSE IF call.op = "Remove" THEN [programmed EXCEPT ![call.key] = NoAddr]
       ELSE programmed

Goto(l) == pc' = l /\ UNCHANGED <<call, programmed, nil, before>>

Then(l) == IF l = "return" THEN Return(TRUE)
           ELSE Goto(l) /\ UNCHANGED <<adds, stale>>

(* The first request of a call.                                            *)
Entry(c) ==
  CASE c.op = "Add" -> "policyAdd"
    [] c.op = "Replace" -> IF c.old = c.path.bsid THEN "dump" ELSE "policyAdd"
    [] c.op = "Remove" -> IF c.key \in Steerable THEN "unsteer" ELSE "delete"
    [] c.op = "RemoveBSID" -> "delete"
    [] c.op = "InstallDrop" -> IF c.key \in Steerable THEN "unsteer" ELSE "refuse"
    [] c.op = "RemoveDrop" -> "undrop"

Begin(c) ==
  /\ pc = "idle"
  /\ call' = c
  /\ pc' = Entry(c)
  /\ before' = vpp
  /\ trouble' = "none"
  /\ UNCHANGED <<vpp, adds, stale, programmed, nil>>

(* The calls the reconciler makes: it adds a policy that is down, replaces *)
(* or removes one that is up, collects a BSID no policy is up with.        *)
Begins ==
  LET Bound == {programmed[k] : k \in Key}
      Down == {k \in Key : programmed[k] = NoAddr}
      Ups == Key \ Down
      New(o, k, x, p) == [op |-> o, key |-> k, old |-> x, path |-> p]
  IN  \/ \E k \in Down, p \in Paths :
           p.bsid \notin Bound /\ Begin(New("Add", k, NoAddr, p))
      \/ \E k \in Ups, p \in Paths :
           /\ p.bsid \notin Bound \ {programmed[k]}
           /\ Begin(New("Replace", k, programmed[k], p))
      \/ \E k \in Ups : Begin(New("Remove", k, programmed[k], NoPath))
      \/ \E x \in BSID \ Bound :
           Begin(New("RemoveBSID", CHOOSE k \in Key : TRUE, x, NoPath))
      \/ \E k \in Down, o \in {"InstallDrop", "RemoveDrop"} :
           Begin(New(o, k, NoAddr, NoPath))

-----------------------------------------------------------------------------
(* installPolicy.                                                          *)

InPlace == call.op = "Replace" /\ call.old = target

AfterSteering == IF call.op = "Replace" THEN "supersede" ELSE "return"

(* Mutant of AfterInstall: the superseded policy goes first.               *)
AfterInstallEager ==
  IF InPlace THEN "return"
  ELSE IF call.op = "Add" /\ call.key \in Steerable THEN "steer" ELSE AfterSteering

(* updateInPlace ends here; steerTo skips an endpoint that is not steered. *)
AfterInstall ==
  IF InPlace THEN "return"
  ELSE IF call.key \in Steerable THEN "steer" ELSE AfterSteering

(* Mutant of RestOfLists: one position too many.                           *)
RestOfListsAndOne == 2..(Len(Want(call.path)) + 1)
RestOfLists == 2..Len(Want(call.path))

(* policyAdd with the first list, then the others one by one.              *)
PolicyAdd ==
  /\ pc \in {"policyAdd", "policyAddAgain"}
  /\ IF Has(vpp, target)
     THEN /\ UNCHANGED vpp
          /\ \/ UNCHANGED trouble /\ pc = "policyAdd" /\ Then("replaceExisting")
             \/ Refusals /\ trouble' = Worse("one") /\ Return(FALSE)
     ELSE \E a \in Ask(WithList(vpp, target, Rendering(Want(call.path)[1]))) :
            /\ Sent(a)
            /\ IF a.reply # "ok" THEN Return(FALSE)
               ELSE IF RestOfLists = {} THEN Then(AfterInstall)
               ELSE Goto("install") /\ adds' = RestOfLists /\ UNCHANGED stale

(* The BSID is taken (-12): delete what is there and add once more.        *)
ReplaceExisting ==
  /\ pc = "replaceExisting"
  /\ \E a \in Ask(WithoutPolicy(vpp, target)) :
       /\ Sent(a)
       /\ IF a.reply = "ok" THEN Then("policyAddAgain") ELSE Return(FALSE)

FirstOf(S) == CHOOSE i \in S : \A j \in S : i =< j

AddNext == Ask(WithList(vpp, target, Rendering(Want(call.path)[FirstOf(adds)])))
Added == adds' = adds \ {FirstOf(adds)} /\ UNCHANGED stale

(* Mutant of InstallRest: no rollback.                                     *)
InstallRestLeaving ==
  /\ pc = "install"
  /\ \E a \in AddNext :
       /\ Sent(a)
       /\ IF a.reply # "ok" THEN Return(FALSE)
          ELSE IF adds = {FirstOf(adds)} THEN Then(AfterInstall)
          ELSE Goto("install") /\ Added

InstallRest ==
  /\ pc = "install"
  /\ \E a \in AddNext :
       /\ Sent(a)
       /\ IF a.reply # "ok" THEN Then("rollback")
          ELSE IF adds = {FirstOf(adds)} THEN Then(AfterInstall)
          ELSE Goto("install") /\ Added

Rollback ==
  /\ pc = "rollback"
  /\ \E a \in Ask(WithoutPolicy(vpp, target)) : Sent(a) /\ Return(FALSE)

-----------------------------------------------------------------------------
(* updateInPlace.  Lists that are there and wanted, counted with their     *)
(* multiplicity, are left alone: the n-th list of a kind is matched when   *)
(* the other side has n of that kind.                                      *)

Count(f, l) == Cardinality({j \in DOMAIN f : f[j] = l})
Rank(f, i) == Cardinality({j \in DOMAIN f : j =< i /\ f[j] = f[i]})

Unmatched(f, g) == {i \in DOMAIN f : Rank(f, i) > Count(g, f[i])}

Wanted(p) == [i \in DOMAIN Want(p) |-> Rendering(Want(p)[i])]

(* Mutants of Stale and Missing: a match is not taken off the list; a kind *)
(* that is there counts as matched however often it is wanted.             *)
StaleAll(P) == DOMAIN P
MissingKinds(P) ==
  {i \in DOMAIN Wanted(call.path) : Count(P, Wanted(call.path)[i]) = 0}

Stale(P) == Unmatched(P, Wanted(call.path))
Missing(P) == Unmatched(Wanted(call.path), P)

(* dumpSegmentLists; a policy that is not there is installed anew.         *)
Dump ==
  /\ pc = "dump"
  /\ \E a \in Ask(vpp) :
       /\ Sent(a)
       /\ LET P == vpp.policies[target]
              plan == adds' = Missing(P) /\ stale' = Stale(P)
          IN  IF a.reply # "ok" THEN Return(FALSE)
              ELSE IF ~Has(vpp, target) THEN Then("policyAdd")
              ELSE IF Missing(P) # {} THEN Goto("update") /\ plan
              ELSE IF Stale(P) # {} THEN Goto("prune") /\ plan
              ELSE Return(TRUE)

UpdateAdd ==
  /\ pc = "update"
  /\ \E a \in AddNext :
       /\ Sent(a)
       /\ IF a.reply # "ok" THEN Return(FALSE)
          ELSE IF adds # {FirstOf(adds)} THEN Goto("update") /\ Added
          ELSE IF stale # {} THEN Goto("prune") /\ Added
          ELSE Return(TRUE)

UpdateDel ==
  /\ pc = "prune"
  /\ LET i == FirstOf(stale) IN
     \E a \in Ask(WithoutList(vpp, target, i)) :
       /\ Sent(a)
       /\ IF a.reply # "ok" THEN Return(FALSE)
          ELSE IF stale # {i} THEN /\ Goto("prune")
                                   /\ stale' = stale \ {i}
                                   /\ UNCHANGED adds
          ELSE Return(TRUE)

-----------------------------------------------------------------------------
(* steerTo and steerDel.                                                   *)

(* VPP may refuse to overwrite an entry, and that is no fault.             *)
Steer ==
  /\ pc = "steer"
  /\ \/ \E a \in Ask(Steered(vpp, endpoint, target)) :
          /\ Sent(a)
          /\ CASE a.reply = "ok" -> Then(AfterSteering)
               [] a.reply = "refused" -> Then("resteerDel")
               [] a.reply = "error" -> Return(FALSE)
     \/ /\ vpp.steering[endpoint] # NoAddr
        /\ UNCHANGED <<vpp, trouble>>
        /\ Then("resteerDel")

ResteerDel ==
  /\ pc = "resteerDel"
  /\ \E a \in Ask(Steered(vpp, endpoint, NoAddr)) :
       Sent(a) /\ IF a.reply = "ok" THEN Then("resteer") ELSE Return(FALSE)

(* Mutant of Resteer: the second answer is not looked at.                  *)
ResteerBlind ==
  /\ pc = "resteer"
  /\ \E a \in Ask(Steered(vpp, endpoint, target)) :
       Sent(a) /\ IF a.reply # "error" THEN Then(AfterSteering) ELSE Return(FALSE)

Resteer ==
  /\ pc = "resteer"
  /\ \E a \in Ask(Steered(vpp, endpoint, target)) :
       Sent(a) /\ IF a.reply = "ok" THEN Then(AfterSteering) ELSE Return(FALSE)

(* The end of Replace: a failure is logged and the old policy stays.       *)
Supersede ==
  /\ pc = "supersede"
  /\ \E a \in Ask(WithoutPolicy(vpp, call.old)) : Sent(a) /\ Return(TRUE)

(* Remove and InstallDrop begin with a steerDel whose failure is logged.   *)
Unsteer ==
  /\ pc = "unsteer"
  /\ \E a \in Ask(Steered(vpp, endpoint, NoAddr)) :
       Sent(a) /\ Then(IF call.op = "Remove" THEN "delete" ELSE "drop")

(* deletePolicy; "not found" is a success.                                 *)
Delete ==
  /\ pc = "delete"
  /\ \E a \in Ask(WithoutPolicy(vpp, call.old)) :
       Sent(a) /\ Return(a.reply = "ok")

(* InstallDrop has no steering to replace.                                 *)
Refuse ==
  /\ pc = "refuse"
  /\ Return(FALSE)
  /\ UNCHANGED <<vpp, trouble>>

(* dropRoute.                                                              *)
Drop ==
  /\ pc = "drop"
  /\ \E a \in Ask([vpp EXCEPT !.drops = @ \cup {endpoint}]) :
       Sent(a) /\ Return(a.reply = "ok")

(* Any return value is taken for success.                                  *)
Undrop ==
  /\ pc = "undrop"
  /\ \E a \in Ask([vpp EXCEPT !.drops = @ \ {endpoint}]) :
       Sent(a) /\ Return(a.reply # "error")

-----------------------------------------------------------------------------
(* The daemon dies between two requests and starts with nothing in memory. *)
Crash ==
  /\ pc # "idle"
  /\ Refusals
  /\ Over(FALSE)
  /\ trouble' = "more"
  /\ programmed' = [k \in Key |-> NoAddr]
  /\ UNCHANGED vpp

Init ==
  /\ vpp = EmptyVPP
  /\ pc = "idle"
  /\ call = NoCall
  /\ adds = {}
  /\ stale = {}
  /\ programmed = [k \in Key |-> NoAddr]
  /\ nil = TRUE
  /\ before = EmptyVPP
  /\ trouble = "none"

Install == PolicyAdd \/ ReplaceExisting \/ InstallRest \/ Rollback
Update == Dump \/ UpdateAdd \/ UpdateDel
Steering == Steer \/ ResteerDel \/ Resteer \/ Supersede \/ Unsteer
Routes == Delete \/ Refuse \/ Drop \/ Undrop

Next == Begins \/ Install \/ Update \/ Steering \/ Routes \/ Crash

Spec == Init /\ [][Next]_vars

=============================================================================
