-------------------------- MODULE SubscriptionProps --------------------------
(***************************************************************************)
(* What the candidate paths of the reconciler owe the RIB of gobgpd.       *)
(***************************************************************************)
EXTENDS Subscription

Entry == [path : CandidatePath, gen : 1..MaxGen]

(* Every variable has its type, and no entry is of a generation to come.   *)
TypeOK ==
  /\ rib \in [NLRIs -> Routes \cup {NoRoute}]
  /\ Len(stream) =< MaxStream
  /\ at \in {"down", "recv", "handle"}
  /\ at # "handle" => rest = <<>>
  /\ localID \in {NoNode, LocalID}
  /\ \A n \in NLRIs : table[n] # NoEntry =>
       table[n] \in Entry /\ table[n].gen =< gen
  /\ unsynced \subseteq 1..gen
  /\ {swept, calm} \subseteq BOOLEAN

(* RFC 4271 5: a path has an attribute at most once.                       *)
OneOfAKind ==
  \A p \in Routes : \A i, j \in DOMAIN p.attrs :
    p.attrs[i].tag = p.attrs[j].tag => i = j

(* RFC 9830 4.2: a route target names this node, or there is no route      *)
(* target at all and NO_ADVERTISE.                                         *)
Eligible(p, id) ==
  LET Of(tag) == {a \in ToSet(p.attrs) : a.tag = tag}
      Targets == (UNION {{ec.node : ec \in {x \in ToSet(a.value) : x.sub = "RouteTarget"}}
                         : a \in Of("extComms")}) \ {NoNode}
      Marks == UNION {a.value : a \in Of("communities")}
  IN  IF Targets = {} THEN "NO_ADVERTISE" \in Marks ELSE id \in Targets

(* The candidate path a node of this identifier makes of it.               *)
Meaning(p, id) ==
  IF p = NoRoute \/ p.withdraw \/ ~Eligible(p, id) THEN NoEntry
  ELSE (CHOOSE d \in Decoded : d.msg = p /\ d.id = id).event.path

PathOf(entry) == IF entry = NoEntry THEN NoEntry ELSE entry.path

(* What is on the way: response 0 is the one that is being handled.        *)
Response(j) == IF j = 0 THEN rest ELSE stream[j]
Ahead == UNION {{j} \X DOMAIN Response(j) : j \in 0..Len(stream)}
PathAt(w) == Response(w[1])[w[2]]
NotAfter(v, w) == v[1] < w[1] \/ (v[1] = w[1] /\ v[2] =< w[2])

On(n) == {w \in Ahead : IsSRPolicy(PathAt(w)) /\ NLRI(PathAt(w)) = n}

(* The candidate path of n once all that is on the way has been handled.   *)
Replayed(n) ==
  IF On(n) = {} THEN PathOf(table[n])
  ELSE Meaning(PathAt(CHOOSE w \in On(n) : \A v \in On(n) : NotAfter(v, w)),
               localID)

(* Nothing is lost between gobgpd and the reconciler, and nothing that     *)
(* gobgpd has forgotten lives on: when a subscription is up and synced has *)
(* run in it, the candidate paths and the responses on the way make up     *)
(* exactly the usable routes of the RIB.  A route that becomes unusable    *)
(* takes its earlier version with it.                                      *)
Mirror ==
  at # "down" /\ swept => \A n \in NLRIs : Replayed(n) = Meaning(rib[n], localID)

(* Only "a path that did not appear in the initial dump" is swept: a path  *)
(* of the dump that has been handled is left alone by every sweep, be it   *)
(* the late one of an earlier subscription.  (Before that the fallback may *)
(* sweep what the dump is about to confirm.)                               *)
KeptIfDumped ==
  [][at = "recv" /\ UNCHANGED <<stream, gen>> =>
       \A n \in dump : On(n) = {} => table'[n] = table[n]]_vars

(* When gobgpd changes nothing more and stays up, the candidate paths are  *)
(* in the end the usable routes of the RIB and stay so.                    *)
Converges ==
  calm ~> [](\A n \in NLRIs : PathOf(table[n]) = Meaning(rib[n], localID))

=============================================================================
