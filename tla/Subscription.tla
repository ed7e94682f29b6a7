---------------------------- MODULE Subscription ----------------------------
(***************************************************************************)
(* How the candidate paths of the reconciler follow the RIB of gobgpd:     *)
(* the stream of best-path changes, adapter/bgp.Source that reads it and   *)
(* falls back on a timer, the loop of main that subscribes again, and the  *)
(* generations by which the reconciler tells old paths from new ones.      *)
(*                                                                         *)
(* gobgpd is external: a subscription begins with one response that holds  *)
(* every best path, if there is one, and goes on with the changes in their *)
(* order, until it breaks and what is on the way is lost.                  *)
(***************************************************************************)
EXTENDS Decode

CONSTANTS
  Routes,      (* what peers may announce: paths of gobgp, see Decode      *)
  Foreign,     (* a path of another address family                         *)
  LocalID,     (* the BGP identifier of the node                           *)
  NoRoute, NoEntry,
  MaxGen,      (* bound on subscriptions                                   *)
  MaxStream    (* bound on responses on the way                            *)

ASSUME SubscriptionAssumption ==
  /\ MaxGen \in Nat
  /\ MaxStream \in Nat \ {0}
  /\ LocalID # NoNode

(* What gobgp says of a path.                                              *)
ASSUME RouteAssumption ==
  /\ IsFiniteSet(Routes)
  /\ NoRoute \notin Routes
  /\ \A p \in Routes :
       /\ DOMAIN p = {"safi", "key", "distinguisher", "asn", "peer",
                      "withdraw", "attrs"}
       /\ IsSRPolicy(p)
       /\ p.withdraw = FALSE
       /\ {p.distinguisher, p.asn, p.peer} \subseteq Nat
       /\ p.attrs \in Seq(Attribute)
  /\ ~IsSRPolicy(Foreign)

(* SR Policy routes have the distinguisher and the policy as their key.    *)
NLRI(p) == <<p.key, p.distinguisher>>
NLRIs == {NLRI(p) : p \in Routes}

Withdrawal(p) == [p EXCEPT !.withdraw = TRUE, !.attrs = <<>>]

(* What the stream may carry, and what handler is called with for it.      *)
Messages == Routes \cup {Withdrawal(p) : p \in Routes}
Decoded ==
  {[msg |-> p, id |-> id, event |-> DecodePath(p, id)]
     : p \in Messages, id \in {NoNode, LocalID}}

ASSUME EntryAssumption ==
  NoEntry \notin [path : {d.event.path : d \in Decoded}, gen : 1..MaxGen]

VARIABLES
  rib,         (* best paths at gobgpd                                     *)
  stream,      (* responses on the way                                     *)
  rest,        (* paths of the response that is being handled              *)
  at,          (* the receiving goroutine: "down", "recv" or "handle"      *)
  localID,     (* Source.localID                                           *)
  table,       (* candidate paths of the reconciler, with their generation *)
  gen,         (* Reconciler.gen                                           *)
  unsynced,    (* generations whose synced has not run and still may       *)
  dump,        (* history: what this subscription's first response held    *)
  swept,       (* history: synced has run since this subscription began    *)
  calm         (* from now on gobgpd changes nothing and no stream breaks  *)

vars == <<rib, stream, rest, at, localID, table, gen, unsynced, dump, swept, calm>>

-----------------------------------------------------------------------------
(* apply and synced, as far as the candidate paths go.                     *)

Applied(t, ev) ==
  [t EXCEPT ![<<ev.key, ev.path.disc>>] =
     IF ev.withdraw THEN NoEntry ELSE [path |-> ev.path, gen |-> gen]]

(* Mutant of SweepOld: the last generation is kept too.                    *)
SweepOlder ==
  [n \in NLRIs |-> IF table[n] # NoEntry /\ table[n].gen + 1 < gen
                   THEN NoEntry ELSE table[n]]

SweepOld ==
  [n \in NLRIs |-> IF table[n] # NoEntry /\ table[n].gen < gen
                   THEN NoEntry ELSE table[n]]

(* Mutant of Synced: it keeps the generation it was made for.              *)
SyncedCaptured(g) ==
  /\ unsynced' = unsynced \ {g}
  /\ table' = [n \in NLRIs |-> IF table[n] # NoEntry /\ table[n].gen # g
                              THEN NoEntry ELSE table[n]]
  /\ swept' = (at # "down")

(* A late synced sweeps by the generation that is current when it runs.    *)
Synced(g) ==
  /\ unsynced' = unsynced \ {g}
  /\ table' = SweepOld
  /\ swept' = (at # "down")

-----------------------------------------------------------------------------
(* Source.                                                                 *)

(* fetchLocalID, where the identifier is not known yet; it may fail.       *)
FetchLocalID == localID' \in IF localID = NoNode THEN {NoNode, LocalID} ELSE {localID}

BestPaths == {rib[n] : n \in NLRIs} \ {NoRoute}

(* Reconciler.Run, Subscribe up to its loop: timer and dump are under way. *)
Subscribe ==
  /\ at = "down"
  /\ gen < MaxGen
  /\ FetchLocalID
  /\ gen' = gen + 1
  /\ unsynced' = unsynced \cup {gen + 1}
  /\ at' = "recv"
  /\ stream' \in IF BestPaths = {} THEN {<<>>}
                 ELSE {<<d>> : d \in SetToSeqs(BestPaths)}
  /\ dump' = {NLRI(p) : p \in BestPaths}
  /\ swept' = FALSE
  /\ UNCHANGED <<rib, rest, table, calm>>

Recv ==
  /\ at = "recv"
  /\ stream # <<>>
  /\ rest' = Head(stream)
  /\ stream' = Tail(stream)
  /\ at' = "handle"
  /\ UNCHANGED <<rib, localID, table, gen, unsynced, dump, swept, calm>>

Handle ==
  /\ at = "handle"
  /\ rest # <<>>
  /\ rest' = Tail(rest)
  /\ \/ /\ IsSRPolicy(Head(rest))
        /\ \E d \in Decoded : /\ d.msg = Head(rest)
                              /\ d.id = localID
                              /\ table' = Applied(table, d.event)
     \/ ~IsSRPolicy(Head(rest)) /\ UNCHANGED table
  /\ UNCHANGED <<rib, stream, at, localID, gen, unsynced, dump, swept, calm>>

(* Mutant of Handled: the rest of a response is not waited for.            *)
HandledEarly ==
  /\ at = "handle"
  /\ at' = "recv"
  /\ IF gen \in unsynced THEN Synced(gen) ELSE UNCHANGED <<unsynced, table, swept>>
  /\ UNCHANGED <<rib, stream, rest, localID, gen, dump, calm>>

(* fireSynced after a response; sync.Once lets the first caller through.   *)
Handled ==
  /\ at = "handle"
  /\ rest = <<>>
  /\ at' = "recv"
  /\ IF gen \in unsynced THEN Synced(gen) ELSE UNCHANGED <<unsynced, table, swept>>
  /\ UNCHANGED <<rib, stream, rest, localID, gen, dump, calm>>

(* Mutant of Fallback: the timer waits for a first response.               *)
FallbackWithDump(g) ==
  /\ g \in unsynced
  /\ dump # {}
  /\ Synced(g)
  /\ UNCHANGED <<rib, stream, rest, at, localID, gen, dump, calm>>

(* The fallback timer, on a goroutine of its own.  Stop does not wait for  *)
(* it, so that of a subscription that has ended may come late.             *)
Fallback(g) ==
  /\ g \in unsynced
  /\ Synced(g)
  /\ UNCHANGED <<rib, stream, rest, at, localID, gen, dump, calm>>

(* Recv fails, Subscribe and Run return, and main waits to try again.      *)
Break ==
  /\ ~calm
  /\ at = "recv"
  /\ gen < MaxGen
  /\ at' = "down"
  /\ stream' = <<>>
  /\ unsynced' \in {unsynced, unsynced \ {gen}}
  /\ UNCHANGED <<rib, rest, localID, table, gen, dump, swept, calm>>

-----------------------------------------------------------------------------
(* gobgpd.                                                                 *)

Notify(p) ==
  IF at = "down" THEN UNCHANGED stream
  ELSE Len(stream) < MaxStream /\ stream' = Append(stream, <<p>>)

BestPathChange ==
  \/ \E p \in Routes :
       /\ rib[NLRI(p)] # p
       /\ rib' = [rib EXCEPT ![NLRI(p)] = p]
       /\ Notify(p)
  \/ \E p \in BestPaths :
       /\ rib' = [rib EXCEPT ![NLRI(p)] = NoRoute]
       /\ Notify(Withdrawal(p))
  \/ at # "down" /\ Notify(Foreign) /\ UNCHANGED rib

Gobgpd ==
  /\ ~calm
  /\ BestPathChange
  /\ UNCHANGED <<rest, at, localID, table, gen, unsynced, dump, swept, calm>>

Calm ==
  /\ ~calm
  /\ calm' = TRUE
  /\ UNCHANGED <<rib, stream, rest, at, localID, table, gen, unsynced, dump, swept>>

-----------------------------------------------------------------------------
Init ==
  /\ rib = [n \in NLRIs |-> NoRoute]
  /\ stream = <<>>
  /\ rest = <<>>
  /\ at = "down"
  /\ localID \in {NoNode, LocalID}      (* -router-id may give it          *)
  /\ table = [n \in NLRIs |-> NoEntry]
  /\ gen = 0
  /\ unsynced = {}
  /\ dump = {}
  /\ swept = FALSE
  /\ calm = FALSE

Receiver == Recv \/ Handle \/ Handled
Timer == \E g \in unsynced : Fallback(g)

Next == Subscribe \/ Receiver \/ Timer \/ Break \/ Gobgpd \/ Calm

Spec == Init /\ [][Next]_vars

(* The goroutines run, a timer that was not stopped fires, and main tries  *)
(* again after its pause.                                                  *)
Fairness == WF_vars(Receiver) /\ WF_vars(Timer) /\ WF_vars(Subscribe)

FairSpec == Spec /\ Fairness

=============================================================================
