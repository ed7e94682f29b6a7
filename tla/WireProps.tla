------------------------------ MODULE WireProps ------------------------------
(***************************************************************************)
(* What the bindings and the requests owe the modules that take a message  *)
(* for its content.                                                        *)
(***************************************************************************)
EXTENDS Requests, USIDProps

CONSTANTS
  TriedOptions,    (* Options of the programmer                            *)
  TriedEndpoints   (* endpoints of policies                                *)

VARIABLE
  tried            (* the message or the endpoint that is tried            *)

Messages == SRMessages @@ IPMessages

(* Values of a type: the zero value, the extremes of its range, one that   *)
(* differs from field to field, and one too large for its place.  TLC's    *)
(* integers have 32 bits, so an eight-byte field keeps to its lower half.  *)
Samples == {"zero", "low", "high", "mixed", "over"}

Span(w) == Radix ^ (IF w > 4 THEN 5 ELSE w)

RECURSIVE Sample(_, _, _)
Sample(T, s, k) ==
  LET Items(n) == Joined(n, LAMBDA i : <<Sample(T.of, s, k + i)>>)
      Texts ==
        [zero |-> 0, low |-> 1, high |-> T.length, mixed |-> T.length - 1,
         over |-> T.length + 1]
      Lengths == [zero |-> 0, low |-> 1, high |-> 3, mixed |-> 2,
                  over |-> Radix + 1]
      Ends(lo, hi) == [zero |-> 0, low |-> lo, high |-> hi,
                       mixed |-> (7 * k + 3) % Radix, over |-> hi]
  IN  CASE T.kind = "count" -> 0
        [] T.kind = "uint" -> Ends(1, Span(T.width) - 1)[s]
        [] T.kind = "int" ->
             Ends(-(Span(T.width) \div 2), Span(T.width) \div 2 - 1)[s]
        [] T.kind = "bool" ->
             s \in {"high", "over"} \/ (s = "mixed" /\ k % 2 = 0)
        [] T.kind = "string" ->
             [i \in 1..Texts[s] |->
                IF s = "mixed" /\ i = 3 THEN 0
                ELSE 1 + ((k + i) % (Radix - 1))]
        [] T.kind \in {"bytes", "slice"} ->
             [i \in 1..Texts[s] |-> (k + i) % Radix]
        [] T.kind = "array" -> Items(T.length)
        [] T.kind = "vector" -> Items(Lengths[s])
        [] T.kind = "struct" ->
             [n \in Names(T) |->
                LET i == CHOOSE i \in DOMAIN T.fields : Name(T.fields[i]) = n
                IN  Sample(Type(T.fields[i]), s, k + i)]

Nothing == [what |-> "nothing"]
NoWire == tried = Nothing

(* Something is tried, and then something else.                            *)
TryWire ==
  \/ /\ NoWire
     /\ \/ \E n \in DOMAIN Messages, s \in Samples :
             tried' = [what |-> "message", name |-> n, sample |-> s]
        \/ \E a \in TriedEndpoints : tried' = [what |-> "endpoint", addr |-> a]
  \/ ~NoWire /\ tried' = Nothing

-----------------------------------------------------------------------------
(* What a message may lose: the end of a text or of a slice that is too    *)
(* long for its place, and the elements a wrapped count leaves out.        *)
RECURSIVE Cut(_, _)
Cut(T, v) ==
  CASE T.kind = "string" -> UpToZero(Fitted(T.length, v))
    [] T.kind \in {"bytes", "slice"} -> Fitted(T.length, v)
    [] T.kind \in {"array", "vector"} -> [i \in DOMAIN v |-> Cut(T.of, v[i])]
    [] T.kind = "struct" ->
         [n \in DOMAIN v |->
            LET U == TypeOf(T, n)
                Counted(c) == Len(v[c.vec]) % Span(c.width)
            IN  CASE U.kind = "count" -> Counted(U)
                  [] U.kind = "vector" ->
                       SubSeq(Cut(U, v[n]), 1, Counted(TypeOf(T, U.count)))
                  [] OTHER -> Cut(U, v[n])]
    [] OTHER -> v

(* A message of sr or ip comes back as it was sent, also with the extreme  *)
(* and the negative values, though nobody filled in the count of its       *)
(* elements; the buffer Size asks for is filled to its last byte and never *)
(* overrun.  Only what does not fit its place is lost.                     *)
MessagesComeBack ==
  tried.what = "message" =>
    LET T == Struct(Messages[tried.name])
        m == Sample(T, tried.sample, 0)
        b == Marshal(T, m)
    IN  /\ Size(T, m) = Len(b)
        /\ Unmarshal(T, b, <<>>) = Cut(T, m)

-----------------------------------------------------------------------------
(* What VPP keeps of a list it is given, and how it shows a policy.        *)

Kept(req) ==
  LET m == Received(req.layout, req.message)
  IN  [weight |-> m.Weight, sids |-> SubSeq(m.Sids.Sids, 1, m.Sids.NumSids)]

Shown(bsid, lists) ==
  LET Slots(l) == [i \in 1..SidSlots |-> IF i <= Len(l) THEN l[i]
                                         ELSE Zero(IP6AddressT)]
  IN  Literal(SrPoliciesWithSlIndexDetails,
              [Bsid |-> bsid,
               SidLists |->
                 [i \in DOMAIN lists |->
                    [NumSids |-> Len(lists[i].sids), SlIndex |-> i,
                     Weight |-> lists[i].weight,
                     Sids |-> Slots(lists[i].sids)]]])

(* A segment list reaches VPP and comes back in the dump of its policy     *)
(* with the SIDs, the weight and the order it had, whichever version of    *)
(* the messages the options call for, and without those of another policy; *)
(* one over the limit is an error and is not cut silently.  This is what   *)
(* updateInPlace compares, and why module Programmer may take a list in    *)
(* VPP for the list that was sent.                                         *)
ListsComeBack ==
  \A opts \in TriedOptions :
    LET List(n) == [weight |-> n + 1, sids |-> SubSeq(triedSIDs, 1, n)]
        Lengths == 1..Len(triedSIDs)
        Fits == {n \in Lengths : n <= MaxSIDsPerList}
        Sent(n) == {policyAdd(opts, Prefix, List(n)),
                    addSegmentList(opts, Prefix, List(n))}
        Lists == [n \in Fits |-> List(n)]
        Dump(b, lists) ==
          Received(SrPoliciesWithSlIndexDetails, Shown(b, lists))
        Found(b) == dumpSegmentLists(b, <<Dump(Zero(IP6AddressT), <<List(1)>>),
                                          Dump(Prefix, Lists)>>)
    IN  triedSIDs \in Seq(Address) \ {<<>>} =>
          /\ \A n \in Lengths \ Fits : Sent(n) = {Failed}
          /\ \A n \in Fits : \A req \in Sent(n) : Kept(req) = List(n)
          /\ Found(Prefix).found
          /\ Found(Prefix).lists
               = [n \in Fits |-> [index |-> n, weight |-> n + 1,
                                  sids |-> List(n).sids]]

(* The steering of an endpoint, its removal and its drop route name one    *)
(* prefix, which covers that endpoint and no other one, an IPv4 address    *)
(* and its IPv4-mapped form being the same endpoint.                       *)
EndpointsComeBack ==
  tried.what = "endpoint" =>
    \A opts \in TriedOptions :
      LET Of(req) == Received(req.layout, req.message)
          Named(a) ==
            {Of(steerReq(opts, isDel, a, Prefix)).Prefix : isDel \in BOOLEAN}
              \cup {Of(dropRoute(opts, add, a)).Route.Prefix : add \in BOOLEAN}
          Covered(p) == SubSeq(p.Address.Un, 1, p.Len \div 8)
      IN  /\ \A p \in Named(tried.addr) : Covered(p) = Unmap(tried.addr)
          /\ \A a \in TriedEndpoints :
               Named(a) = Named(tried.addr)
                 <=> Unmap(a) = Unmap(tried.addr)

=============================================================================
