------------------------------ MODULE Requests ------------------------------
(***************************************************************************)
(* The requests adapter/vpp.Programmer makes of its arguments, and what it *)
(* makes of the replies.  Module Programmer has the order of the requests. *)
(*                                                                         *)
(* A netip.Addr is its bytes: four, or those of an IPv6 address.  opts is   *)
(* the struct Options, EncapSrc the empty sequence when it is not valid.   *)
(***************************************************************************)
EXTENDS WireSR, WireIP

SR_API_POLICY_TYPE_DEFAULT == 0
SR_POLICY_OP_API_ADD == 1
ADDRESS_IP4 == 0
ADDRESS_IP6 == 1
SR_STEER_API_IPV4 == 4
SR_STEER_API_IPV6 == 6
FIB_API_PATH_TYPE_DROP == 2

(* netip.                                                                  *)
Is4(a) == Len(a) = 4
Mapped ==
  [i \in 1..(addrBytes - 4) |-> IF i <= addrBytes - 6 THEN 0 ELSE Radix - 1]
Is4In6(a) == Len(a) = addrBytes /\ SubSeq(a, 1, addrBytes - 4) = Mapped
Unmap(a) == IF Is4In6(a) THEN SubSeq(a, addrBytes - 3, addrBytes) ELSE a
As16(a) == IF Is4(a) THEN Mapped \o a ELSE a

toIP6(a) == As16(a)

(* Mutant: an IPv4-mapped endpoint is an IPv6 one.                         *)
endpointIs4Unmapped(a) == Is4(a)

endpointIs4(a) == Is4(a) \/ Is4In6(a)

(* AddressUnion: the bytes that are not set stay zero.                     *)
Union(a) == Fitted(addrBytes, a)

-----------------------------------------------------------------------------
(* Policies.                                                               *)

Failed == [error |-> TRUE]

(* Mutant: what is over the limit is dropped.                              *)
sidListCut(sl) ==
  LET n == Min({Len(sl.sids), MaxSIDsPerList})
  IN  [NumSids |-> n, Weight |-> sl.weight,
       Sids |-> [i \in 1..SidSlots |->
                   IF i <= n THEN toIP6(sl.sids[i]) ELSE Zero(IP6AddressT)]]

sidList(sl) ==
  IF Len(sl.sids) > MaxSIDsPerList THEN Failed
  ELSE [NumSids |-> Len(sl.sids), Weight |-> sl.weight,
        Sids |-> [i \in 1..SidSlots |->
                    IF i <= Len(sl.sids) THEN toIP6(sl.sids[i])
                    ELSE Zero(IP6AddressT)]]

useV2(opts) ==
  opts.EncapSrc # <<>> \/ opts.Type # SR_API_POLICY_TYPE_DEFAULT

encapSrc(opts) ==
  IF opts.EncapSrc # <<>> THEN toIP6(opts.EncapSrc) ELSE Zero(IP6AddressT)

(* A request is a message and the layout it is sent with.                  *)
Request(layout, given) ==
  [layout |-> layout, message |-> Literal(layout, given)]

policyAdd(opts, bsid, sl) ==
  LET given == [BsidAddr |-> bsid, Weight |-> sl.weight,
                IsEncap |-> opts.Encap, FibTable |-> opts.FIBTable,
                Sids |-> sidList(sl)]
  IN  IF sidList(sl) = Failed THEN Failed
      ELSE IF useV2(opts)
      THEN Request(SrPolicyAddV2,
                   given @@ [Type |-> opts.Type, EncapSrc |-> encapSrc(opts)])
      ELSE Request(SrPolicyAdd, given)

addSegmentList(opts, bsid, sl) ==
  LET given == [BsidAddr |-> bsid, Operation |-> SR_POLICY_OP_API_ADD,
                FibTable |-> opts.FIBTable, Weight |-> sl.weight,
                Sids |-> sidList(sl)]
  IN  IF sidList(sl) = Failed THEN Failed
      ELSE IF useV2(opts)
      THEN Request(SrPolicyModV2, given @@ [EncapSrc |-> encapSrc(opts)])
      ELSE Request(SrPolicyMod, given)

(* The segment lists of a policy, of the details of all policies.          *)
dumpSegmentLists(bsid, dump) ==
  LET Entry(sl) ==
        [index |-> sl.SlIndex, weight |-> sl.Weight,
         sids |-> SubSeq(sl.Sids, 1, Min({sl.NumSids, Len(sl.Sids)}))]
      Details == SelectSeq(dump, LAMBDA d : d.Bsid = bsid)
      Entries(d) == [i \in DOMAIN d.SidLists |-> Entry(d.SidLists[i])]
  IN  [found |-> Details # <<>>,
       lists |-> FlattenSeq([i \in DOMAIN Details |-> Entries(Details[i])])]

-----------------------------------------------------------------------------
(* Endpoints.                                                              *)

hostPrefix(a) ==
  IF endpointIs4(a)
  THEN [Address |-> [Af |-> ADDRESS_IP4, Un |-> Union(Unmap(a))], Len |-> 32]
  ELSE [Address |-> [Af |-> ADDRESS_IP6, Un |-> Union(toIP6(a))],
        Len |-> AddrBits]

steerReq(opts, isDel, a, bsid) ==
  Request(SrSteeringAddDel,
          [IsDel |-> isDel, TableID |-> opts.FIBTable, BsidAddr |-> bsid,
           Prefix |-> hostPrefix(a),
           TrafficType |-> IF endpointIs4(a) THEN SR_STEER_API_IPV4
                           ELSE SR_STEER_API_IPV6])

dropRoute(opts, add, a) ==
  LET path == [Type |-> FIB_API_PATH_TYPE_DROP,
               Proto |-> IF endpointIs4(a) THEN ADDRESS_IP4 ELSE ADDRESS_IP6]
  IN  Request(IPRouteAddDel,
              [IsAdd |-> add,
               Route |-> [TableID |-> opts.FIBTable, Prefix |-> hostPrefix(a),
                          Paths |-> <<path @@ Zero(FibPathT)>>]
                           @@ Zero(IPRouteT)])

=============================================================================
