----------------------------- MODULE WireTypes ------------------------------
(***************************************************************************)
(* The types that the messages of sr and ip share.  An address has the     *)
(* bytes module USID gives it, an SRv6 list a number of slots.             *)
(***************************************************************************)
EXTENDS Wire, USID

CONSTANT
  SidSlots     (* slots of Srv6SidList: 16                                 *)

ASSUME WireTypesAssumption ==
  /\ MaxSIDsPerList <= SidSlots
  /\ SidSlots \in 1..(Radix - 1)
  /\ Byte \subseteq 0..(Radix - 1)

IP6AddressT == Bytes(addrBytes)

AddressUnionT == Bytes(addrBytes)

AddressT == Struct(<<"Af" :> Uint(1), "Un" :> AddressUnionT>>)

PrefixT == Struct(<<"Address" :> AddressT, "Len" :> Uint(1)>>)

MprefixT ==
  Struct(<<"Af" :> Uint(1), "GrpAddressLength" :> Uint(2),
           "GrpAddress" :> AddressUnionT, "SrcAddress" :> AddressUnionT>>)

FibMplsLabelT ==
  Struct(<<"IsUniform" :> Uint(1), "Label" :> Uint(4), "TTL" :> Uint(1),
           "Exp" :> Uint(1)>>)

FibPathNhT ==
  Struct(<<"Address" :> AddressUnionT, "ViaLabel" :> Uint(4),
           "ObjID" :> Uint(4), "ClassifyTableIndex" :> Uint(4)>>)

FibPathT ==
  Struct(<<"SwIfIndex" :> Uint(4), "TableID" :> Uint(4), "RpfID" :> Uint(4),
           "Weight" :> Uint(1), "Preference" :> Uint(1), "Type" :> Uint(4),
           "Flags" :> Uint(4), "Proto" :> Uint(4), "Nh" :> FibPathNhT,
           "NLabels" :> Uint(1), "LabelStack" :> Array(16, FibMplsLabelT)>>)

MfibPathT == Struct(<<"ItfFlags" :> Uint(4), "Path" :> FibPathT>>)

Srv6SidListT ==
  Struct(<<"NumSids" :> Uint(1), "Weight" :> Uint(4),
           "Sids" :> Array(SidSlots, IP6AddressT)>>)

Srv6SidListWithSlIndexT ==
  Struct(<<"NumSids" :> Uint(1), "Weight" :> Uint(4), "SlIndex" :> Uint(4),
           "Sids" :> Array(SidSlots, IP6AddressT)>>)

IPMrouteT ==
  Struct(<<"TableID" :> Uint(4), "EntryFlags" :> Uint(4), "RpfID" :> Uint(4),
           "Prefix" :> MprefixT, "NPaths" :> Counter(1, "Paths"),
           "Paths" :> Vector("NPaths", MfibPathT)>>)

IPPathMtuT ==
  Struct(<<"ClientIndex" :> Uint(4), "Context" :> Uint(4),
           "TableID" :> Uint(4), "Nh" :> AddressT, "PathMtu" :> Uint(2)>>)

IPRouteT ==
  Struct(<<"TableID" :> Uint(4), "StatsIndex" :> Uint(4), "Prefix" :> PrefixT,
           "NPaths" :> Counter(1, "Paths"),
           "Paths" :> Vector("NPaths", FibPathT)>>)

IPRouteV2T ==
  Struct(<<"TableID" :> Uint(4), "StatsIndex" :> Uint(4), "Prefix" :> PrefixT,
           "NPaths" :> Counter(1, "Paths"), "Src" :> Uint(1),
           "Paths" :> Vector("NPaths", FibPathT)>>)

IPTableT ==
  Struct(<<"TableID" :> Uint(4), "IsIP6" :> Bool, "Name" :> String(64)>>)

PuntRedirectT ==
  Struct(<<"RxSwIfIndex" :> Uint(4), "TxSwIfIndex" :> Uint(4),
           "Nh" :> AddressT>>)

PuntRedirectV2T ==
  Struct(<<"RxSwIfIndex" :> Uint(4), "Af" :> Uint(1),
           "NPaths" :> Counter(4, "Paths"),
           "Paths" :> Vector("NPaths", FibPathT)>>)

=============================================================================
