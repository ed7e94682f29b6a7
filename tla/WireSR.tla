------------------------------- MODULE WireSR -------------------------------
(***************************************************************************)
(* The messages of binapi/sr, each by its fields in the order they are     *)
(* written in.                                                             *)
(***************************************************************************)
EXTENDS WireTypes

SrLocalsidAddDel ==
  <<"IsDel" :> Bool, "Localsid" :> IP6AddressT, "EndPsp" :> Bool,
    "Behavior" :> Uint(1), "SwIfIndex" :> Uint(4), "VlanIndex" :> Uint(4),
    "FibTable" :> Uint(4), "NhAddr" :> AddressT>>

SrLocalsidAddDelReply == <<"Retval" :> Sint(4)>>

SrLocalsidsDetails ==
  <<"Addr" :> IP6AddressT, "EndPsp" :> Bool, "Behavior" :> Uint(1),
    "FibTable" :> Uint(4), "VlanIndex" :> Uint(4),
    "XconnectNhAddr" :> AddressT, "XconnectIfaceOrVrfTable" :> Uint(4)>>

SrLocalsidsDump == <<>>

SrLocalsidsWithPacketStatsDetails ==
  <<"Addr" :> IP6AddressT, "EndPsp" :> Bool, "Behavior" :> Uint(1),
    "FibTable" :> Uint(4), "VlanIndex" :> Uint(4),
    "XconnectNhAddr" :> AddressT, "XconnectIfaceOrVrfTable" :> Uint(4),
    "GoodTrafficBytes" :> Uint(8), "GoodTrafficPktCount" :> Uint(8),
    "BadTrafficBytes" :> Uint(8), "BadTrafficPktCount" :> Uint(8)>>

SrLocalsidsWithPacketStatsDump == <<>>

SrPoliciesDetails ==
  <<"Bsid" :> IP6AddressT, "IsSpray" :> Bool, "IsEncap" :> Bool,
    "FibTable" :> Uint(4), "NumSidLists" :> Counter(1, "SidLists"),
    "SidLists" :> Vector("NumSidLists", Srv6SidListT)>>

SrPoliciesDump == <<>>

SrPoliciesV2Details ==
  <<"Bsid" :> IP6AddressT, "EncapSrc" :> IP6AddressT, "Type" :> Uint(1),
    "IsEncap" :> Bool, "FibTable" :> Uint(4),
    "NumSidLists" :> Counter(1, "SidLists"),
    "SidLists" :> Vector("NumSidLists", Srv6SidListT)>>

SrPoliciesV2Dump == <<>>

SrPoliciesWithSlIndexDetails ==
  <<"Bsid" :> IP6AddressT, "IsSpray" :> Bool, "IsEncap" :> Bool,
    "FibTable" :> Uint(4), "NumSidLists" :> Counter(1, "SidLists"),
    "SidLists" :> Vector("NumSidLists", Srv6SidListWithSlIndexT)>>

SrPoliciesWithSlIndexDump == <<>>

SrPolicyAdd ==
  <<"BsidAddr" :> IP6AddressT, "Weight" :> Uint(4), "IsEncap" :> Bool,
    "IsSpray" :> Bool, "FibTable" :> Uint(4), "Sids" :> Srv6SidListT>>

SrPolicyAddReply == <<"Retval" :> Sint(4)>>

SrPolicyAddV2 ==
  <<"BsidAddr" :> IP6AddressT, "Weight" :> Uint(4), "IsEncap" :> Bool,
    "Type" :> Uint(1), "FibTable" :> Uint(4), "Sids" :> Srv6SidListT,
    "EncapSrc" :> IP6AddressT>>

SrPolicyAddV2Reply == <<"Retval" :> Sint(4)>>

SrPolicyDel == <<"BsidAddr" :> IP6AddressT, "SrPolicyIndex" :> Uint(4)>>

SrPolicyDelReply == <<"Retval" :> Sint(4)>>

SrPolicyMod ==
  <<"BsidAddr" :> IP6AddressT, "SrPolicyIndex" :> Uint(4),
    "FibTable" :> Uint(4), "Operation" :> Uint(1), "SlIndex" :> Uint(4),
    "Weight" :> Uint(4), "Sids" :> Srv6SidListT>>

SrPolicyModReply == <<"Retval" :> Sint(4)>>

SrPolicyModV2 ==
  <<"BsidAddr" :> IP6AddressT, "SrPolicyIndex" :> Uint(4),
    "FibTable" :> Uint(4), "Operation" :> Uint(1), "SlIndex" :> Uint(4),
    "Weight" :> Uint(4), "Sids" :> Srv6SidListT, "EncapSrc" :> IP6AddressT>>

SrPolicyModV2Reply == <<"Retval" :> Sint(4)>>

SrSetEncapHopLimit == <<"HopLimit" :> Uint(1)>>

SrSetEncapHopLimitReply == <<"Retval" :> Sint(4)>>

SrSetEncapSource == <<"EncapsSource" :> IP6AddressT>>

SrSetEncapSourceReply == <<"Retval" :> Sint(4)>>

SrSteeringAddDel ==
  <<"IsDel" :> Bool, "BsidAddr" :> IP6AddressT, "SrPolicyIndex" :> Uint(4),
    "TableID" :> Uint(4), "Prefix" :> PrefixT, "SwIfIndex" :> Uint(4),
    "TrafficType" :> Uint(1)>>

SrSteeringAddDelReply == <<"Retval" :> Sint(4)>>

SrSteeringPolDetails ==
  <<"TrafficType" :> Uint(1), "FibTable" :> Uint(4), "Prefix" :> PrefixT,
    "SwIfIndex" :> Uint(4), "Bsid" :> IP6AddressT>>

SrSteeringPolDump == <<>>

-----------------------------------------------------------------------------
SRMessages ==
  "SrLocalsidAddDel" :> SrLocalsidAddDel
    @@ "SrLocalsidAddDelReply" :> SrLocalsidAddDelReply
    @@ "SrLocalsidsDetails" :> SrLocalsidsDetails
    @@ "SrLocalsidsDump" :> SrLocalsidsDump
    @@ "SrLocalsidsWithPacketStatsDetails" :> SrLocalsidsWithPacketStatsDetails
    @@ "SrLocalsidsWithPacketStatsDump" :> SrLocalsidsWithPacketStatsDump
    @@ "SrPoliciesDetails" :> SrPoliciesDetails
    @@ "SrPoliciesDump" :> SrPoliciesDump
    @@ "SrPoliciesV2Details" :> SrPoliciesV2Details
    @@ "SrPoliciesV2Dump" :> SrPoliciesV2Dump
    @@ "SrPoliciesWithSlIndexDetails" :> SrPoliciesWithSlIndexDetails
    @@ "SrPoliciesWithSlIndexDump" :> SrPoliciesWithSlIndexDump
    @@ "SrPolicyAdd" :> SrPolicyAdd
    @@ "SrPolicyAddReply" :> SrPolicyAddReply
    @@ "SrPolicyAddV2" :> SrPolicyAddV2
    @@ "SrPolicyAddV2Reply" :> SrPolicyAddV2Reply
    @@ "SrPolicyDel" :> SrPolicyDel
    @@ "SrPolicyDelReply" :> SrPolicyDelReply
    @@ "SrPolicyMod" :> SrPolicyMod
    @@ "SrPolicyModReply" :> SrPolicyModReply
    @@ "SrPolicyModV2" :> SrPolicyModV2
    @@ "SrPolicyModV2Reply" :> SrPolicyModV2Reply
    @@ "SrSetEncapHopLimit" :> SrSetEncapHopLimit
    @@ "SrSetEncapHopLimitReply" :> SrSetEncapHopLimitReply
    @@ "SrSetEncapSource" :> SrSetEncapSource
    @@ "SrSetEncapSourceReply" :> SrSetEncapSourceReply
    @@ "SrSteeringAddDel" :> SrSteeringAddDel
    @@ "SrSteeringAddDelReply" :> SrSteeringAddDelReply
    @@ "SrSteeringPolDetails" :> SrSteeringPolDetails
    @@ "SrSteeringPolDump" :> SrSteeringPolDump

=============================================================================
