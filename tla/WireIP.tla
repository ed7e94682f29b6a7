------------------------------- MODULE WireIP -------------------------------
(***************************************************************************)
(* The messages of binapi/ip, each by its fields in the order they are     *)
(* written in.                                                             *)
(***************************************************************************)
EXTENDS WireTypes

AddDelIPPuntRedirectV2 == <<"IsAdd" :> Bool, "Punt" :> PuntRedirectV2T>>

AddDelIPPuntRedirectV2Reply == <<"Retval" :> Sint(4)>>

IoamDisable == <<"ID" :> Uint(2)>>

IoamDisableReply == <<"Retval" :> Sint(4)>>

IoamEnable ==
  <<"ID" :> Uint(2), "Seqno" :> Bool, "Analyse" :> Bool, "PotEnable" :> Bool,
    "TraceEnable" :> Bool, "NodeID" :> Uint(4)>>

IoamEnableReply == <<"Retval" :> Sint(4)>>

IPAddressDetails == <<"SwIfIndex" :> Uint(4), "Prefix" :> PrefixT>>

IPAddressDump == <<"SwIfIndex" :> Uint(4), "IsIPv6" :> Bool>>

IPContainerProxyAddDel ==
  <<"Pfx" :> PrefixT, "SwIfIndex" :> Uint(4), "IsAdd" :> Bool>>

IPContainerProxyAddDelReply == <<"Retval" :> Sint(4)>>

IPContainerProxyDetails == <<"SwIfIndex" :> Uint(4), "Prefix" :> PrefixT>>

IPContainerProxyDump == <<>>

IPDetails == <<"SwIfIndex" :> Uint(4), "IsIPv6" :> Bool>>

IPDump == <<"IsIPv6" :> Bool>>

IPLocalReassEnableDisable == <<"EnableIP4" :> Bool, "EnableIP6" :> Bool>>

IPLocalReassEnableDisableReply == <<"Retval" :> Sint(4)>>

IPLocalReassGet == <<>>

IPLocalReassGetReply ==
  <<"Retval" :> Sint(4), "IP4IsEnabled" :> Bool, "IP6IsEnabled" :> Bool>>

IPMrouteAddDel ==
  <<"IsAdd" :> Bool, "IsMultipath" :> Bool, "Route" :> IPMrouteT>>

IPMrouteAddDelReply == <<"Retval" :> Sint(4), "StatsIndex" :> Uint(4)>>

IPMrouteDetails == <<"Route" :> IPMrouteT>>

IPMrouteDump == <<"Table" :> IPTableT>>

IPMtableDetails == <<"Table" :> IPTableT>>

IPMtableDump == <<>>

IPPathMtuDetails == <<"Pmtu" :> IPPathMtuT>>

IPPathMtuGet == <<"Cursor" :> Uint(4)>>

IPPathMtuGetReply == <<"Retval" :> Sint(4), "Cursor" :> Uint(4)>>

IPPathMtuReplaceBegin == <<>>

IPPathMtuReplaceBeginReply == <<"Retval" :> Sint(4)>>

IPPathMtuReplaceEnd == <<>>

IPPathMtuReplaceEndReply == <<"Retval" :> Sint(4)>>

IPPathMtuUpdate == <<"Pmtu" :> IPPathMtuT>>

IPPathMtuUpdateReply == <<"Retval" :> Sint(4)>>

IPPuntPolice == <<"PolicerIndex" :> Uint(4), "IsAdd" :> Bool, "IsIP6" :> Bool>>

IPPuntPoliceReply == <<"Retval" :> Sint(4)>>

IPPuntRedirect == <<"Punt" :> PuntRedirectT, "IsAdd" :> Bool>>

IPPuntRedirectDetails == <<"Punt" :> PuntRedirectT>>

IPPuntRedirectDump == <<"SwIfIndex" :> Uint(4), "IsIPv6" :> Bool>>

IPPuntRedirectReply == <<"Retval" :> Sint(4)>>

IPPuntRedirectV2Details == <<"Punt" :> PuntRedirectV2T>>

IPPuntRedirectV2Dump == <<"SwIfIndex" :> Uint(4), "Af" :> Uint(1)>>

IPReassemblyEnableDisable ==
  <<"SwIfIndex" :> Uint(4), "EnableIP4" :> Bool, "EnableIP6" :> Bool,
    "Type" :> Uint(4)>>

IPReassemblyEnableDisableReply == <<"Retval" :> Sint(4)>>

IPReassemblyGet == <<"IsIP6" :> Bool, "Type" :> Uint(4)>>

IPReassemblyGetReply ==
  <<"Retval" :> Sint(4), "TimeoutMs" :> Uint(4), "MaxReassemblies" :> Uint(4),
    "MaxReassemblyLength" :> Uint(4), "ExpireWalkIntervalMs" :> Uint(4),
    "IsIP6" :> Bool>>

IPReassemblySet ==
  <<"TimeoutMs" :> Uint(4), "MaxReassemblies" :> Uint(4),
    "MaxReassemblyLength" :> Uint(4), "ExpireWalkIntervalMs" :> Uint(4),
    "IsIP6" :> Bool, "Type" :> Uint(4)>>

IPReassemblySetReply == <<"Retval" :> Sint(4)>>

IPRouteAddDel ==
  <<"IsAdd" :> Bool, "IsMultipath" :> Bool, "Route" :> IPRouteT>>

IPRouteAddDelReply == <<"Retval" :> Sint(4), "StatsIndex" :> Uint(4)>>

IPRouteAddDelV2 ==
  <<"IsAdd" :> Bool, "IsMultipath" :> Bool, "Route" :> IPRouteV2T>>

IPRouteAddDelV2Reply == <<"Retval" :> Sint(4), "StatsIndex" :> Uint(4)>>

IPRouteDetails == <<"Route" :> IPRouteT>>

IPRouteDump == <<"Table" :> IPTableT>>

IPRouteLookup ==
  <<"TableID" :> Uint(4), "Exact" :> Uint(1), "Prefix" :> PrefixT>>

IPRouteLookupReply == <<"Retval" :> Sint(4), "Route" :> IPRouteT>>

IPRouteLookupV2 ==
  <<"TableID" :> Uint(4), "Exact" :> Uint(1), "Prefix" :> PrefixT>>

IPRouteLookupV2Reply == <<"Retval" :> Sint(4), "Route" :> IPRouteV2T>>

IPRouteV2Details == <<"Route" :> IPRouteV2T>>

IPRouteV2Dump == <<"Src" :> Uint(1), "Table" :> IPTableT>>

IPSourceAndPortRangeCheckAddDel ==
  <<"IsAdd" :> Bool, "Prefix" :> PrefixT, "NumberOfRanges" :> Uint(1),
    "LowPorts" :> Slice(32, 2), "HighPorts" :> Slice(32, 2),
    "VrfID" :> Uint(4)>>

IPSourceAndPortRangeCheckAddDelReply == <<"Retval" :> Sint(4)>>

IPSourceAndPortRangeCheckInterfaceAddDel ==
  <<"IsAdd" :> Bool, "SwIfIndex" :> Uint(4), "TCPInVrfID" :> Uint(4),
    "TCPOutVrfID" :> Uint(4), "UDPInVrfID" :> Uint(4),
    "UDPOutVrfID" :> Uint(4)>>

IPSourceAndPortRangeCheckInterfaceAddDelReply == <<"Retval" :> Sint(4)>>

IPTableAddDel == <<"IsAdd" :> Bool, "Table" :> IPTableT>>

IPTableAddDelReply == <<"Retval" :> Sint(4)>>

IPTableAddDelV2 ==
  <<"Table" :> IPTableT, "CreateMfib" :> Bool, "IsAdd" :> Bool>>

IPTableAddDelV2Reply == <<"Retval" :> Sint(4)>>

IPTableAllocate == <<"Table" :> IPTableT>>

IPTableAllocateReply == <<"Retval" :> Sint(4), "Table" :> IPTableT>>

IPTableDetails == <<"Table" :> IPTableT>>

IPTableDump == <<>>

IPTableFlush == <<"Table" :> IPTableT>>

IPTableFlushReply == <<"Retval" :> Sint(4)>>

IPTableReplaceBegin == <<"Table" :> IPTableT>>

IPTableReplaceBeginReply == <<"Retval" :> Sint(4)>>

IPTableReplaceEnd == <<"Table" :> IPTableT>>

IPTableReplaceEndReply == <<"Retval" :> Sint(4)>>

IPUnnumberedDetails == <<"SwIfIndex" :> Uint(4), "IPSwIfIndex" :> Uint(4)>>

IPUnnumberedDump == <<"SwIfIndex" :> Uint(4)>>

MfibSignalDetails ==
  <<"SwIfIndex" :> Uint(4), "TableID" :> Uint(4), "Prefix" :> MprefixT,
    "IPPacketLen" :> Uint(2), "IPPacketData" :> Bytes(256)>>

MfibSignalDump == <<>>

SetIPFlowHash ==
  <<"VrfID" :> Uint(4), "IsIPv6" :> Bool, "Src" :> Bool, "Dst" :> Bool,
    "Sport" :> Bool, "Dport" :> Bool, "Proto" :> Bool, "Reverse" :> Bool,
    "Symmetric" :> Bool>>

SetIPFlowHashReply == <<"Retval" :> Sint(4)>>

SetIPFlowHashRouterID == <<"RouterID" :> Uint(4)>>

SetIPFlowHashRouterIDReply == <<"Retval" :> Sint(4)>>

SetIPFlowHashV2 ==
  <<"TableID" :> Uint(4), "Af" :> Uint(1), "FlowHashConfig" :> Uint(4)>>

SetIPFlowHashV2Reply == <<"Retval" :> Sint(4)>>

SetIPFlowHashV3 ==
  <<"TableID" :> Uint(4), "Af" :> Uint(1), "FlowHashConfig" :> Uint(4)>>

SetIPFlowHashV3Reply == <<"Retval" :> Sint(4)>>

SwInterfaceIP4EnableDisable == <<"SwIfIndex" :> Uint(4), "Enable" :> Bool>>

SwInterfaceIP4EnableDisableReply == <<"Retval" :> Sint(4)>>

SwInterfaceIP6EnableDisable == <<"SwIfIndex" :> Uint(4), "Enable" :> Bool>>

SwInterfaceIP6EnableDisableReply == <<"Retval" :> Sint(4)>>

SwInterfaceIP6GetLinkLocalAddress == <<"SwIfIndex" :> Uint(4)>>

SwInterfaceIP6GetLinkLocalAddressReply ==
  <<"Retval" :> Sint(4), "IP" :> IP6AddressT>>

SwInterfaceIP6SetLinkLocalAddress ==
  <<"SwIfIndex" :> Uint(4), "IP" :> IP6AddressT>>

SwInterfaceIP6SetLinkLocalAddressReply == <<"Retval" :> Sint(4)>>

-----------------------------------------------------------------------------
IPMessages ==
  "AddDelIPPuntRedirectV2" :> AddDelIPPuntRedirectV2
    @@ "AddDelIPPuntRedirectV2Reply" :> AddDelIPPuntRedirectV2Reply
    @@ "IoamDisable" :> IoamDisable
    @@ "IoamDisableReply" :> IoamDisableReply
    @@ "IoamEnable" :> IoamEnable
    @@ "IoamEnableReply" :> IoamEnableReply
    @@ "IPAddressDetails" :> IPAddressDetails
    @@ "IPAddressDump" :> IPAddressDump
    @@ "IPContainerProxyAddDel" :> IPContainerProxyAddDel
    @@ "IPContainerProxyAddDelReply" :> IPContainerProxyAddDelReply
    @@ "IPContainerProxyDetails" :> IPContainerProxyDetails
    @@ "IPContainerProxyDump" :> IPContainerProxyDump
    @@ "IPDetails" :> IPDetails
    @@ "IPDump" :> IPDump
    @@ "IPLocalReassEnableDisable" :> IPLocalReassEnableDisable
    @@ "IPLocalReassEnableDisableReply" :> IPLocalReassEnableDisableReply
    @@ "IPLocalReassGet" :> IPLocalReassGet
    @@ "IPLocalReassGetReply" :> IPLocalReassGetReply
    @@ "IPMrouteAddDel" :> IPMrouteAddDel
    @@ "IPMrouteAddDelReply" :> IPMrouteAddDelReply
    @@ "IPMrouteDetails" :> IPMrouteDetails
    @@ "IPMrouteDump" :> IPMrouteDump
    @@ "IPMtableDetails" :> IPMtableDetails
    @@ "IPMtableDump" :> IPMtableDump
    @@ "IPPathMtuDetails" :> IPPathMtuDetails
    @@ "IPPathMtuGet" :> IPPathMtuGet
    @@ "IPPathMtuGetReply" :> IPPathMtuGetReply
    @@ "IPPathMtuReplaceBegin" :> IPPathMtuReplaceBegin
    @@ "IPPathMtuReplaceBeginReply" :> IPPathMtuReplaceBeginReply
    @@ "IPPathMtuReplaceEnd" :> IPPathMtuReplaceEnd
    @@ "IPPathMtuReplaceEndReply" :> IPPathMtuReplaceEndReply
    @@ "IPPathMtuUpdate" :> IPPathMtuUpdate
    @@ "IPPathMtuUpdateReply" :> IPPathMtuUpdateReply
    @@ "IPPuntPolice" :> IPPuntPolice
    @@ "IPPuntPoliceReply" :> IPPuntPoliceReply
    @@ "IPPuntRedirect" :> IPPuntRedirect
    @@ "IPPuntRedirectDetails" :> IPPuntRedirectDetails
    @@ "IPPuntRedirectDump" :> IPPuntRedirectDump
    @@ "IPPuntRedirectReply" :> IPPuntRedirectReply
    @@ "IPPuntRedirectV2Details" :> IPPuntRedirectV2Details
    @@ "IPPuntRedirectV2Dump" :> IPPuntRedirectV2Dump
    @@ "IPReassemblyEnableDisable" :> IPReassemblyEnableDisable
    @@ "IPReassemblyEnableDisableReply" :> IPReassemblyEnableDisableReply
    @@ "IPReassemblyGet" :> IPReassemblyGet
    @@ "IPReassemblyGetReply" :> IPReassemblyGetReply
    @@ "IPReassemblySet" :> IPReassemblySet
    @@ "IPReassemblySetReply" :> IPReassemblySetReply
    @@ "IPRouteAddDel" :> IPRouteAddDel
    @@ "IPRouteAddDelReply" :> IPRouteAddDelReply
    @@ "IPRouteAddDelV2" :> IPRouteAddDelV2
    @@ "IPRouteAddDelV2Reply" :> IPRouteAddDelV2Reply
    @@ "IPRouteDetails" :> IPRouteDetails
    @@ "IPRouteDump" :> IPRouteDump
    @@ "IPRouteLookup" :> IPRouteLookup
    @@ "IPRouteLookupReply" :> IPRouteLookupReply
    @@ "IPRouteLookupV2" :> IPRouteLookupV2
    @@ "IPRouteLookupV2Reply" :> IPRouteLookupV2Reply
    @@ "IPRouteV2Details" :> IPRouteV2Details
    @@ "IPRouteV2Dump" :> IPRouteV2Dump
    @@ "IPSourceAndPortRangeCheckAddDel" :> IPSourceAndPortRangeCheckAddDel
    @@ "IPSourceAndPortRangeCheckAddDelReply" :>
         IPSourceAndPortRangeCheckAddDelReply
    @@ "IPSourceAndPortRangeCheckInterfaceAddDel" :>
         IPSourceAndPortRangeCheckInterfaceAddDel
    @@ "IPSourceAndPortRangeCheckInterfaceAddDelReply" :>
         IPSourceAndPortRangeCheckInterfaceAddDelReply
    @@ "IPTableAddDel" :> IPTableAddDel
    @@ "IPTableAddDelReply" :> IPTableAddDelReply
    @@ "IPTableAddDelV2" :> IPTableAddDelV2
    @@ "IPTableAddDelV2Reply" :> IPTableAddDelV2Reply
    @@ "IPTableAllocate" :> IPTableAllocate
    @@ "IPTableAllocateReply" :> IPTableAllocateReply
    @@ "IPTableDetails" :> IPTableDetails
    @@ "IPTableDump" :> IPTableDump
    @@ "IPTableFlush" :> IPTableFlush
    @@ "IPTableFlushReply" :> IPTableFlushReply
    @@ "IPTableReplaceBegin" :> IPTableReplaceBegin
    @@ "IPTableReplaceBeginReply" :> IPTableReplaceBeginReply
    @@ "IPTableReplaceEnd" :> IPTableReplaceEnd
    @@ "IPTableReplaceEndReply" :> IPTableReplaceEndReply
    @@ "IPUnnumberedDetails" :> IPUnnumberedDetails
    @@ "IPUnnumberedDump" :> IPUnnumberedDump
    @@ "MfibSignalDetails" :> MfibSignalDetails
    @@ "MfibSignalDump" :> MfibSignalDump
    @@ "SetIPFlowHash" :> SetIPFlowHash
    @@ "SetIPFlowHashReply" :> SetIPFlowHashReply
    @@ "SetIPFlowHashRouterID" :> SetIPFlowHashRouterID
    @@ "SetIPFlowHashRouterIDReply" :> SetIPFlowHashRouterIDReply
    @@ "SetIPFlowHashV2" :> SetIPFlowHashV2
    @@ "SetIPFlowHashV2Reply" :> SetIPFlowHashV2Reply
    @@ "SetIPFlowHashV3" :> SetIPFlowHashV3
    @@ "SetIPFlowHashV3Reply" :> SetIPFlowHashV3Reply
    @@ "SwInterfaceIP4EnableDisable" :> SwInterfaceIP4EnableDisable
    @@ "SwInterfaceIP4EnableDisableReply" :> SwInterfaceIP4EnableDisableReply
    @@ "SwInterfaceIP6EnableDisable" :> SwInterfaceIP6EnableDisable
    @@ "SwInterfaceIP6EnableDisableReply" :> SwInterfaceIP6EnableDisableReply
    @@ "SwInterfaceIP6GetLinkLocalAddress" :> SwInterfaceIP6GetLinkLocalAddress
    @@ "SwInterfaceIP6GetLinkLocalAddressReply" :>
         SwInterfaceIP6GetLinkLocalAddressReply
    @@ "SwInterfaceIP6SetLinkLocalAddress" :> SwInterfaceIP6SetLinkLocalAddress
    @@ "SwInterfaceIP6SetLinkLocalAddressReply" :>
         SwInterfaceIP6SetLinkLocalAddressReply

=============================================================================
