---------------------------- MODULE MCProgrammer ----------------------------
(***************************************************************************)
(* Two policies, the endpoint of one of them steered; two BSIDs; paths     *)
(* whose lists overlap, repeat and include an invalid one.  Addresses have *)
(* six bytes, of which the block takes one and a uSID two; two uSIDs fit   *)
(* and one byte is left over.                                              *)
(***************************************************************************)
EXTENDS ProgrammerProps, WireProps, TLC

CONSTANTS k1, k2, e1, e2, b1, b2, v4

s1 == <<1, 0, 1, 0, 0, 0>>
s2 == <<1, 1, 0, 0, 0, 0>>

MCEndpointOf == k1 :> e1 @@ k2 :> e2

SL(w, sids) ==
  [weight |-> w, sids |-> sids, unsupported |-> FALSE, verify |-> {},
   unresolvable |-> FALSE]

A == SL(1, <<s1>>)
B == SL(1, <<s2>>)

MCPaths ==
  {[bsid |-> b1, sls |-> <<A>>],
   [bsid |-> b1, sls |-> <<A, A, B>>],
   [bsid |-> b1, sls |-> <<SL(0, <<s2>>), B>>],
   [bsid |-> b2, sls |-> <<B, A>>]}

MCPrefix == <<1, 0, 0, 0, 0, 0>>

(* Single uSIDs, a full carrier, no uSID, a gap, a remainder, another      *)
(* block, IPv4.                                                            *)
MCTriedAddrs ==
  {s1, s2, <<1, 0, 1, 1, 0, 0>>, <<1, 0, 0, 0, 0, 0>>, <<1, 0, 0, 0, 1, 0>>,
   <<1, 1, 0, 0, 0, 1>>, <<0, 1, 0, 0, 0, 0>>, v4}

(* v1 messages, and v2 messages for the type and for the source.           *)
MCTriedOptions ==
  {[Encap |-> TRUE, FIBTable |-> 0, EncapSrc |-> <<>>, Type |-> 0],
   [Encap |-> FALSE, FIBTable |-> 1, EncapSrc |-> s2, Type |-> 0],
   [Encap |-> TRUE, FIBTable |-> 0, EncapSrc |-> <<>>, Type |-> 1]}

(* IPv6 addresses, one that ends in zeros as an IPv4 address in the union  *)
(* does; an IPv4 address, its mapped form, another one.                    *)
MCTriedEndpoints ==
  {s1, <<1, 1, 0, 0, 0, 0>>, <<1, 1, 0, 0>>, <<63, 63, 1, 1, 0, 0>>,
   <<1, 1, 0, 1>>}

-----------------------------------------------------------------------------
(* Lists of addresses, messages and endpoints are tried before anything    *)
(* else happens, and nothing else happens while one is tried.              *)
MCInit == Init /\ NoSIDs /\ NoWire

MCNext ==
  \/ Next /\ NoSIDs /\ NoWire /\ UNCHANGED <<triedSIDs, tried>>
  \/ Init /\ NoWire /\ TrySIDs /\ UNCHANGED <<vars, tried>>
  \/ Init /\ NoSIDs /\ TryWire /\ UNCHANGED <<vars, triedSIDs>>

MCSpec == MCInit /\ [][MCNext]_<<vars, triedSIDs, tried>>

=============================================================================
