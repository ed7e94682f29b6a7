-------------------------------- MODULE USID --------------------------------
(***************************************************************************)
(* usid: single uSIDs of one block are packed into carriers.  An address   *)
(* is its bytes here, as the packing is byte by byte.                      *)
(***************************************************************************)
EXTENDS SRPolicy, SequencesExt

CONSTANTS
  AddrBits,    (* length of an address: 128                                *)
  Byte,        (* values of a byte, 0 among them                           *)
  Prefix,      (* the address of Block.Prefix, masked                      *)
  PrefixBits,  (* Block.Prefix.Bits()                                      *)
  USIDBits     (* Block.USIDBits                                           *)

addrBytes == AddrBits \div 8
blockBytes == PrefixBits \div 8
usidBytes == USIDBits \div 8

Address == [1..addrBytes -> Byte]

PerCarrier == (AddrBits - PrefixBits) \div USIDBits

Validate ==
  /\ Prefix \in Address
  /\ PrefixBits \in 0..AddrBits
  /\ PrefixBits % 8 = 0
  /\ USIDBits \in Nat \ {0}
  /\ USIDBits % 8 = 0
  /\ PerCarrier >= 1

(* main does not start the daemon with a block that does not validate.     *)
ASSUME USIDAssumption ==
  /\ 0 \in Byte
  /\ AddrBits \in Nat
  /\ AddrBits % 8 = 0
  /\ Validate
  /\ SID = Address

BlockOf(s) == SubSeq(s, 1, blockBytes)
FirstUSID(s) == SubSeq(s, blockBytes + 1, blockBytes + usidBytes)
AfterFirst(s) == SubSeq(s, blockBytes + usidBytes + 1, addrBytes)

IsZero(s) == ToSet(s) \subseteq {0}

InBlock(addr) == addr \in Address /\ BlockOf(addr) = BlockOf(Prefix)

isSingleUSID(s) == ~IsZero(FirstUSID(s)) /\ IsZero(AfterFirst(s))

-----------------------------------------------------------------------------
(* The loop of Compact: carriers that are done, the one being filled.      *)

NoUSIDs == [out |-> <<>>, cur |-> [i \in 1..addrBytes |-> 0], count |-> 0]

Flush(c) == IF c.count = 0 THEN c ELSE [NoUSIDs EXCEPT !.out = Append(c.out, c.cur)]

(* copy of the uSID to its place, and of the block before the first.       *)
Filled(c, sid) ==
  LET pos == blockBytes + c.count * usidBytes
  IN  [c EXCEPT
         !.count = @ + 1,
         !.cur = [i \in 1..addrBytes |->
                    IF i \in pos + 1..pos + usidBytes
                    THEN sid[i - c.count * usidBytes]
                    ELSE IF c.count = 0 /\ i =< blockBytes THEN Prefix[i] ELSE @[i]]]

(* Mutants of Pack: the carrier is not closed before an address that is    *)
(* passed through; a carrier is closed one uSID early.                     *)
PackAround(c, sid) ==
  IF ~InBlock(sid) \/ ~isSingleUSID(sid) THEN [c EXCEPT !.out = Append(@, sid)]
  ELSE IF c.count + 1 = PerCarrier THEN Flush(Filled(c, sid)) ELSE Filled(c, sid)
PackLoosely(c, sid) ==
  IF ~InBlock(sid) \/ ~isSingleUSID(sid)
  THEN [Flush(c) EXCEPT !.out = Append(@, sid)]
  ELSE IF c.count + 2 >= PerCarrier THEN Flush(Filled(c, sid)) ELSE Filled(c, sid)

Pack(c, sid) ==
  IF ~InBlock(sid) \/ ~isSingleUSID(sid)
  THEN [Flush(c) EXCEPT !.out = Append(@, sid)]
  ELSE IF c.count + 1 = PerCarrier THEN Flush(Filled(c, sid)) ELSE Filled(c, sid)

Compact(l) == Flush(FoldLeft(Pack, NoUSIDs, l)).out

-----------------------------------------------------------------------------
(* Compactor.Apply.                                                        *)

(* Mutant of Compacted: what made the list unusable is lost.               *)
CompactedAnew(sl) ==
  [sl EXCEPT !.sids = Compact(@), !.unsupported = FALSE,
             !.verify = IF @ = {} THEN {} ELSE {1}]

(* A V-Flag anywhere becomes one of the first SID.                         *)
Compacted(sl) ==
  [sl EXCEPT !.sids = Compact(@),
             !.verify = IF @ = {} THEN {} ELSE {1},
             !.unresolvable = FALSE]

Apply(cp) == [cp EXCEPT !.sls = {Compacted(sl) : sl \in @}]

=============================================================================
