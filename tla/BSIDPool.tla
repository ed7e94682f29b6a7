------------------------------ MODULE BSIDPool ------------------------------
(***************************************************************************)
(* control.bsidPool: dynamic BSIDs handed out round robin from the host    *)
(* part of a prefix.  An address is the number its low bytes form; the     *)
(* bytes above them never change.  alloc writes the counter over the last  *)
(* bytes of the prefix, over as many of them as the counter needs.         *)
(***************************************************************************)
EXTENDS Integers

CONSTANTS
  Radix,      (* values of a byte: 256                                     *)
  Prefixes    (* what -bsid-pool may name: records [base, size], where     *)
              (* size is 2 to the power of the number of host bits         *)

ASSUME PoolAssumption ==
  /\ Radix \in Nat \ {0, 1}
  /\ Prefixes \subseteq [base : Nat, size : Nat \ {0}]
  /\ \A p \in Prefixes : p.base % p.size = 0        (* Prefix.Masked       *)

VARIABLES
  prefix,     (* the pool's prefix                                         *)
  next,       (* p.next                                                    *)
  used,       (* addresses policies own or hold, or orphans have           *)
  got         (* what the last call of alloc returned                      *)

vars == <<prefix, next, used, got>>

None == -1    (* netip.Addr{}                                              *)

(* The highest counter: a scan is bounded by two bytes' worth of them.     *)
MaxNext ==
  IF prefix.size < Radix * Radix THEN prefix.size - 1 ELSE Radix * Radix - 1

(* The counter the scan tries i-th after n: past the last comes 1.         *)
ProbeEndsEarly(n, i) ==     (* mutant: the last counter is never tried     *)
  IF n + i >= MaxNext THEN n + i - MaxNext + 1 ELSE n + i
ProbeFromStart(n, i) == i   (* mutant: every call starts over              *)
Probe(n, i) == IF n + i > MaxNext THEN n + i - MaxNext ELSE n + i

(* The prefix with its last byte, or its last two, replaced by v.          *)
AddrByAdding(v) ==          (* mutant: one past the counter                *)
  prefix.base + v + 1
AddrOf(v) ==
  IF v < Radix THEN prefix.base - (prefix.base % Radix) + v
  ELSE prefix.base - (prefix.base % (Radix * Radix)) + v

Hits == {i \in 1..MaxNext : AddrOf(Probe(next, i)) \notin used}

Init ==
  /\ prefix \in Prefixes
  /\ next = 0
  /\ used = {}
  /\ got = None

Allocate ==
  /\ \E i \in Hits :
       /\ \A j \in Hits : i =< j
       /\ next' = Probe(next, i)
       /\ got' = AddrOf(Probe(next, i))
       /\ used' = used \cup {got'}
  /\ UNCHANGED prefix

Exhausted ==
  /\ Hits = {}
  /\ got' = None
  /\ next' = IF MaxNext = 0 THEN next ELSE Probe(next, MaxNext)
  /\ UNCHANGED <<prefix, used>>

(* Another policy is instantiated with a BSID of its own inside the pool,  *)
(* or an orphan is found there.                                            *)
Claim ==
  /\ \E a \in prefix.base .. prefix.base + prefix.size - 1 :
       used' = used \cup {a}
  /\ UNCHANGED <<prefix, next, got>>

Release ==
  /\ \E a \in used : used' = used \ {a}
  /\ UNCHANGED <<prefix, next, got>>

Next == Allocate \/ Exhausted \/ Claim \/ Release

Spec == Init /\ [][Next]_vars

-----------------------------------------------------------------------------
(* The types, and the range of the counter.                                *)
TypeOK ==
  /\ prefix \in Prefixes
  /\ next \in 0..MaxNext
  /\ used \subseteq Nat
  /\ got \in Nat \cup {None}

(* Every address handed out is in the prefix the operator gave             *)
(* (bsidpool.go: the host part of the prefix is handed out in sequence).   *)
InPrefix ==
  got # None => got \in prefix.base .. prefix.base + prefix.size - 1

(* The pool reports exhaustion only when every address of the host part    *)
(* that a counter reaches is taken, wherever the scan began.               *)
NothingMissed ==
  [][Exhausted => prefix.base + 1 .. prefix.base + MaxNext \subseteq used]_vars

(* An address is not handed out twice in a row while another is free, so   *)
(* a BSID just given back is the last to be given away again.              *)
RoundRobin ==
  [][Allocate /\ got' = got =>
       prefix.base + 1 .. prefix.base + MaxNext \subseteq used \cup {got}]_vars

=============================================================================
