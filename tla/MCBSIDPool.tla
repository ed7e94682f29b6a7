----------------------------- MODULE MCBSIDPool -----------------------------
(***************************************************************************)
(* Bytes of two bits.  Prefixes that end on a byte or have zero bytes      *)
(* there, and prefixes with network bits in the last byte.                 *)
(***************************************************************************)
EXTENDS BSIDPool

MCAligned == {[base |-> 64, size |-> s] : s \in {1, 2, 4, 8}}
MCUnaligned == {[base |-> 66, size |-> 2], [base |-> 72, size |-> 8]}

=============================================================================
