------------------------------ MODULE PortSpec ------------------------------
(***************************************************************************)
(* What the dataplane adapter promises the reconciler: a call takes effect *)
(* in one step, its answer, and comes to an outcome of ProgrammerPort.     *)
(***************************************************************************)
EXTENDS ProgrammerPort

CONSTANT
  Calls        (* records [op, key, old, path]                             *)

VARIABLES
  request,     (* the call that waits for its answer, or NoCall            *)
  nil          (* the last answer was nil, not an error                    *)

NoCall == [op |-> "none"]

Outcomes(c) ==
  CASE c.op = "Add" -> Add(dp, c.key, c.path)
    [] c.op = "Replace" -> Replace(dp, c.key, [bsid |-> c.old], c.path)
    [] c.op = "Remove" -> Remove(dp, c.key, [bsid |-> c.old])
    [] c.op = "RemoveBSID" -> RemoveBSID(dp, c.old)
    [] c.op = "InstallDrop" -> InstallDrop(dp, c.key)
    [] c.op = "RemoveDrop" -> RemoveDrop(dp, c.key)

Invoke(c) ==
  /\ request = NoCall
  /\ request' = c
  /\ UNCHANGED <<dp, nil>>

Respond ==
  /\ request # NoCall
  /\ request' = NoCall
  /\ [dp |-> dp', ok |-> nil'] \in Outcomes(request)

Init == dp = EmptyDataplane /\ request = NoCall /\ nil = TRUE

Next == (\E c \in Calls : Invoke(c)) \/ Respond

Spec == Init /\ [][Next]_<<dp, request, nil>>

=============================================================================
