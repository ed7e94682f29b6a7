# A formal model of safi73-vppd

`safi73-vppd` subscribes to the SR Policy routes (SAFI 73) of a gobgpd,
keeps the candidate paths of every SR Policy `<color, endpoint>`, selects the
active one by RFC 9256 and programs it into VPP through the binary API. This
directory models the part of it that decides and remembers, checks the model
with TLC on small instances and proves with TLAPS, for every instance, the
safety properties that the runs check, except three about the wire. Line
numbers are those of `src/`.

## 1. The system

```
gobgpd --WatchEvent--> bgp.Source --apply/synced--> control.Reconciler --ports--> vpp.Programmer --> VPP
                                                      |  timer: revalidateAll
                                                      |  srpolicy.SelectActive, bsidPool, PolicyTransform (usid)
```

| Component | State | Operations | What makes it correct |
|---|---|---|---|
| `srpolicy` | none | `Valid`, `ValidSegmentLists`, `SelectActive` | the choice is that of RFC 9256 2.9, independent of the order of the paths, and does not flap |
| `control.Reconciler` | candidate paths with their generation, installed path, dynamic BSID and drop flag per policy; owners of BSIDs; dynamic BSIDs in use; orphans; generation | `Run`, `apply`, `synced`, the revalidation | one owner per BSID, no leaked dynamic BSID, what it believes up is up, stale paths and leftover policies go and nothing else does, failures are tried again |
| `control.bsidPool` | counter | `alloc` | inside the prefix, finds a free address when there is one |
| `vpp.Programmer` | none of its own; the SR policies, steerings and drop routes of VPP | `Add`, `Replace`, `Remove`, `InstalledBSIDs`, `RemoveBSID`, `InstallDrop`, `RemoveDrop`, `SIDReachable` | make before break, roll-back, an in-place update that never empties a policy |
| `bgp.Source` | the stream, the local BGP identifier, a timer and a `sync.Once` per subscription | `Subscribe` | `synced` once per subscription, after its initial dump or after 5 s |
| `bgp` decode | none | `decodePath` | reception rules of RFC 9830 |
| `usid` | none | `Compact`, `Compactor.Apply` | same path, fewer SIDs |
| `cmd/safi73-vppd` | none | start, resubscribe 3 s after the stream breaks | |

**Interaction.** `Reconciler.Run` raises the generation, dumps VPP's policies,
starts the revalidation timer and then blocks in `Subscribe`, which calls
`apply` for each path and `synced` once. `apply`, `synced` and
`revalidateAll` run in up to three goroutines (stream, fallback timer, ticker)
and hold `r.mu` throughout; each calls the programmer synchronously, which
sends several VPP requests one after the other. The candidate paths survive a
broken stream; nothing survives the process but what is in VPP.

**What is hard.** Several requests per call, each of which may be refused,
with the reconciler's idea of the outcome deciding about the next call; BSIDs
that several policies and the pool compete for; a late `synced` of an old
subscription; collection of policies that are unknown after a restart but may
be announced any moment; the drop route and the steering that must not exist
together; map iteration in arbitrary order. `PROJECT.json` lists these hazards
line by line with the property that watches each one.

## 2. The modules

| Module | Models | Code |
|---|---|---|
| `SRPolicy` | types, validity and preference of candidate paths | `srpolicy/policy.go`, `selection.go:24-41` |
| `Selection` | the loop of `SelectActive`, over paths in any order | `selection.go:8-20` |
| `BSIDPool` | `alloc`, with addresses given and taken around it | `control/bsidpool.go` |
| `ProgrammerPort` | each port call as a set of outcomes `[dp, ok]` | `adapter/vpp/programmer.go` |
| `PortSpec` | the port as a machine: a call is made, takes effect in one step, is answered | `control/ports.go` |
| `Programmer` | the port calls request by request, with refusals, lost replies and crashes | `adapter/vpp/programmer.go` |
| `Reconciler` | the reconciler, its subscriptions and its environment | `control/reconciler.go`, `bgp/source.go:64-116`, `main.go:125-144` |
| `Decode` | a path of gobgp becomes the update of a candidate path | `bgp/decode.go` |
| `Subscription` | RIB, stream, source, timer and the table that follows them | `bgp/source.go`, `reconciler.go` (`apply`, `synced`), `main.go` |
| `USID` | packing of uSIDs into carriers, byte by byte | `usid/usid.go`, `usid/transform.go` |
| `Wire` | `Size`, `Marshal`, `Unmarshal` of a message, from the types of its fields | `binapi` |
| `WireTypes`, `WireSR`, `WireIP` | the fields of every message of `sr` and `ip` | `binapi/*_types`, `binapi/sr`, `binapi/ip` |
| `Requests` | what the adapter puts into its requests and reads from a dump | `adapter/vpp/programmer.go` |
| `ReconcilerProps`, `ProgrammerProps`, `SubscriptionProps`, `DecodeProps`, `USIDProps`, `WireProps` | the properties of the modules of that name | |
| `MCSelection`, `MCReconciler`, `MCBSIDPool`, `MCProgrammer`, `MCSubscription` | constants of the runs | |
| `SelectionProofs`, `BSIDPoolProofs`, `ReconcilerProofs`, `ProgrammerProofs`, `AdapterProofs`, `SubscriptionProofs`, `USIDProofs` | theorems | |
| `FoldProofs` | induction on folds, for the proofs about loops | |

How they fit together:

```
Selection --LoopCorrect--> SRPolicy <-- Decode <-- Subscription
                              ^
Programmer --ImplementsPort--> PortSpec --> ProgrammerPort <-- Reconciler
     ^ a list in VPP is the list that was sent: ListsComeBack
Requests --> WireSR, WireIP --> Wire            USID: Compacted, applied before the reconciler sees a path
```

`Reconciler` extends `ProgrammerPort`, which extends `SRPolicy`; what
`Selection` computes step by step is the operator `SelectActive` of `SRPolicy`
(`LoopCorrect` proves it), which `Reconciler` uses. Each boundary at which the
reconciler's model abstracts is the subject of a module below it: calls that
are one step (`Programmer`), candidate paths that come and go with a
generation (`Subscription`), requests that carry what they are given (`Wire`).
Operators marked "mutant" stand before the definition they alter; they are not
part of the model and show that each property can be violated.

### Reconciler

`policies` is `r.policies` with `NewPolicy` for an absent key; `bsidOwner`,
`dynUsed`, `orphans`, `gen` are the fields of that name. `installed` stands for
`activeKey` as well, its key; where `hasActive` is false nothing reads either.
`task` and `todo` are the loop that holds the mutex and what is left of it,
`sub` says that `Subscribe` runs, `unsynced` which subscriptions may still call
`synced`, `reach` what VPP's FIB resolves, `dp` what VPP holds.

A handler reads and writes the state of one policy and the tables. The model
passes a record of these through operators that follow the code piece by piece
and returns the set of records it may end with: `Reconcile` is
`ensureDynBSID` (`Bound`), the filter (`Candidates`), the selection (`Best`)
and the branches `TakeDown`, `Switch`, `BringUp`; `Settle` is `reconcile` and
then `cleanupIfGone`, which every handler calls in that order.

| Action | Code |
|---|---|
| `Run` | 143-162, with `refreshOrphans` |
| `Announce`, `Withdraw` | `apply` (a treat-as-withdraw is a withdrawal) |
| `SyncedStart`, `Sweep`, `SweepDone`, `CollectOrphan`, `CollectDone` | `synced`, one step per policy and per orphan |
| `RevalidateStart`, `RevalidateNext`, `RevalidateDone` | `revalidateLocked`, from the ticker or at the end of `synced` |
| `Disconnect` | `Recv` fails and `Subscribe` returns |
| `FibChange`, `Restart`, `Calm` | the environment |

Choices that need an argument:

- *Grain.* All handlers hold `r.mu`, so `apply` is one step. The loops of
  `synced` and of the revalidation are split into iterations, because FIB and
  failures change between them. The dump at the start of `Run` is one step for
  the same reason.
- *Lookups.* Each `reconcile` asks for a SID once and caches the answer; a
  snapshot of the FIB per `reconcile` gives the same sets of answers as
  lookups at different moments, because one `FibChange` flips one SID.
- *Priority order.* `RevalidateNext` compares priorities when it picks a
  policy. The code sorts before the loop; `reconcile` changes no candidate
  path of another policy, so both orders agree.
- *Late calls.* A tick that waits for the mutex while the stream breaks does
  what one just before the break would do. A late `synced` is different, as it
  reads `r.gen` when it runs: `unsynced` keeps it across `Disconnect`, also
  into the next subscription.
- *Failures.* A port call yields every dataplane that a refused request at any
  of its points leaves behind. A crash in the middle of a call is such a
  failure followed by `Restart`.
- *Lost replies.* With `Unacked` a request may also be carried out and reported
  as failed. The runs of the reconciler have it off, because the code believes
  the failure (`programmer.go:427`); `programmer` has it on, and the theorems
  of `ReconcilerProofs` hold either way.
- *Data.* SIDs and BSIDs are model values that say what `netip` says of them;
  segment lists of a path are a set (`sameInstall` also sees their order
  and number, which costs the code a replacement with no effect); colors and endpoints are
  in `Key` and `EndpointOf`; paths are as `PolicyTransform` leaves them; a pool
  is a set of addresses, any free one of which may come (`BSIDPool` has the
  order).

### BSIDPool

An address is the number of its low bytes in base `Radix`; `Probe` is the
counter with its wrap, `AddrOf` the bytes overwritten by it. `Claim` and
`Release` are what `used` of `ensureDynBSID` sees changing between calls.

### Programmer and PortSpec

`pc` is the request that is sent next. The points are those of the code:
`policyAdd`, `policyAddAgain`, `replaceExisting`, `install`, `rollback` are
`installPolicy`; `dump`, `update`, `prune` are `updateInPlace`; `steer`,
`resteerDel`, `resteer` are `steerTo`; `supersede`, `unsteer`, `delete` the end
of `Replace` and `Remove`; `drop` and `undrop` the drop route. `adds` and
`stale` are what is left of the two loops: positions of the wanted lists and
indexes of lists in VPP. VPP is external. It holds segment lists by index, may
hold equal ones, gives a new list an unused index, and drops a policy that
loses its last list.

`Ask` says what becomes of a request: done and acknowledged, refused, not
delivered, or done with the reply lost. `trouble` counts these, because a
second failure during a call may hit the very request that undoes the first.
`Crash` ends a call anywhere.

`ImplementsPort` is the refinement `PortSpec` with `dp` the dataplane *as the
call found it* until the call returns, and as it is from then on. The
reconciler holds its mutex during a call, so it never sees anything between.
Lists become a set there, as `ProgrammerPort` has them. Where requests can be
refused the refinement needs `Unacked`: a crash after the last request of a
call leaves all of its work and no answer, and where a path repeats a list a
refused request may leave a policy that, as a set, is complete; the port
without lost replies would allow neither. `RefinesPort` (section 4) proves the
refinement under that hypothesis.

One thing TLC found here is in the definition of `AfterInstall`: when the
dump of an in-place update finds no policy, the code installs it anew and
returns without `steerTo` and without deleting anything.

### Subscription and Decode

`rib` is what gobgpd believes, `stream` what it has sent, `rest` the paths of
the response in hand, `table` the candidate paths of the reconciler with their
generation. `Subscribe` is `Reconciler.Run` together with the setup of
`Source.Subscribe`: the generation is raised, the timer starts, and the first
response holds all best paths, if there are any. `Handled` is `fireSynced`
after a response, `Fallback` the timer on its own goroutine; `unsynced` plays
`sync.Once`, and as `timer.Stop` does not wait, it survives `Break`.

`Decode` is a pure function of a path and the local identifier. Attributes,
sub-TLVs and segments are records with a tag; `Bind`, `ReadSubTLV` and
`AddSegment` are the bodies of the loops. `Eligible` in the properties states
the rule of RFC 9830 4.2 without the helper functions of the code. `Mirror`
shares the rest of decoding with the system: it is about eligibility, order and
generations, and `BindingSIDRule` and `SegmentListRule` about the content.

### USID

An address is its bytes. `Pack` is the body of the loop of `Compact` with its
`flush`; `Compacted` is `Compactor.Apply` on one list, with its verify mask.
`Route` in the properties is where a packet goes: the uSIDs of each address
that is a carrier, one by one, and any other address as a whole.

### Wire and Requests

The bindings spell out three functions for each message. What they do follows
from the types of its fields, so a message is the sequence of these types and
`Size`, `Marshal` and `Unmarshal` are defined once; the encoders of single
values belong to govpp and are external. The layouts of all 127 messages are
in the order in which the code writes the fields. `Written` is the one place
where the code writes something other than the field: the count of a vector
is its length. Fixed slices (`LowPorts`, `IPPacketData`) and texts are cut or
padded.

`Requests` has what Go code makes of its arguments (`sidList`, v1 or v2,
`steerReq`, `dropRoute`) and what `dumpSegmentLists` makes of a dump. The order
of the requests is in `Programmer`.

## 3. The runs

| Run | Instance | Checks | Shows |
|---|---|---|---|
| `selection` | sets of up to 3 of 15 paths: 2 preferences, 2 origins, 2 originators, 3 discriminators, 3 ways of being invalid or unset | `TypeOK`, `BestSoFar`, `OrderIndependent`, `CurrentIsKept` | the loop computes the preference order whatever the map iteration |
| `core` | 2 policies, 1 of them not steered, 2 BSIDs, 1 of them the pool; refusals at every request, restarts at every step, orphan collection | `TypeOK`, `OwnerExact`, `OrphansUnclaimed`, `DynExact`, `ActiveInDataplane`, `DropEngaged`, `DynStable` | the tables agree, and belief agrees with dataplane, through any failure |
| `sync` | 2 policies, 2 subscriptions, changing FIB, leftovers, I-Flags, revalidation; a VPP that answers | `EndpointSteered`, `DropExclusive`, `NoGhosts`, `ResyncExact`, `FailClosed`, `DropUponInvalid` | dataplane is intent, through reconnections and late `synced` calls |
| `converge` | 2 policies that compete for a BSID, refusals and FIB changes until `Calm` | `Convergence` | what failed is tried again, what was freed is taken up |
| `bsid_pool` | radix 4, prefixes of 1, 2, 4 and 8 addresses, with no network bit set in the bytes the counter overwrites | `TypeOK`, `InPrefix`, `NothingMissed`, `RoundRobin` | bounded scan and wrap |
| `programmer` | 2 policies, 1 of them steered, 2 BSIDs, 4 paths; refusals, lost replies, crashes. Lists of up to 4 of 8 addresses; 127 messages with 5 samples each; 5 endpoints, 3 sets of options | `TypeOK`, `HitlessUpdate`, `SteeredToPolicy`, `ExactLists`, `NoHalfPolicy`, `ImplementsPort`; `SameRoute`, `FewestCarriers`, `ValidityKept`; `MessagesComeBack`, `ListsComeBack`, `EndpointsComeBack` | calls keep the traffic and are atomic to the reconciler; packing keeps the route; nothing is lost on the wire |
| `subscription` | 2 NLRI, one of them with two versions, 3 subscriptions, 2 responses on the way. Sequences of up to 3 of 8 sub-TLVs or 5 segments | `TypeOK`, `Mirror`, `KeptIfDumped`, `Converges`; `BindingSIDRule`, `SegmentListRule` | the candidate paths are the usable routes of the RIB; decoding follows the RFC |

Five runs expect a violation; each is a finding (section 5).

**Two questions in one run.** `MCProgrammer` and `MCSubscription` run a *sum* of
machines: from the initial state either the system moves, or a list, a
sequence of sub-TLVs, a message or an endpoint is tried, and while one is
tried nothing else moves. The parts share no step, so each property is checked
as it would be alone. The functions are thereby checked over all their inputs
up to the bound and not over a few examples.

**Bounds.** Two policies are what ownership, the shared pool and order of
revalidation need; a third only adds another competitor for the same table
entry, and the theorems cover any number. Two BSIDs make every conflict
possible (explicit against explicit, explicit against pool, exhausted pool).
Two discriminators give failover. Two subscriptions (`MaxGen`) are what a late
`synced` needs; `MaxGen` only bounds `Run` and `Disconnect`. A radix of 4 has
the carries of 256. `core` has one generation, so that a dump fails while
orphans of an earlier subscription are left is not in its states; `OrphanGCSafe`
proves `OrphansUnclaimed` for any number. In `core` one SID per list suffices, since VPP's outcomes
depend on how many lists there are: one policy has two lists, and an in-place
update to a third that shares none with them.

In `programmer` the paths have overlapping lists, a list that is there twice
and an invalid one, so an update keeps, adds and deletes lists and must match
one to one. Addresses have six bytes: one of the block, two uSIDs of two, one
left over, so a carrier may be full, half full, have a gap or a remainder. A
list of four is over the limit of two before packing and within it after. In
`subscription`, `MaxGen` is 3, since a late `synced` of the first subscription
may meet the second while the third starts, and `MaxStream` 2, since a change
may overtake nothing but follow the dump. Bytes have 64 values in `Wire`, more
than the largest constant a request puts into one; a vector of 65 wraps its
count of one byte and not one of four bytes. TLC's integers have 32 bits, so
eight-byte fields are tried in their lower half.

**Fairness.** `FairSpec` of `Reconciler` (`converge`, `flag`, `repair`): weak
fairness of `Run` (main loops and subscribes again after its pause), of
`Synced` (the first response or the 5 s timer), of `RevalidateStart` (the
ticker; without `-revalidate` it is never enabled) and of `Iterate` (a goroutine
that holds the mutex goes on). Nothing is assumed about announcements,
withdrawals, the FIB, disconnections or restarts. `Convergence` needs
`-revalidate`: without it a failed call waits for the next BGP event.
`Fairness` of `Subscription`: weak fairness of the receiving goroutine, of a
timer that was not stopped, and of `Subscribe` (main tries again after 3 s).
Nothing is assumed about gobgpd; `calm` is a hypothesis of `Converges` and
never forced.

`CHECK_DEADLOCK FALSE` stands in `selection`, where the call returns and the
behaviour ends, in `subscription`, where a calm RIB leaves nothing to do, and
in the runs that expect a violation.

**Why some properties need a VPP that answers.** `EndpointSteered` and
`DropExclusive` are broken by one refusal: `Remove` only logs a failed
`steerDel`, `RemoveDrop` takes any return value for success, and a refused
`steerTo` may leave no steering. The run `repair` shows the one of these that
a comment promises to be repaired. `NoHalfPolicy` speaks of one failure in a
call, because the roll-back is itself a request and a second failure may hit
it; the code logs that and goes on.

## 4. The proofs

All proofs are checked by `tlapm` from the named assumptions of the modules,
which TLC evaluates for the constants of the runs. `AddrAssumption`,
`PortAssumption`, `ReconcilerAssumption`, `UniverseAssumption`,
`PoolAssumption` and `SubscriptionAssumption` type the constants.
`RouteAssumption` says which fields a path of gobgp has, what its attributes
are, and that the RIB is finite, `EntryAssumption` that `NoEntry` is no entry.
`USIDAssumption` fits the block and the uSIDs into an address;
`TriedAssumption` and `TriedTLVAssumption` say that what is tried are addresses,
sub-TLVs and segments. `ProgrammerAssumption` adds that every path the
reconciler passes on has a valid list, which `SelectActive` sees to. What a
theorem needs beyond these is an ASSUME of its own.

| Theorems | For | Hypotheses beyond the types |
|---|---|---|
| `SelectionProofs` | `TypeOK`, `BestSoFar`, `OrderIndependent`, `CurrentIsKept` | |
| `BSIDPoolProofs` | `TypeOK`; `InPrefix`, `NothingMissed`, `RoundRobin` | none; `Aligned` |
| `ReconcilerProofs`: tables | `TypeOK`, `OwnerExact`, `OrphansUnclaimed`, `DynExact`, `DynStable`, `NoGhosts` | |
| `ReconcilerProofs`: dataplane | `ActiveInDataplane`; `DropEngaged` | `Replies`; also `Alone` |
| | `ResyncExact`, `FailClosed`; `EndpointSteered`; `DropExclusive`; `DropUponInvalid` | `Answers`; also `Alone`; also `Tidy`; also `SteadyFlag` |
| `ProgrammerProofs` | `TypeOK`, `HitlessUpdate`, `SteeredToPolicy` | |
| `AdapterProofs` | `ExactLists`, `NoHalfPolicy`; `ImplementsPort` | none; `Refusals => Unacked` |
| `SubscriptionProofs` | `BindingSIDRule`, `SegmentListRule`; `TypeOK`, `Mirror`, `KeptIfDumped` | none; `OneOfAKind` |
| `USIDProofs` | `SameRoute`, `FewestCarriers`, `ValidityKept` | |

### Selection, pool and tables

- `SelectionProofs`: the preference is asymmetric, transitive and, between
  paths of different discriminator, total. The loop invariant `BestSoFar`
  follows (`LoopCorrect`), and from it `OrderIndependent`
  (`SelectionDeterministic`) and `CurrentIsKept` (`NoFlapping`).
- `BSIDPoolProofs`: the counter stays in its range for any prefix. For prefixes
  whose host part fits the bytes that the counter overwrites (`Aligned`),
  addresses stay in the prefix, a scan that gives up has seen them all, and no
  address comes twice in a row while another is free. For the last one the
  invariant is `GotNext`: the counter is that of the last address given, so the
  scan gets to it last. The run `pool_unaligned` shows what happens otherwise.
- `ReconcilerProofs`: every outcome of a port call is a dataplane, and
  `TypeOK`, `OwnerExact`, `OrphansUnclaimed`, `DynExact` and `DynStable` hold for
  any set of policies, addresses, updates and options and for every failure,
  with or without lost replies.

The inductive invariant of the reconciler is `IInv == Tables /\ Control`. Two
conjuncts strengthen the properties. An active policy's BSID is an address of
`BSID`: `OwnerExact` speaks of those only, and disowning a BSID that is none
would leave the table as it is. Orphans have no owner:
`OrphansUnclaimed` follows with `OwnerExact`, and the conjunct is what `Run`
establishes and `Claim` keeps. The argument is about one handler:
`Sound(k, s)` says that the record `s` of a handler for policy `k` fits what
the *other* policies hold (`Fits`) and that `k` owns what it says
(`OwnsActive`). `ViewSound` obtains it from `Tables`; each piece of a handler
keeps it (`TouchSound`, `ClaimSound`, `DisownFits`, ...); `CommitTables` turns
it into `Tables'`. `Switch` passes through a record where `k` owns nothing
although it is active, which is why `Fits` and `OwnsActive` are separate.

### Memory and dataplane

The second part of `ReconcilerProofs` ties memory to dataplane, on top of
`IInv`:
`ActiveInDataplane` when no reply is lost (`Replies`), and `DropEngaged` when
moreover no two policies share an endpoint (`Alone`). Both hypotheses are
needed: after a lost reply to `sr_policy_del` the policy is taken for active
and is gone, and a drop route released for one color is released for the
others of its endpoint. First comes what each port call leaves alone: it
touches the policies of the BSIDs it is given only (`SamePolicies`), a failed
replacement leaves a list in the old policy, and a failed removal changes no
policy. `OthersStay` then uses `Fits`: a BSID that nobody else owns is no other
policy's, so nothing active goes. `Solid(k, s)` is the pair of properties for a
handler's record, kept by every piece of the handler. The collection of orphans
runs over many steps, so `DInv` adds that what it has left to delete is still
an orphan: no handler runs meanwhile, and the dump happens only with the loop
idle.

The third part proves the properties of `sync`. `NoGhosts` holds for any VPP. Its
invariant `GInv` says that no path is newer than the generation, that the
policies a sweep has passed are fresh, and that all of them are once it is
through (`Swept`); a late `synced` of an earlier subscription sweeps by the
present generation, so what it leaves is fresh as well.

The others need a VPP that answers (`Answers`): a single refusal breaks them
(section 3). The invariant `XInv` says that memory determines the dataplane:

- `Filled`: an active policy has the rendered lists of its installed path and
  no drop;
- `Known`: what is in VPP and has no owner is an orphan, so that `ResyncExact`
  follows once no orphans are left;
- `Pointed`: the endpoint of an active policy is steered to its BSID, if no
  two policies share one (`Alone`);
- `Barring` and `DropsAlone`: drop routes are those of dropped policies and no
  steering competes with them, if moreover no earlier life of the daemon left
  any (`Tidy`: no restarts and no such leftovers, since the code has no
  operation on what it does not remember);
- `Collected`: orphans left after the sweep are what is left of the loop.

`Alone` is needed because the code keeps steerings and drop routes by endpoint
and lets each color delete them; the run `colors` violates `EndpointSteered`
without it. `DropUponInvalid` needs `SteadyFlag`, that no announcement changes
the I-Flag of a path and nothing else; the run `flag` shows why. Its proof
traces the flag back (`Originated`): the installed path has the flag of some
announcement with its key, so it has that of its candidate path.

### The adapter

`ProgrammerProofs` proves, request by request, `TypeOK`, `HitlessUpdate` and
`SteeredToPolicy`, for any policies, paths and addresses, with refusals, lost
replies and crashes anywhere. The invariant is
`IInv == Typed /\ Control /\ Work /\ Hitless /\ MadeFirst`:

- `Typed` is the type of the dataplane with finite tables of lists (`Plane`); the
  finiteness is what a free index needs (`FreeIndex`).
- `Control` says which calls may be at which point, for example that
  `supersede` is reached by `Replace` with another BSID only.
- `Work` says that `adds` are positions of the wanted lists and `stale` indexes
  of the policy, and that neither is empty inside its loop.
- `Hitless` is what makes an update in place safe after its first half: while
  lists are deleted, at least one list stays that is *not* in `stale`. It holds
  because every wanted list was matched or has been added (`MatchedStays`),
  which rests on the least element of a set of indexes: of the lists of one
  kind the first is matched first. `HitlessUpdate` itself is not inductive,
  since a policy with one list may be about to lose it.
- `MadeFirst` says that until the steering has moved, the old policy is
  untouched and the endpoint steered to it, and from then on the new policy is
  there.

One lemma per action shows `Good == IInv' /\ HitlessStep /\ SteeredStep`. The
wanted lists of a path are a fold, the loop of `ValidSegmentLists`; that they
are a non-empty sequence of the path's valid lists and of nothing else is a
lemma (`WantedLists`), by induction on that loop.

`AdapterProofs` is about what a call comes to, on top of that invariant. It is
a matter of counting lists of a kind, as VPP may hold equal lists and the code
matches them one to one. `RankNumbers` says that the ranks of the elements of a
finite set of indexes are 1 to their number; so of `a` lists of a kind on one
side and `b` on the other `a - b`, or none, stay unmatched. With that the
dump of an in-place update establishes, and each addition and deletion keeps,
`Due`: for every kind, lists there and lists to add are as many as lists wanted
and lists to delete. When both loops are through, VPP has what is wanted.

`CallInv` describes a call at each of its points: how the dataplane differs
from the one it found and from what it is to become (`Place`), what the loops
have done (`Progress`), and what may have gone wrong so far (`Occasion`:
`trouble` counts failures). A step that ends the call ends it with an outcome
that is `Sealed`: nil means exact lists, one failure leaves no half policy, and
the dataplane and the answer are an outcome of `ProgrammerPort`. A daemon may
die at every point, so `MayStop` shows the last of these at each of them. This
is the whole of the refinement: `ImplementsPort` follows because a call changes
nothing for the port until it returns.

### The subscription

`SubscriptionProofs` proves that the table follows the RIB. `SInv` adds to the
types two conjuncts. `Followed`: while a subscription is up, the last word on
the way about an NLRI, in the response in hand or in the stream, says what the
RIB says; if nothing is on the way, the table agrees with the RIB, or holds an
entry of an older generation for a route that neither the dump nor the RIB has
and no sweep has met. `NoLeftover`: after a sweep all entries are of this
generation. `Mirror` and `KeptIfDumped` follow.

`OneOfAKind` is RFC 4271 section 5: a path with two attributes of a kind is
malformed, and the code, which takes the last, and the rule, which asks for
any, would not mean the same one. `MCSubscription` has TLC evaluate it for the
routes of the run. That `decodePath` makes a candidate path of what arrives is a
lemma (`WellDecoded`), and that the table takes it as the rule means it another
(`HandledAsMeant`). `Eligible` has to pass over a route target that names no node, as
`bgp/decode.go` does; the proof found that.

### Loops over sequences

`Compact`, `collectAttrs`, `decodeTunnelEncap`, `decodeSegmentList` and
`ValidSegmentLists` are loops over a slice, and folds in the model. What a fold
of the community modules computes is defined by recursion over a set of
indexes, and the library's induction theorems take a predicate, which the
provers cannot instantiate. `FoldProofs` therefore states induction for *sets*
(`Induction`, `InductionUpTo`: from the least counterexample, by `WFMin`) and
shows that a fold is a sequence of steps: there is a function `g` on `0..n` with
`g[0]` the start and `g[i]` what the body makes of `g[i - 1]` and the `i`-th
element (`FoldSteps`). A loop is then proved the way one proves a loop: an
invariant that speaks of `g[i]` and the first `i` elements.

*Packing.* `USIDProofs` has, for lists of any length and any division of an
address into block and uSIDs:

- `Loaded`: the carrier being filled is zero, or holds `count` uSIDs of the
  block and nothing behind them. Here is the work on bytes: filling a slot
  leaves the earlier ones as they were (`FilledCarrier`), and how many uSIDs a
  carrier has is determined by its bytes (`OneCount`), since a zero uSID ends it.
- `RouteSoFar`: the route through what has been written and what is loaded is
  the route through the addresses read.
- `LoopInv`: a carrier was begun where a run of single uSIDs begins or the one
  before was full, and nowhere else; the number in the carrier is the place in
  the run; an address that is no SID has been passed through.

`SameRoute` and `FewestCarriers` are these at the end of the loop;
`ValidityKept` follows from `LoopInv` with the limit on the length.

*Decoding.* The first part of `SubscriptionProofs` has, for any number of
attributes, sub-TLVs and segments in any order: a segment list after `i`
segments holds the SIDs read so far in their order, and the verify mask has the
places at which they stand, not those at which they were read (`HoldsSIDs`,
`PlaceOf`); the binding SID after `i` sub-TLVs is the first readable one of
type 20 among them, or else the first of type 13 (`BindingSoFar`); and of
attributes of a kind the last counts (`LastAmong`).

`PackingSpec` and `DecodingSpec` are the machines that try lists, one element
after the other; the theorems are about lists of every length, TLC about those
up to `MaxTried` and `MaxSubTLVs`.

### Only model-checked

- Liveness: `Convergence` and `Converges`; the prover has no rules for fairness.
- The round trips of messages (`EndpointsComeBack`, `ListsComeBack`,
  `MessagesComeBack`): `Marshal` and `Unmarshal` recur over the types of fields,
  which hold types themselves, as RECURSIVE operators, and the prover has no
  arithmetic where there are such. The messages are fixed and few, and TLC tries each of
  them with the extremes of every field.

## 5. Where code and documents disagree

| Run | What |
|---|---|
| `flag` | an announcement that only sets the I-Flag is ignored as "no change" (`reconciler.go:489`), so the policy falls open later, against README.md:169-171 |
| `colors` | `Remove` deletes the endpoint's steering even when it points to the policy of another color (`programmer.go:100-103`) |
| `repair` | a steering lost in a failed replacement is never repaired, since the reconciler assumes that the old path still works (`reconciler.go:497`) |
| `ipv4_bsid` | with a pool, a path with an IPv4 BSID is bound dynamically instead of being invalid (`reconciler.go:445`, `policy.go:138`) |
| `pool_unaligned` | a host part that starts within a byte makes `alloc` leave the prefix (`bsidpool.go:32-35`) |

**The I-Flag.** The repository says two things about it. `policy.go:120-121` and
README.md:130 say that it is unsupported, "detected and logged only" (検出して
ログのみ, 警告ログのみ). README.md:169-174 says that the steering of a policy that
becomes invalid is replaced by a drop route, and that is what the code does
(`reconciler.go:483-484`, `programmer.go:134-145`). `DropUponInvalid`, which `sync`
checks, follows the latter; every behaviour in which it has something to say, and
`DropEngaged`, `DropExclusive` and `FailClosed` with it, contradicts the former.
The comment and README.md:130 are what should be changed. Only where
steering is impossible (`-steer=false`, the null endpoint; `Steerable` in the
model) or the drop route is refused does the flag come to a warning.

Also observed, and not a run: `usid/transform.go:19-21` says that the first SID
of a packed list is still verified; packing collapses the mask to that SID, so a
later SID whose V-Flag was set is not looked up any more. The code says so and
does so. `decode.go:154-155` and README.md:128 say that of a repeated sub-TLV
the first instance counts; an SRv6 binding SID too short to be read
(`decode.go:209-212`) does not count as one, so a second one, or one of type 13,
gives the BSID. `BindingSIDRule` speaks of the first that can be read. And when
the dump takes longer than 5 s, the fallback (`source.go:22`) sweeps paths that the dump is about to confirm: they go down and come back.
`Mirror` and `Converges` hold all the same, and `KeptIfDumped` is stated for
the time after the dump.

## 6. Not modelled

- `binapi`: the messages of `interface`, `memclnt` and `vpe`, which the daemon
  does not send; the generated clients (`*_rpc.ba.go`), which it does not use;
  `String` and the parsing of text forms. They hold no state and take part in
  no decision.
- `conn.go`: one connection, opened and closed. What a lost connection does to
  a request is a reply that does not come, which `Ask` has.
- `cmd/inject-srpolicy`, `cmd/smoke`: test clients, sequential and stateless.
- flag parsing of `cmd/safi73-vppd`: it fixes the constants of the modules.
- `Valid` of addresses and the protobuf accessors: data, see `Decode`.
- VPP and gobgpd are external and do what the code expects of them. An empty
  VPP while the daemon lives is outside: the code has no operation that would
  notice.
- Drop routes and steerings left behind by an earlier start are in the model,
  but the code has no operation on them.

What could still be proved: that `Reconciler` and `Subscription`, which both
model `apply` and `synced`, keep their candidate paths in the same way, as
refinements of one table with generations; and the round trip of one integer
and one text, if the codec stood in a module without recursive operators.
