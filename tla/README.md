# go-nat in TLA+

TLA+ models of `github.com/netbirdio/go-nat`, a Go library that finds the NAT
gateway of a network (UPnP, NAT-PMP, PCP) and opens port mappings and IPv6
pinholes on it. TLC checks the models on small instances; TLAPS proves their
safety properties, and that the three kinds of gateway implement one abstract
specification, for every value of the constants.

## 1. The system

| part | code | state | operations | talks to |
|---|---|---|---|---|
| PCP client | `pcp/client.go` | `nonces`, `mappingLocks`, cached addresses | `AddPortMapping`, `DeletePortMapping`, `GetExternalAddress`, `Announce` | a PCP server, over UDP |
| epoch tracking | `pcp/client.go:298-343` | `lastEpoch`, `epochTime`, `epochStateLost` | `updateEpochLocked`, `EpochStateLost`, `LastEpoch` | called by every successful exchange |
| PCP gateway (dual stack) | `pcp/nat.go` | two clients, `pinholeErr` | `AddPortMapping`, `DeletePortMapping`, `CheckServerHealth`, `IPv6PinholeError` | one PCP client per family |
| IPv4 NAT with PCPv6 | `pcp_ipv6.go` | any `NAT`, a client, `pinholeErr` | the same four | any NAT, and a PCP client |
| merge | `nat.go:78-112` | goroutines, channels, a `WaitGroup` | `mergeNATs` | reads the sources, feeds one channel |
| discovery sources | `upnp.go:80-241, 347-383`, `natpmp.go:15-51`, `pcp.go` | a goroutine and a channel each | search, publish, close | devices; the merge or the selection |
| gateway selection | `nat.go:114-220` | `gatewaySelection`, channel variables | `DiscoverGateway`, `selectGateway` | two PCP probes and the merge |
| UPnP mapping cache | `upnp.go:454-571` | `ports`, `mu` | `AddPortMapping`, `DeletePortMapping` | a device, over SOAP |
| NAT-PMP cache | `natpmp.go:53-128` | `ports` (no lock) | `AddPortMapping`, `DeletePortMapping` | a gateway, over UDP |
| UPnP unicast search | `upnp.go:243-345, 385-445` | the locations tried | search, filter by address, rank services | devices |
| wire format | `pcp/protocol.go` | none | build and parse | the PCP client |
| routing lookup | `gateway.go`, `pcp/gateway_discoverer.go` | none | ask the operating system | discovery |

`DiscoverGateway` starts two PCP probes and the merged fallback sources, and
returns one `NAT`: PCP, or UPnP or NAT-PMP, wrapped in `natWithPCPIPv6` if a
PCPv6 server was found. From then on the program calls the `NAT`, from any
number of goroutines.

What is hard, part by part, and what makes it correct:

* **PCP client.** The server identifies a mapping by the nonce it was created
  with, so the client must know that nonce whenever the server may hold the
  mapping: while calls of several goroutines for the same key wait for each
  other, while datagrams are lost, late, or repeated by a retransmission, and
  after a call was cancelled between sending and answering. Exchanges for one
  mapping must not overlap; no mapping may be stranded; a mapping reported as
  created must stay; a delete reported as done must be done; every call returns.
* **Epochs.** uint32 seconds, quantized, stamped by one clock and judged by
  another: no false alarm, no restart missed.
* **Dual stack.** Two exchanges of which either may fail; a rollback; an error
  variable and two flags shared by all calls. A failed call must not leave its
  pinhole open silently, the stored error must be true, and a restart must be
  reported once it is known.
* **Merge and selection.** Goroutines that must all end whoever stops reading,
  a channel closed by the last of them, `select` statements that choose at
  random between a result and a deadline, and nil channels: preference of PCP,
  no false "not found", return and no leak.
* **UPnP search.** Several answers to several targets, with URLs of other
  hosts among them, services in any order: none of the gateway's own may be
  overlooked or fetched twice, and the best service that works must win.
* **UPnP and NAT-PMP caches.** A lost answer after the device acted; stale
  cached ports; concurrent callers, with a mutex (UPnP) or without (NAT-PMP):
  a mapping must stay where the cache can find it, and the port reported must
  be the one mapped.
* **All of them are `NAT`s** (`nat.go:36-39`). The interface's promise is the
  same for the three: a create that succeeds has mapped, a delete has removed,
  and nothing that a failed or cancelled call asked for comes through later.

The `hazards` of `PROJECT.json` list these at their lines with the properties
that cover them.

## 2. The modules

| module | models | uses |
|---|---|---|
| `MappingPromise` | the promise of the `NAT` interface, abstractly | |
| `PCPClient` | mappings, retransmission, address probe | implements `MappingPromise` |
| `MCPCPClient` | its symmetry, for TLC | `PCPClient` |
| `PCPClientProofs` | proofs of its properties | `PCPClient` |
| `PCPPromiseProofs` | proof that it implements the promise | `PCPClientProofs`, `MappingPromise` |
| `PCPEpoch`, `MCPCPEpoch` | epochs and state loss | |
| `PCPEpochProofs` | proofs | `PCPEpoch` |
| `MergeNATs` | sources and merge | |
| `GatewaySelection` | probes and selection, composed with the merge | `MergeNATs` |
| `DiscoveryProofs` | proofs of both | `GatewaySelection` |
| `DualStack` | `DiscoverPCP` and both dual-stack gateways, over an abstract PCP client | |
| `DualStackProofs` | proofs | `DualStack` |
| `UnicastSearch` | the search of one UPnP goroutine | |
| `UPnPMapping` | the UPnP cache and the device | implements `MappingPromise` |
| `UPnPGateway` | the life of a UPnP gateway object: found, used, replaced | `UnicastSearch`, `UPnPMapping` |
| `UPnPProofs` | proofs about the cache and about the search | `UPnPGateway` |
| `UPnPPromiseProofs` | proof that it implements the promise | `UPnPProofs`, `MappingPromise` |
| `NATPMPMapping` | the NAT-PMP cache and the gateway | implements `MappingPromise` |
| `NATPMPProofs` | proofs of its properties and of the promise | `NATPMPMapping` |

A definition whose name ends in `Mutant` is part of no specification. It is a
plausible bug of the definition after it; putting it in that definition's place
must make a property fail.

### MappingPromise

The abstract specification of `AddPortMapping` and `DeletePortMapping`. It
knows what each caller waits to be told (`pending`), what may still be carried
out on each mapping (`asked`), which mappings there are (`mapped`) or the
gateway dropped (`gone`), and of which the object may have lost track
(`doubted`). `Succeeds` is the promise: the mapping is there (or gone), and
nothing but what other callers ask for now can be carried out on it any more.
`Fails` promises nothing; `CarriesOut` is the gateway doing what was asked, at
any moment and repeatedly.

Success is not a variable, so an implementation has to say which of its steps
are successes: `KeepsPromise` in each implementing module is the refinement
(`Promise!Spec`, with `Promise` an `INSTANCE ... WITH`) and the action property
that every successful return is a step of `Promise!Succeeds`. Without the second
part a wrong success could hide behind a `Fails`. How much of the promise is
kept differs:

| implementation | `asked` maps to | `doubted` maps to |
|---|---|---|
| `PCPClient` | pending calls, and datagrams of this process on their way | nothing: the whole promise is kept |
| `UPnPMapping` | pending calls, and requests at the device | mappings whose create was never answered, or replaced while the device still had it, or that took another key's cached port |
| `NATPMPMapping` | pending calls | mappings that a delete was reported for: the code only forgets them |

### PCPClient

A caller's `pc` is its place in the code: waiting in `lockMapping`, about to
send, waiting for an answer, waiting for the retry timer. `Acquire` is the
section under `c.mu` after the lock: choose the nonce, store it *before*
anything is sent. `SendAttempt`, `AttemptFails` and `RetryTimer` are
`sendRequest` and `sendOnce`: a new socket per attempt, `MaxRetries` attempts.
`Refused`, `Garbled` and `CtxDone` are the error returns, `Complete` the success:
cache the address, forget the nonce of a delete, and for `GetExternalAddress`
go on with the delete of the probe. Callers hold one key's lock at a time.

The network keeps requests in a sequence, may lose or duplicate any, and
delivers them in order or, if `Reordering`, in any order. Answers go to the open
socket. A mapping remembers the nonce it was created with. What becomes of
a delete with another nonce, the code says twice and differently: at
`client.go:204-206` (and in `fakePCPServer` of `client_test.go`, and RFC 6887
section 11.3) the server answers NOT_AUTHORIZED; at `client.go:257-261` it treats
the request as a no-op on a mapping that does not exist, which by
`client.go:254-255` succeeds. The model's server may do either
(`ServerRefuses`, `ServerIgnores`), so nothing proved depends on which is right.
The server may also refuse for reasons of its own, and drop a mapping (`Expire`).
`Restart` is the death of the process: the nonces are gone, what is on the
server or on its way is then `Foreign`. With the second kind of server a delete
of a mapping of an earlier process succeeds while the mapping remains, until its
lifetime ends; `DeleteIsTruthful` is about the mappings of this process.

Abstracted: a key is a model value, a lifetime is "create" or "delete", the
twelve error codes are one refusal, the address is known or not. Sockets are
not reused while a datagram of theirs is under way.

### PCPEpoch

Two elapsed times in ticks of 1/`Hz` second: the server's uptime and the time
since `epochTime`. Each has a clock of its own (`ServerTick`, `ClientTick`), so the
two may drift apart without limit, and an answer, which takes the epoch when it
is sent, may be processed at any later time or never. `Invalid`, `Drifted`,
`Tolerance` and `Comparable` are the four pieces of `updateEpochLocked`'s
condition; subtraction is modulo `W`. `Observers` are the calls that can have an
answer at once.

How far clocks and delays may part is in the properties. `Ahead` and `Behind`
compare what passed at the server between sending two answers with what passed
at the client between processing them: at most a second more, at most two
seconds less, and a sixteenth for drift. A delay that grows from one answer to
the next is time that passed at the client only, one that shrinks is time at the
server only. The tolerance of two seconds cannot cover more, because rounding to
whole seconds takes the rest: with two seconds ahead, or three behind,
`NoFalseAlarm` fails.

`Comparable` has the code's guard `lastEpoch > 0`. A server heard in its first
second sends epoch 0 and is treated as never heard, so the next answer is not
compared. And a server that had been up only for a few seconds when last heard,
or for less than the drift of the time since, may restart unnoticed: the new
epochs look like the old ones. `RestartNoticed` therefore speaks of servers that
had been up longer, and says how much.

### MergeNATs

One source goroutine and one merger goroutine per source. `Buffered` sources
publish once into a channel of capacity one and return; the others hand over to
their merger and go on. A closed channel yields what is buffered in it first. A
nil source (no gateway address) has no goroutines. `CloseNats` is the goroutine
that waits for all mergers. The reader of the merged channel is left open: in
`Next` it is the caller of `DiscoverNATs`, who may stop reading; in
`GatewaySelection` it is `selectGateway`. `DiscoverNATs` merges a merged
channel with the PCP probe: the inner channel is one more unbuffered source.
`Timed` sources end by themselves (see Fairness).

### GatewaySelection

`open` is the set of channel variables that are not nil, `kept` the set fields
of `gatewaySelection`. The loop selects while not `Settled`; `StartDraining` is
its `ctx.Done()` case, which leads to the inner loop whose default case
(`StopWaiting`) needs that nothing is readable. A merger that holds a gateway
but has not reached its own `select` does not make the channel readable, so the
default may be taken with one there. `Return` is followed by the deferred
`cancel`, which is the only thing that ends the remaining goroutines. `early`
is a history: what had been published when the context ended, or at the return.

### DualStack

`DiscoverPCP` comes first, unless a UPnP gateway was wrapped: `probe` is what
each family has answered to its ANNOUNCE, `DiscoverPCP` the join, `Result` the
NAT it returns; after an error the program can only discover again. From then
on `pcp.NAT` and `natWithPCPIPv6` have the same control; `gateway` says which
families there are and which clients keep an epoch. A call has two legs.
The IPv6 leg is an operation of `pcp.Client` as `PCPClient` shows it to be on a
network that keeps order: it takes the mapping's lock, the server may carry it
out, and it ends with a success (only after that) or an error (before or after).
Of the IPv4 leg only the outcome matters. `Joined` waits for the legs there are,
`RollsBack` starts the delete of the pinhole, `MappingReturns` stores the error.
For `CheckServerHealth`, the IPv4 flag is read as soon as its leg ends and the
IPv6 flag at the return, each only after a success.

`alone` is a history: no other call overlapped. The properties of a call's
own outcome are stated for such calls, within behaviours that have others.
In this module a request is applied before its call returns; datagrams that
arrive later are `PCPClient`'s subject.

### UnicastSearch

`by` is the goroutine: `discoverUPNPUnicast`, which searches three targets in
turn and follows only URLs of the gateway's address that it has not seen, or
`discoverUPNP_GenIGDev`, which multicasts once and follows any. `todo` is the
`range` over the answers, `checked` the map of the same name, `asking` the
sorted services. `Fetches` is `natFromUPNPLocation` up to the sort (a stable one
by rank, so `Preferred` keeps the device's order among equals), `NotUsable` and
`Usable` are `natFromUPNPService`. Which URLs name the gateway
(`locationHasAddr`) is the constant `OwnLocations`; a service is its rank.

### UPnPMapping

`Locks`, `Sends`, `Accepted` and `AttemptFails` are one call under `upnp_NAT.mu`:
attempt 0 asks for the cached port, attempts 1 to `RandomTries` for random ones,
and a delete has one attempt. The mutex is held across the calls to the device.
`DeletesNothing` is the delete of a key that is not cached, which returns `nil`.

The device handles its queue in order and may refuse anything. A caller whose
request is not answered goes on (`AttemptFails`), and the request may still be
carried out later. Leases end, other hosts use the device, and `Restart` is a
new object with an empty cache. `lapsed` and `doubt` are histories: `doubt`
collects the keys the code loses track of, at the very steps where it does
(`Unanswered`, `Replaces`, `Clash`).

### UPnPGateway

Searching and using alternate: `HandsOver` gives the object to its users, and
`Rediscovers` replaces it by an empty one while the device keeps its mappings.

### NATPMPMapping

`Looks` reads `n.ports`, `Succeeds` and `Forgets` write it, in steps of their own
and under no lock. Two accesses at once of which one writes are a data race; its
outcomes are the accesses in either order, and the runtime's fatal error (`Crash`,
possible only when `Races`). The gateway is that of RFC 6886: it keeps an
existing mapping at its port, picks another port if it likes, and says which;
the code stores and returns the port it suggested. A delete tells the gateway
nothing. `disturbed` is a history of the reasons for which the cache may be wrong
about an internal port.

## 3. What is checked

| run | shows | bounds, and why they are enough |
|---|---|---|
| `pcp_safety` | exchanges are serialized, come to an end and give back their lock, nothing is stranded, what is held is mapped, a successful delete leaves no mapping of this process; the promise of `NAT` is kept; the proof's invariant holds | 2 callers, a user key and a probe key, 2 attempts, 2 requests in the network, 3 nonces and ports: enough for a late and a duplicated datagram of an earlier call beside the current one |
| `pcp_liveness` | every call returns | the same with one key used for both, 1 request in the network |
| `pcp_probe_clash` | *violated*: an address probe deletes a mapping of the program | the probe may draw the user's key |
| `epoch_sequential` | no false alarm, restarts noticed | 18 s in half seconds on each of two free clocks: enough for the drift term (16 s) to count; one restart; answers of any age |
| `epoch_concurrent` | *violated*: answers processed out of order raise a false alarm | 2 calls, no restart |
| `merge` | no send on a closed channel, nothing lost, cancellation ends all, a steady reader reaches the end, or a UPnP search waits for ever | an unbuffered source with 2 gateways, 2 buffered ones, any of them missing |
| `select` | PCP preferred, PCPv6 independent, "not found" is true, return unless a UPnP search waits for ever, no leak | 2 probes, an unbuffered UPnP search and NAT-PMP, a deadline at any moment or never |
| `select_deadline` | *violated*: a fallback gateway published in time is lost | 2 buffered sources |
| `dual` | a family that answered is used, no restart swallowed, errors true, failures undone, calls never go back, and return unless the IPv4 leg waits for ever for a UPnP device | discovery, then 2 callers on one key; all four kinds of gateway; one server at a time with an unreported restart |
| `upnp` | the best service is taken, no URL overlooked; mappings stay addressable, ports true, the promise of `NAT` is kept | 3 targets, 2 answers each of 3 URLs, 2 services; 2 callers, 2 keys of one protocol, 2 external ports (two keys can clash, and a cached port be taken), 2 random tries for 3, 2 requests at the device: one left behind by a caller and the next |
| `natpmp` | undisturbed ports are true, the promise of `NAT` is kept for mappings never deleted | 2 callers, both protocols on one internal port, 2 external ports, 2 random tries for 3 |
| `natpmp_port` | *violated*: the port reported is not the one mapped | 1 caller |

In `upnp` callers, internal and external ports are interchangeable, and in
`pcp_safety` callers, nonces and sockets; those runs use that symmetry. The runs
that check liveness use none.

Deadlock is checked in the PCP client, dual-stack and NAT-PMP runs, where callers
can always begin another call. Discovery ends, the clocks of `PCPEpoch` stop at
their bound, and a program whose UPnP search found nothing may stop, so those
runs do not check it.

The violated properties are statements of the code's own comments:

1. **Probe clash** (`client.go:272-288`). `GetExternalAddress` may draw a port
   the program has mapped, find its nonce, and delete the program's mapping.
2. **Epoch order** (`client.go:25, 39`). Two calls that process their answers in
   the other order see the epoch go back by a second; the difference wraps to
   2^32-1 and a restart is reported that did not happen.
3. **Deadline** (`nat.go:149-151`). The comment relies on buffered channels; the
   merged fallback channel is not buffered, and its goroutines drop what they
   hold when the context ends.
4. **NAT-PMP port** (`natpmp.go:106-118`). The gateway's answer is dropped: after
   a restart, a delete or a substitution the port returned as the external port
   is the suggested one, not the mapped one.

Known limits that no run shows, because the code does not claim otherwise, or
because the property that holds is stated around them:

* **Reordering** (`client.go:44-47`). The lock orders calls, not datagrams. A
  create whose call has timed out can arrive after a later delete, whose success
  dropped the nonce; the mapping can then not be deleted. `PCPClient` has it with
  `Reordering = TRUE`; the theorems say where they need an ordered network.
* **Pinhole leak** (`pcp/nat.go:191-194`). The rollback is tied to the client's
  own success. A pinhole opened by a request whose answer was lost is not
  rolled back; the error says that opening failed (`FailureUndone`).
* **Stored error** (`pcp/nat.go:125-126`). With overlapping calls the last error
  stored is not always that of the most recent pinhole operation;
  `ReportTruthful` is about calls that no other overlaps.
* **UPnP orphans** (`upnp.go:529-545`). When a renewal of the cached port is
  refused or not answered and a random port then succeeds, or when a create's
  answer is lost, the device keeps a mapping that the cache no longer names.
  `Addressable` and `KeepsPromise` hold for all other mappings.
* A network with only a PCPv6 server makes `DiscoverGateway` fail with
  `ErrNoNATFound` (`nat.go:208-212`) although `pcp/nat.go:291-293` says that such
  a network "still yields a NAT" (that is about `DiscoverPCP`, where
  `FoundIsUsed` shows it; `NotFoundIsTrue` excepts it).
* **Delay** (`client.go:321-334, 412-426`). An answer may be as old as the read
  deadline, three seconds by default, when its epoch is judged. If it took
  over two seconds more than the previous one, or over one second less,
  `EpochStateLost` may report a restart that did not happen, with a single caller
  too. `NoFalseAlarm` states the margin that holds.
* **Silent UPnP device** (`upnp.go:108, 385, 436, 526-538`). Descriptions and SOAP
  calls have only the caller's context. If that has no deadline, one device that
  accepts a connection and says nothing blocks `DiscoverNATs` and, when nothing
  better ends the selection, `DiscoverGateway` for ever, and later a mapping call
  and, behind `upnp_NAT.mu`, all others. `ChannelCloses`, `Returns` and
  `CallReturns` of `DualStack` show that nothing else can.
* **Earlier processes** (`client.go:257-263`). See `PCPClient` above: their mappings
  cannot be deleted, and a delete of one may succeed.
* `pinholeTimeout` does not bound the wait for a mapping's lock.

### Fairness

* `PCPClient`: a goroutine that can send, time out or fire its timer does; every
  read has a deadline and attempts are bounded. Strong fairness of `Acquire`:
  Go's `sync.Mutex` hands itself to a waiter that has waited for a millisecond,
  so a lock that is free again and again is acquired. Nothing is assumed of the
  network or the server.
* `MergeNATs`: runnable goroutines run. Every search ends once the context is
  done: SOAP calls and the fetching of descriptions have the context, and the
  multicast search waits for a fixed time. Without a cancellation only `Timed`
  sources end: the NAT-PMP library gives up, PCP probes have `pcpProbeTimeout`.
  A UPnP search waits for SOAP calls that have no deadline of their own, so it is
  given none: `ChannelCloses` has the exception `Stuck`. The reader is fair only in
  the premise of `ChannelCloses`. No fairness for `Cancel`: the caller's context
  need not end.
* `GatewaySelection`: in addition the probes end (`pcpProbeTimeout`) and
  `selectGateway` runs. `Returns` has the exception `StuckOnUPnP`.
* `DualStack`: IPv6 legs, IPv4 legs over PCP and the probes of `DiscoverPCP` end
  because every exchange is bounded, whether or not the server acts; the mutex as
  above. An IPv4 leg over UPnP need not end (`Timed4`); `CallReturns` says that
  this is all a call can wait for without end.
* `UPnPMapping` and `NATPMPMapping`: none, and no liveness. A UPnP call ends only
  if the SOAP request does, and the library gives it no deadline of its own
  (`upnp.go:531-538` pass the caller's context), so a silent device can block it
  and, behind the mutex, all others; that the mutex is given back on every path
  is part of `MappingTypeOK`. NAT-PMP attempts are bounded by construction.

## 4. What is proved

`PCPClientProofs` (any callers, keys, nonces, ports and bounds):

* `TypeCorrect`, `RequestsSerialized`: from `Base` and `LocksGivenBack`, which hold
  for any network.
* `RequestsSerialized` in its second half, and `ExchangesAreBounded`, are the part
  of `CallReturns` that needs no fairness. `ExchangeStep` says what a step can do to an
  exchange (open it with its lock, go on and come nearer to its end, end and give
  the lock back), so a lock is never with anybody but an exchange that has a
  bounded number of steps left.
* `NothingStranded`, `DeletesTruthful`: assuming `~Reordering`. `NoStranded` is
  not inductive: it needs that the table knows the nonce of every create still
  in the network (`CreatesKnown`), and that behind the request of an open socket
  nothing is on its way that would undo it (`NothingBehind`, `AnswerStands`).
* `HeldAreMapped`: assuming also that probe keys are not user keys
  (`pcp_probe_clash` shows what happens without).

`PCPPromiseProofs` (`PromiseKept`, assuming `~Reordering`): every step of the
client and its network is a step of `MappingPromise` or a stutter, and every
`Complete` is a success of it. One fact is added to the invariant above:
`MappedNotDropped`, a mapping that the server has is not among those it dropped.
The argument for a success is `AnswerStands` and `NothingBehind`: once the
answer is there, the mapping is as asked, and nothing of an earlier call can
arrive any more.

`PCPEpochProofs` (any resolution `Hz`, width `W`, number of restarts; assuming
`Sequential`: one call at a time, and elapsed times of less than about half of `W`
seconds, 66 years for the code's 2^32, so that no sum wraps and a wrapped
difference is larger than any that occurs; nothing is assumed of the clocks or of
the age of an answer beyond what the properties say of the answers they are about):

* `TypeCorrect` needs no assumption.
* `NoAlarmIsFalse`, `RestartsAreNoticed`: from `EInv`, which relates the epochs to
  the moments that the code does not see. The recorded epoch is that of its stamp
  (`LastKnown`), so is an answer's (`AnswerKnown`), and an answer was stamped after
  the recorded one (`AnswerFollows`). `QuantizationLemma` shows that two seconds
  and a sixteenth are enough for the whole seconds of two times that `Ahead` and
  `Behind` relate, and `NoticeLemma` that after a restart the difference, wrapped or
  not, trips one of the two comparisons.

`DiscoveryProofs` (any sources, any number of gateways per source):

* `NoPanic`, `MergeLosesNothing`, `MergeTypeCorrect`: from `MergeInv`, which says
  where every gateway that was found is (`Conserved`), that a merger leaves an
  undrained source only when the context is done (`ExitedIsDrained`), and that
  the channel is closed only after all (`ClosedIsOver`).
* `SelectionImplementsMerge`: every step of the selection is a step of the merge
  or leaves it alone, so `MergeInv` holds there too.
* `PCPIsPreferred`, `IPv6IsIndependent`, `NotFoundTells`, `SelectTypeCorrect`:
  from `SelectInv`. `ProbeInv` carries the argument: a probe that is no longer
  waited for was received, or the context had ended before it published.

`DualStackProofs` (any callers, keys and restarts): `TypeCorrect`,
`RestartsAreTold`, `ReportsAreTrue`, `FailuresAreUndone`, from `DInv`: a call
marked `alone` really is the only one (`AloneIsOnly`), so what its leg did to the
pinhole is still so when it returns (`PinholeKnown`); a restart that was heard is
in its client's flag or with a check that has read it and whose IPv4 leg
succeeded, which therefore reports it (`RestartKept` with `CallShape`).
`CallsAreBounded` and `FoundIsNotLost` are what `CallReturns` and `FoundIsUsed`
need besides fairness: no step of a call leads it away from its end (a rollback
happens once), and what discovery has found is in every gateway it returns from
then on (`FoundServes`).

`UPnPProofs` (any callers, keys, ports, tries and queue length; over
`UPnPGateway`, so across rediscoveries too): `TypeCorrect`, `NoOrphans`
(`Addressable`), `ReportsTruePort` (`PortIsTrue`), from `UInv`. The device has an
unbounded past to look at, so the invariant is about what is left of it: the
request that a caller waits for is the last one at the device (`LastInQueue`);
deletes and creates that nobody waits for are at the cached port (`DeletesCached`,
`CreatesKnown`), because the cache changes only when nothing is at the device or
the key falls into doubt; and two keys that share an external port are both in
doubt (`NoClash`).

The search is proved there too, for target, answer and service lists of any
length: `SearchFollowsOwn` (`SearchIsExact`) and `BestServiceTaken`
(`BestService`), from `SearchInv`. A URL that was an answer is either seen or still
to be looked at, and those seen that are the gateway's own are the ones fetched
(`FollowsOwn`); every useful service was refused or is still to be asked, in the
order of preference (`BestFirst`). That `Preferred` gives that order at the start
(`PreferredLemma`) is an induction over the list, through the recursive function
in `OfRank`: the prover cannot instantiate the library's induction rules, so
`AmongExists` (the function exists) and `OfRankPicks` (what it returns) argue by a
least counterexample (`LeastNatural`, from the well-foundedness of `<` on the
naturals).

`UPnPPromiseProofs` (`PromiseKept`): the UPnP object implements `MappingPromise`
outside `doubt`.

`NATPMPProofs` (any callers, protocols, ports and tries): `TypeCorrect`,
`UndisturbedPortIsTrue`, from `MInv`: on an internal port that is not
`disturbed` there is at most one call, a create, and every mapping, of either
protocol, is at the cached port or at the one that call was just granted
(`Undisturbed`). `PromiseKept`: the object implements `MappingPromise` for
mappings it was never asked to delete, the data race included.

Assumptions on constants are the named `ASSUME`s of the modules (absent values
differ from real ones, bounds are numbers).

Every safety property and action property of the passing runs is so stated by a
theorem. Only model-checked: liveness (`CallReturns` of both modules,
`CancelEndsAll`, `ChannelCloses`, `Returns`, `NothingLeaks`, `FoundIsUsed`), since
temporal properties under fairness and `ENABLED` are beyond the prover. RECURSIVE
operators are beyond it too; no module uses them.

## 5. What is not modelled, and the plan

Not modelled for good: the routing lookup (it asks the operating system and
keeps nothing), the SSDP, SOAP and NAT-PMP libraries (outside the repository),
byte layouts (`pcp/protocol.go`: `PCPClient` keeps what they decide, an answer
parses and matches or it does not), lifetimes in seconds, the durations and the
jitter of retries, error texts, and log or type strings.

What is left:

1. **The retry schedule**: the delays of `sendRequest` with their jitter and cap
   are not modelled; the number and order of attempts are.
