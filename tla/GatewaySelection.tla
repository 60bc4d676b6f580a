--------------------------- MODULE GatewaySelection ---------------------------
(***************************************************************************)
(* DiscoverGateway of nat.go: two PCP probes and the merged fallback       *)
(* discovery of MergeNATs run side by side, and selectGateway collects     *)
(* what they publish until it can decide or the context ends.              *)
(*                                                                         *)
(* Each PCP probe (pcp.go) is an ANNOUNCE bounded by pcpProbeTimeout; it   *)
(* publishes its result in a channel of capacity one and ends.  Here it is *)
(* its outcome.  An error is only told from a success, and a deadline from *)
(* an empty network.                                                       *)
(***************************************************************************)
EXTENDS MergeNATs

Probes == {"pcp4", "pcp6"}

\* The fields of gatewaySelection, and the channels they are filled from.
Kinds == Probes \cup {"fallback"}

VARIABLES
    probe,       \* outcome of each PCP probe
    selector,    \* where selectGateway is
    open,        \* channel variables of selectGateway that are not nil
    kept,        \* fields of gatewaySelection that are set
    result,      \* what selectGateway returned
    early        \* history: kinds published before the context was done

selectVars == <<selector, open, kept, result>>
allVars == <<mergeVars, probe, selectVars, early>>

NoResult == [v4 |-> "pending", v6 |-> FALSE, deadline |-> FALSE]

\* Every variable has its type, and selectGateway returns only after it has
\* stopped waiting for the probes.
SelectTypeOK ==
    /\ TypeOK
    /\ probe \in [Probes -> {"running", "found", "empty"}]
    /\ selector \in {"select", "drain", "returned"}
    /\ open \subseteq Kinds
    /\ kept \subseteq Kinds
    /\ result \in [v4: {"pending", "pcp4", "fallback", "none"},
                   v6: BOOLEAN, deadline: BOOLEAN]
    /\ early \subseteq Kinds
    /\ selector = "returned" => open \subseteq {"fallback"}

SelectInit ==
    /\ MergeInit
    /\ probe = [p \in Probes |-> "running"]
    /\ selector = "select"
    /\ open = Kinds
    /\ kept = {}
    /\ result = NoResult
    /\ early = {}

\* A gateway of the source has been taken off its hands.
HasPublished(s) == found[s] > IF source[s] = "offer" THEN 1 ELSE 0

\* What has been published so far, received by selectGateway or not.
Published ==
    {p \in Probes : probe[p] = "found"}
        \cup {k \in {"fallback"} : \E s \in Sources : HasPublished(s)}

-----------------------------------------------------------------------------
(* Discovery.                                                              *)

Discovers ==
    MergeNext /\ UNCHANGED <<probe, selectVars, early>>

ProbeEnds(p) ==
    /\ probe[p] = "running"
    /\ \E outcome \in {"found", "empty"} :
         probe' = [probe EXCEPT ![p] = outcome]
    /\ UNCHANGED <<mergeVars, selectVars, early>>

\* The deadline of the caller's context passes, or the caller cancels it.
ContextDone ==
    /\ Cancel
    /\ early' = Published
    /\ UNCHANGED <<probe, selectVars>>

-----------------------------------------------------------------------------
(* selectGateway.                                                          *)

ProbesSettledMutant == "pcp6" \notin open

\* Neither PCP probe may be abandoned early.
ProbesSettled == open \cap Probes = {}

FallbackSettledMutant == kept \cap {"pcp4", "fallback"} # {}

\* Fallback discovery only has to yield its first result or to finish.
FallbackSettled ==
    kept \cap {"pcp4", "fallback"} # {} \/ "fallback" \notin open

Settled == ProbesSettled /\ FallbackSettled

\* Is selectGateway at a select statement?
Selecting ==
    \/ selector = "select" /\ ~Settled
    \/ selector = "drain" /\ open # {}

KeepMutant(kind, ok) == IF ok THEN {kind} ELSE kept

\* keepPCPv4, keepPCPv6, keepFallback
Keep(kind, ok) == IF ok THEN kept \cup {kind} ELSE kept

Readable(p) == p \in open /\ probe[p] # "running"

\* The result of a probe, or its closed channel.
ReceiveProbe(p) ==
    /\ Selecting /\ Readable(p)
    /\ open' = open \ {p}
    /\ kept' = Keep(p, probe[p] = "found")
    /\ UNCHANGED <<mergeVars, probe, selector, result, early>>

\* A fallback gateway; all after the first are discarded.
ReceiveFallback ==
    /\ Selecting /\ "fallback" \in open
    /\ \E s \in Sources : Delivers(s)
    /\ kept' = Keep("fallback", TRUE)
    /\ UNCHANGED <<probe, selector, open, result, early>>

FallbackFinished ==
    /\ Selecting /\ "fallback" \in open /\ nats = "closed"
    /\ open' = open \ {"fallback"}
    /\ UNCHANGED <<mergeVars, probe, selector, kept, result, early>>

\* case <-ctx.Done()
StartDraining ==
    /\ selector = "select" /\ ~Settled /\ done
    /\ selector' = "drain"
    /\ UNCHANGED <<mergeVars, probe, open, kept, result, early>>

NothingReadableMutant == ~Readable("pcp4")

\* The default case of the drain: no channel is ready.  A merger that is about
\* to send may not have reached its select yet, so it does not rule this out.
NothingReadable ==
    /\ \A p \in Probes : ~Readable(p)
    /\ ~("fallback" \in open /\ nats = "closed")

StopWaiting ==
    /\ selector = "drain" /\ open # {} /\ NothingReadable
    /\ open' = {}
    /\ UNCHANGED <<mergeVars, probe, selector, kept, result, early>>

\* The drain falls through to the loop condition.
EndDraining ==
    /\ selector = "drain" /\ open = {}
    /\ selector' = "select"
    /\ UNCHANGED <<mergeVars, probe, open, kept, result, early>>

\* gatewaySelection.gateway
PrimaryGateway ==
    IF "pcp4" \in kept THEN "pcp4"
    ELSE IF "fallback" \in kept THEN "fallback"
    ELSE "none"

DoneOnReturnMutant == done

\* DiscoverGateway defers the cancellation of its context.
DoneOnReturn == TRUE

Return ==
    /\ selector = "select" /\ Settled
    /\ selector' = "returned"
    /\ result' = [v4 |-> PrimaryGateway,
                  v6 |-> "pcp6" \in kept /\ PrimaryGateway # "none",
                  deadline |-> done]
    /\ done' = DoneOnReturn
    /\ early' = IF done THEN early ELSE Published
    /\ UNCHANGED <<source, buffer, merger, nats, found, delivered, probe, open,
                   kept>>

Selects ==
    \/ \E p \in Probes : ReceiveProbe(p)
    \/ ReceiveFallback \/ FallbackFinished
    \/ StartDraining \/ StopWaiting \/ EndDraining
    \/ Return

SelectNext ==
    \/ Discovers
    \/ \E p \in Probes : ProbeEnds(p)
    \/ ContextDone
    \/ Selects

SelectSpec == SelectInit /\ [][SelectNext]_allVars

(* Probes have a timeout and the selector runs; the caller's context need  *)
(* never end.                                                              *)
FairSelectSpec ==
    /\ SelectSpec
    /\ MergeFairness
    /\ \A p \in Probes : WF_allVars(ProbeEnds(p))
    /\ WF_allVars(Selects)

-----------------------------------------------------------------------------
(* Properties.                                                             *)

\* PCP is preferred: whatever is returned in place of a PCPv4 gateway, the
\* PCPv4 probe had found none while the context lived (nat.go:114-116).
PCPPreferred ==
    selector = "returned" /\ result.v4 # "pcp4" => "pcp4" \notin early

\* PCPv6 is enabled independently of what IPv4 yields: a PCPv6 server found
\* while the context lived is part of any gateway returned (nat.go:115, 127).
IndependentIPv6 ==
    selector = "returned" /\ result.v4 # "none" /\ "pcp6" \in early
      => result.v6

\* An error without a deadline tells the truth: "this network has no NAT"
\* (nat.go:174-175).  A PCPv6 server alone is no gateway.
NotFoundIsTrue ==
    selector = "returned" /\ result.v4 = "none" /\ ~result.deadline
      => early \subseteq {"pcp6"}

\* All that selectGateway waits for is a first fallback, which a silent UPnP
\* device keeps from it: neither a PCP gateway nor another fallback was found.
StuckOnUPnP ==
    Stuck /\ open = {"fallback"} /\ kept \cap {"pcp4", "fallback"} = {}

\* DiscoverGateway returns, whatever is found and in whatever order, also if the
\* caller's context never ends, unless that is all that is left to wait for
\* (nat.go:127-173).
Returns == <>(selector = "returned") \/ <>[]StuckOnUPnP

\* Once it has returned, everything it started ends: the probes, the sources
\* and the mergers whose channel nobody reads any more.
NothingLeaks ==
    selector = "returned" ~>
      /\ nats = "closed"
      /\ \A s \in Sources : source[s] = "closed" /\ merger[s] = "exited"
      /\ \A p \in Probes : probe[p] # "running"

\* "Sources publish into buffered channels, so a result discovered just before
\* the deadline is readable now" (nat.go:149-151), for the fallback sources.
FallbackKept ==
    selector = "returned" /\ result.v4 = "none" => "fallback" \notin early

-----------------------------------------------------------------------------
(* The inductive invariant of the proofs.                                  *)

\* The history only holds what was published, and nothing before its time.
EarlyInv ==
    /\ \A p \in Probes : p \in early => probe[p] = "found"
    /\ ~done => early = {}

\* A probe that is not waited for any more has been received, or was still
\* running when the context ended.
ProbeInv ==
    \A p \in Probes : p \notin open =>
      /\ p \in early => p \in kept
      /\ ~done => probe[p] = "empty" \/ p \in kept

FallbackInv ==
    /\ "fallback" \notin open /\ ~done => nats = "closed"
    /\ "fallback" \notin kept => \A s \in Sources : delivered[s] = 0

\* Draining starts when the context ends, and a return ends it.
DoneInv ==
    selector # "select" => done

SelectInv ==
    /\ SelectTypeOK /\ MergeInv
    /\ EarlyInv /\ ProbeInv /\ FallbackInv /\ DoneInv
    /\ PCPPreferred /\ IndependentIPv6 /\ NotFoundIsTrue
=============================================================================
