------------------------------- MODULE MergeNATs ------------------------------
(***************************************************************************)
(* mergeNATs of nat.go and the discovery sources it reads: one goroutine   *)
(* per source finds gateways and publishes them on the source's channel,   *)
(* one merger goroutine per source forwards them to the merged channel,    *)
(* and the last one to exit lets the merged channel be closed.  What reads *)
(* the merged channel is left to the modules that use this one; here, in   *)
(* DiscoverNATs, it is the caller, which may stop reading at any time.     *)
(*                                                                         *)
(* How a source searches (SSDP, SOAP, NAT-PMP, PCP) is abstracted to       *)
(* whether it finds a gateway; which gateway it is does not matter.  A     *)
(* merged channel is itself a source of an outer merge in DiscoverNATs: it *)
(* behaves like an unbuffered one.                                         *)
(*                                                                         *)
(* A definition whose name ends in Mutant is used by no specification: it  *)
(* is a plausible bug of the definition that follows it.                   *)
(***************************************************************************)
EXTENDS Naturals

CONSTANTS
    Sources,     \* the channels handed to mergeNATs
    Buffered,    \* sources with a buffered channel, which publish once
    Timed,       \* sources whose search ends without a context: NAT-PMP, PCP
    MaxOffers    \* bound: gateways an unbuffered source finds

ASSUME SourceAssumption ==
    /\ Buffered \subseteq Sources
    /\ Timed \subseteq Sources
    /\ MaxOffers \in Nat \ {0}

VARIABLES
    done,        \* is ctx.Done() closed?
    source,      \* the goroutine of each source
    buffer,      \* gateways in the channel of a buffered source
    merger,      \* the goroutine of mergeNATs for each source
    nats,        \* the merged channel
    found,       \* history: gateways found by each source
    delivered    \* history: gateways of each source received from nats

mergeVars == <<done, source, buffer, merger, nats, found, delivered>>

\* Every variable has its type, and a source with a buffered channel publishes
\* at most once, so that its send never blocks.
TypeOK ==
    /\ done \in BOOLEAN
    /\ source \in [Sources -> {"search", "offer", "closed"}]
    /\ buffer \in [Sources -> 0 .. 1]
    /\ merger \in [Sources -> {"receive", "send", "exited"}]
    /\ nats \in {"open", "closed"}
    /\ found \in [Sources -> 0 .. MaxOffers]
    /\ \A s \in Buffered : found[s] <= 1
    /\ delivered \in [Sources -> 0 .. MaxOffers]

\* Sources that need a gateway address and have none are nil: mergeNATs starts
\* no goroutine for them.
MergeInit ==
    /\ done = FALSE
    /\ \E present \in SUBSET Sources :
         /\ source = [s \in Sources |->
                        IF s \in present THEN "search" ELSE "closed"]
         /\ merger = [s \in Sources |->
                        IF s \in present THEN "receive" ELSE "exited"]
    /\ buffer = [s \in Sources |-> 0]
    /\ nats = "open"
    /\ found = [s \in Sources |-> 0]
    /\ delivered = [s \in Sources |-> 0]

-----------------------------------------------------------------------------
(* A source: search, publish or give up, and close the channel.            *)

Finds(s) ==
    /\ source[s] = "search"
    /\ found[s] < MaxOffers
    /\ source' = [source EXCEPT ![s] = "offer"]
    /\ found' = [found EXCEPT ![s] = @ + 1]
    /\ UNCHANGED <<done, buffer, merger, nats, delivered>>

Ends(s) ==
    /\ source[s] = "search"
    /\ source' = [source EXCEPT ![s] = "closed"]
    /\ UNCHANGED <<done, buffer, merger, nats, found, delivered>>

AfterPublishingMutant == "search"

\* Sources with a buffered channel return after their first gateway; a search
\* over several devices goes on.
AfterPublishing == "closed"

\* The send to a buffered channel, and the return that closes it.
Publishes(s) ==
    /\ s \in Buffered /\ source[s] = "offer"
    /\ buffer[s] = 0
    /\ buffer' = [buffer EXCEPT ![s] = 1]
    /\ source' = [source EXCEPT ![s] = AfterPublishing]
    /\ UNCHANGED <<done, merger, nats, found, delivered>>

\* The send to an unbuffered channel meets the merger that waits for it.
HandsOver(s) ==
    /\ s \notin Buffered /\ source[s] = "offer"
    /\ merger[s] = "receive"
    /\ source' = [source EXCEPT ![s] = "search"]
    /\ merger' = [merger EXCEPT ![s] = "send"]
    /\ UNCHANGED <<done, buffer, nats, found, delivered>>

\* The select of a send takes ctx.Done() instead.
GivesUp(s) ==
    /\ source[s] = "offer" /\ done
    /\ source' = [source EXCEPT ![s] = "closed"]
    /\ UNCHANGED <<done, buffer, merger, nats, found, delivered>>

-----------------------------------------------------------------------------
(* A merger: receive from the source, send to the merged channel.          *)

Takes(s) ==
    /\ merger[s] = "receive" /\ buffer[s] = 1
    /\ buffer' = [buffer EXCEPT ![s] = 0]
    /\ merger' = [merger EXCEPT ![s] = "send"]
    /\ UNCHANGED <<done, source, nats, found, delivered>>

UncheckedMutant(s) == FALSE

DrainedMutant(s) == source[s] = "closed"

\* A closed channel still yields what is buffered in it.
Drained(s) == source[s] = "closed" /\ buffer[s] = 0

SeesClosed(s) ==
    /\ merger[s] = "receive" /\ Drained(s)
    /\ merger' = [merger EXCEPT ![s] = "exited"]
    /\ UNCHANGED <<done, source, buffer, nats, found, delivered>>

QuitStatesMutant == {"receive"}

\* Both selects of a merger look at ctx.Done().
QuitStates == {"receive", "send"}

\* A gateway in the hands of the merger is dropped with it.
Quits(s) ==
    /\ done /\ merger[s] \in QuitStates
    /\ merger' = [merger EXCEPT ![s] = "exited"]
    /\ UNCHANGED <<done, source, buffer, nats, found, delivered>>

AllExitedMutant == \E s \in Sources : merger[s] = "exited"

\* wg.Wait()
AllExited == \A s \in Sources : merger[s] = "exited"

CloseNats ==
    /\ nats = "open" /\ AllExited
    /\ nats' = "closed"
    /\ UNCHANGED <<done, source, buffer, merger, found, delivered>>

\* The reader of the merged channel takes a gateway.
Delivers(s) ==
    /\ merger[s] = "send"
    /\ merger' = [merger EXCEPT ![s] = "receive"]
    /\ delivered' = [delivered EXCEPT ![s] = @ + 1]
    /\ UNCHANGED <<done, source, buffer, nats, found>>

\* The context of the caller ends.
Cancel ==
    /\ ~done
    /\ done' = TRUE
    /\ UNCHANGED <<source, buffer, merger, nats, found, delivered>>

-----------------------------------------------------------------------------
Searches(s) == Finds(s) \/ Ends(s) \/ Publishes(s) \/ GivesUp(s)

Merges(s) == HandsOver(s) \/ Takes(s) \/ SeesClosed(s) \/ Quits(s)

MergeNext ==
    \/ \E s \in Sources : Searches(s) \/ Merges(s)
    \/ CloseNats

Next ==
    \/ MergeNext
    \/ \E s \in Sources : Delivers(s)
    \/ Cancel

(* Goroutines that can run do.  A search ends with its context, and that   *)
(* of a Timed source by itself: the NAT-PMP library gives up after its     *)
(* attempts and a PCP probe has a timeout.  A UPnP search reads device     *)
(* descriptions and calls GetNATRSIPStatusCtx with the caller's context    *)
(* and no deadline of its own, so that a silent device may hold it.        *)
MergeFairness ==
    /\ \A s \in Sources :
         /\ WF_mergeVars((done \/ s \in Timed) /\ (Finds(s) \/ Ends(s)))
         /\ WF_mergeVars(Publishes(s) \/ GivesUp(s))
         /\ WF_mergeVars(Merges(s))
    /\ WF_mergeVars(CloseNats)

Spec == MergeInit /\ [][Next]_mergeVars

FairSpec == Spec /\ MergeFairness

-----------------------------------------------------------------------------
(* Properties.                                                             *)

\* The merged channel is never closed under a merger that still sends, which
\* would panic (nat.go:107-110).
NoSendOnClosed ==
    \A s \in Sources : merger[s] = "send" => nats = "open"

\* While the context lives no gateway is lost between a source and the reader:
\* once the channel is closed, the reader has had every one that was found
\* (nat.go:89-103).
NothingLost ==
    nats = "closed" /\ ~done => delivered = found

\* Once the context is done every goroutine ends, even if nobody reads the
\* channel any more (nat.go:95-101).
CancelEndsAll ==
    done ~> /\ nats = "closed"
            /\ \A s \in Sources : source[s] = "closed" /\ merger[s] = "exited"

\* A UPnP search waits for a device, and no context will end it.
Stuck == ~done /\ \E s \in Sources \ Timed : source[s] = "search"

\* A reader that keeps reading reaches the end of the channel: neither a source
\* that ended nor a merger keeps it open.  Only a UPnP device that is silent for
\* ever to a caller without a deadline does (nat.go:81-110).
ChannelCloses ==
    (\A s \in Sources : WF_mergeVars(Delivers(s)))
      => <>(nats = "closed") \/ <>[]Stuck

-----------------------------------------------------------------------------
(* The inductive invariant of the proofs.                                  *)

One(b) == IF b THEN 1 ELSE 0

\* Where the gateways found by a source are, as long as none is dropped.
Accounted(s) ==
    delivered[s] + buffer[s]
      + One(merger[s] = "send") + One(source[s] = "offer")

\* Gateways are only lost, never made, and lost only when the context is done.
Conserved(s) ==
    /\ Accounted(s) <= found[s]
    /\ ~done => Accounted(s) = found[s]

\* A source with a buffered channel is still at its first gateway.
PublishesOnce(s) ==
    s \in Buffered =>
      /\ source[s] = "search" => found[s] = 0
      /\ found[s] <= 1

\* A merger leaves a source early only when the context is done.
ExitedIsDrained(s) ==
    merger[s] = "exited" /\ ~done => source[s] = "closed" /\ buffer[s] = 0

SourceInv(s) == Conserved(s) /\ PublishesOnce(s) /\ ExitedIsDrained(s)

ClosedIsOver == nats = "closed" => AllExited

MergeInv ==
    /\ TypeOK
    /\ \A s \in Sources : SourceInv(s)
    /\ ClosedIsOver
=============================================================================
