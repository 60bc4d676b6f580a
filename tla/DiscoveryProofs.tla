--------------------------- MODULE DiscoveryProofs ---------------------------
(***************************************************************************)
(* Proofs about MergeNATs and GatewaySelection, for any sources and any    *)
(* number of gateways.  The safety of the merge follows from where every   *)
(* gateway that was found is (Conserved); that of the selection from the   *)
(* merge's, since a selection step is a step of the merge or stutters it.  *)
(***************************************************************************)
EXTENDS GatewaySelection, TLAPS

-----------------------------------------------------------------------------
(* The merge.                                                              *)

USE DEF One

\* The merge invariant holds when discovery starts, with any sources missing.
LEMMA MergeInitial == MergeInit => MergeInv
<1> SUFFICES ASSUME MergeInit PROVE MergeInv
  OBVIOUS
<1>0. PICK present \in SUBSET Sources :
        /\ source = [s \in Sources |->
                       IF s \in present THEN "search" ELSE "closed"]
        /\ merger = [s \in Sources |->
                       IF s \in present THEN "receive" ELSE "exited"]
  BY DEF MergeInit
<1>1. TypeOK
  <2>1. Buffered \subseteq Sources /\ 0 \in 0 .. MaxOffers /\ 0 \in 0 .. 1
    BY SourceAssumption DEF SourceAssumption
  <2>2. /\ done = FALSE /\ nats = "open"
        /\ buffer = [s \in Sources |-> 0]
        /\ found = [s \in Sources |-> 0]
        /\ delivered = [s \in Sources |-> 0]
    BY DEF MergeInit
  <2>3. /\ source \in [Sources -> {"search", "offer", "closed"}]
        /\ merger \in [Sources -> {"receive", "send", "exited"}]
    BY <1>0
  <2>4. ASSUME NEW s \in Buffered PROVE found[s] <= 1
    <3>1. found[s] = 0
      BY <2>1, <2>2
    <3> QED
      BY <3>1
  <2> QED
    BY <2>1, <2>2, <2>3, <2>4 DEF TypeOK
<1>2. ASSUME NEW s \in Sources PROVE SourceInv(s)
  BY <1>0 DEF MergeInit, SourceInv, Conserved, Accounted, PublishesOnce,
              ExitedIsDrained
<1>3. ClosedIsOver
  BY DEF MergeInit, ClosedIsOver
<1> QED
  BY <1>1, <1>2, <1>3 DEF MergeInv

\* The types of what is kept for one source.
LEMMA SourceTypes ==
  ASSUME TypeOK, NEW s \in Sources
  PROVE  /\ found[s] \in 0 .. MaxOffers /\ delivered[s] \in 0 .. MaxOffers
         /\ buffer[s] \in 0 .. 1
         /\ source[s] \in {"search", "offer", "closed"}
         /\ merger[s] \in {"receive", "send", "exited"}
BY DEF TypeOK

\* A step of one source leaves what holds of the others.
LEMMA OthersKeep ==
  ASSUME NEW t \in Sources, SourceInv(t), UNCHANGED done,
         source'[t] = source[t], buffer'[t] = buffer[t],
         merger'[t] = merger[t], found'[t] = found[t],
         delivered'[t] = delivered[t]
  PROVE  SourceInv(t)'
BY DEF SourceInv, Conserved, Accounted, PublishesOnce, ExitedIsDrained

\* A source that finds a gateway has one more, and one more to publish.
LEMMA FindsKeeps ==
  ASSUME MergeInv, NEW s \in Sources, Finds(s) PROVE MergeInv'
<1> USE SourceAssumption
<1>1. TypeOK /\ SourceInv(s)
  BY DEF MergeInv
<1>2. TypeOK'
  <2>1. found[s] + 1 \in 0 .. MaxOffers
    BY <1>1, SourceTypes DEF Finds
  <2>2. \A b \in Buffered : found'[b] <= 1
    BY <1>1 DEF Finds, TypeOK, SourceInv, PublishesOnce
  <2> QED
    BY <1>1, <2>1, <2>2 DEF Finds, TypeOK
<1>3. SourceInv(s)'
  <2>1. /\ source'[s] = "offer" /\ found'[s] = found[s] + 1
        /\ UNCHANGED <<done, buffer, merger, delivered>>
    BY <1>1 DEF Finds, TypeOK
  <2> QED
    BY <1>1, <2>1, SourceTypes
    DEF Finds, SourceInv, Conserved, Accounted, PublishesOnce, ExitedIsDrained
<1>4. ASSUME NEW t \in Sources, t # s PROVE SourceInv(t)'
  <2>1. SourceInv(t)
    BY DEF MergeInv
  <2> QED
    BY <1>1, <1>4, <2>1, OthersKeep DEF Finds, TypeOK
<1>5. ClosedIsOver'
  BY DEF Finds, MergeInv, ClosedIsOver, AllExited
<1> QED
  BY <1>2, <1>3, <1>4, <1>5 DEF MergeInv

\* A source that ends its search leaves nothing behind.
LEMMA EndsKeeps ==
  ASSUME MergeInv, NEW s \in Sources, Ends(s) PROVE MergeInv'
<1>1. TypeOK /\ SourceInv(s)
  BY DEF MergeInv
<1>2. /\ source'[s] = "closed"
      /\ UNCHANGED <<done, buffer, merger, found, delivered>>
  BY <1>1 DEF Ends, TypeOK
<1>3. TypeOK'
  BY <1>1, <1>2, SourceTypes DEF Ends, TypeOK
<1>4. SourceInv(s)'
  BY <1>1, <1>2, SourceTypes
  DEF Ends, SourceInv, Conserved, Accounted, PublishesOnce, ExitedIsDrained
<1>5. ASSUME NEW t \in Sources, t # s PROVE SourceInv(t)'
  <2>1. SourceInv(t)
    BY DEF MergeInv
  <2> QED
    BY <1>1, <1>5, <2>1, OthersKeep DEF Ends, TypeOK
<1>6. ClosedIsOver'
  BY <1>1, <1>2 DEF Ends, MergeInv, ClosedIsOver, AllExited, TypeOK
<1> QED
  BY <1>3, <1>4, <1>5, <1>6 DEF MergeInv

\* A gateway goes from its source into the channel's buffer.
LEMMA PublishesKeeps ==
  ASSUME MergeInv, NEW s \in Sources, Publishes(s) PROVE MergeInv'
<1>1. TypeOK /\ SourceInv(s)
  BY DEF MergeInv
<1>2. /\ source'[s] = "closed" /\ buffer'[s] = 1
      /\ UNCHANGED <<done, merger, found, delivered>>
  BY <1>1 DEF Publishes, TypeOK, AfterPublishing
<1>3. TypeOK'
  BY <1>1, <1>2, SourceTypes DEF Publishes, TypeOK, AfterPublishing
<1>4. SourceInv(s)'
  BY <1>1, <1>2, SourceTypes
  DEF Publishes, SourceInv, Conserved, Accounted, PublishesOnce,
      ExitedIsDrained, AfterPublishing
<1>5. ASSUME NEW t \in Sources, t # s PROVE SourceInv(t)'
  <2>1. SourceInv(t)
    BY DEF MergeInv
  <2> QED
    BY <1>1, <1>5, <2>1, OthersKeep DEF Publishes, TypeOK
<1>6. ClosedIsOver'
  BY <1>1, <1>2 DEF Publishes, MergeInv, ClosedIsOver, AllExited, TypeOK
<1> QED
  BY <1>3, <1>4, <1>5, <1>6 DEF MergeInv

\* A gateway goes from its source to its merger.
LEMMA HandsOverKeeps ==
  ASSUME MergeInv, NEW s \in Sources, HandsOver(s) PROVE MergeInv'
<1>1. TypeOK /\ SourceInv(s)
  BY DEF MergeInv
<1>2. /\ source'[s] = "search" /\ merger'[s] = "send"
      /\ UNCHANGED <<done, buffer, found, delivered>>
  BY <1>1 DEF HandsOver, TypeOK
<1>3. TypeOK'
  BY <1>1, <1>2, SourceTypes DEF HandsOver, TypeOK
<1>4. SourceInv(s)'
  BY <1>1, <1>2, SourceTypes
  DEF HandsOver, SourceInv, Conserved, Accounted, PublishesOnce,
      ExitedIsDrained
<1>5. ASSUME NEW t \in Sources, t # s PROVE SourceInv(t)'
  <2>1. SourceInv(t)
    BY DEF MergeInv
  <2> QED
    BY <1>1, <1>5, <2>1, OthersKeep DEF HandsOver, TypeOK
<1>6. ClosedIsOver'
  BY <1>1, <1>2 DEF HandsOver, MergeInv, ClosedIsOver, AllExited, TypeOK
<1> QED
  BY <1>3, <1>4, <1>5, <1>6 DEF MergeInv

\* A gateway is dropped by its source, after the end of the context.
LEMMA GivesUpKeeps ==
  ASSUME MergeInv, NEW s \in Sources, GivesUp(s) PROVE MergeInv'
<1>1. TypeOK /\ SourceInv(s)
  BY DEF MergeInv
<1>2. /\ source'[s] = "closed"
      /\ UNCHANGED <<done, buffer, merger, found, delivered>>
  BY <1>1 DEF GivesUp, TypeOK
<1>3. TypeOK'
  BY <1>1, <1>2, SourceTypes DEF GivesUp, TypeOK
<1>4. SourceInv(s)'
  BY <1>1, <1>2, SourceTypes
  DEF GivesUp, SourceInv, Conserved, Accounted, PublishesOnce, ExitedIsDrained
<1>5. ASSUME NEW t \in Sources, t # s PROVE SourceInv(t)'
  <2>1. SourceInv(t)
    BY DEF MergeInv
  <2> QED
    BY <1>1, <1>5, <2>1, OthersKeep DEF GivesUp, TypeOK
<1>6. ClosedIsOver'
  BY <1>1, <1>2 DEF GivesUp, MergeInv, ClosedIsOver, AllExited, TypeOK
<1> QED
  BY <1>3, <1>4, <1>5, <1>6 DEF MergeInv

\* A gateway goes from the buffer to the merger.
LEMMA TakesKeeps ==
  ASSUME MergeInv, NEW s \in Sources, Takes(s) PROVE MergeInv'
<1>1. TypeOK /\ SourceInv(s)
  BY DEF MergeInv
<1>2. /\ buffer'[s] = 0 /\ merger'[s] = "send"
      /\ UNCHANGED <<done, source, found, delivered>>
  BY <1>1 DEF Takes, TypeOK
<1>3. TypeOK'
  BY <1>1, <1>2, SourceTypes DEF Takes, TypeOK
<1>4. SourceInv(s)'
  BY <1>1, <1>2, SourceTypes
  DEF Takes, SourceInv, Conserved, Accounted, PublishesOnce, ExitedIsDrained
<1>5. ASSUME NEW t \in Sources, t # s PROVE SourceInv(t)'
  <2>1. SourceInv(t)
    BY DEF MergeInv
  <2> QED
    BY <1>1, <1>5, <2>1, OthersKeep DEF Takes, TypeOK
<1>6. ClosedIsOver'
  BY <1>1, <1>2 DEF Takes, MergeInv, ClosedIsOver, AllExited, TypeOK
<1> QED
  BY <1>3, <1>4, <1>5, <1>6 DEF MergeInv

\* A merger leaves a drained source.
LEMMA SeesClosedKeeps ==
  ASSUME MergeInv, NEW s \in Sources, SeesClosed(s) PROVE MergeInv'
<1>1. TypeOK /\ SourceInv(s)
  BY DEF MergeInv
<1>2. /\ merger'[s] = "exited"
      /\ UNCHANGED <<done, source, buffer, found, delivered>>
  BY <1>1 DEF SeesClosed, TypeOK, Drained
<1>3. TypeOK'
  BY <1>1, <1>2, SourceTypes DEF SeesClosed, TypeOK, Drained
<1>4. SourceInv(s)'
  BY <1>1, <1>2, SourceTypes
  DEF SeesClosed, SourceInv, Conserved, Accounted, PublishesOnce,
      ExitedIsDrained, Drained
<1>5. ASSUME NEW t \in Sources, t # s PROVE SourceInv(t)'
  <2>1. SourceInv(t)
    BY DEF MergeInv
  <2> QED
    BY <1>1, <1>5, <2>1, OthersKeep DEF SeesClosed, TypeOK
<1>6. ClosedIsOver'
  BY <1>1, <1>2 DEF SeesClosed, MergeInv, ClosedIsOver, AllExited, TypeOK
<1> QED
  BY <1>3, <1>4, <1>5, <1>6 DEF MergeInv

\* A gateway may be dropped by its merger, after the end of the context.
LEMMA QuitsKeeps ==
  ASSUME MergeInv, NEW s \in Sources, Quits(s) PROVE MergeInv'
<1>1. TypeOK /\ SourceInv(s)
  BY DEF MergeInv
<1>2. /\ merger'[s] = "exited"
      /\ UNCHANGED <<done, source, buffer, found, delivered>>
  BY <1>1 DEF Quits, TypeOK, QuitStates
<1>3. TypeOK'
  BY <1>1, <1>2, SourceTypes DEF Quits, TypeOK, QuitStates
<1>4. SourceInv(s)'
  BY <1>1, <1>2, SourceTypes
  DEF Quits, SourceInv, Conserved, Accounted, PublishesOnce, ExitedIsDrained,
      QuitStates
<1>5. ASSUME NEW t \in Sources, t # s PROVE SourceInv(t)'
  <2>1. SourceInv(t)
    BY DEF MergeInv
  <2> QED
    BY <1>1, <1>5, <2>1, OthersKeep DEF Quits, TypeOK
<1>6. ClosedIsOver'
  BY <1>1, <1>2 DEF Quits, MergeInv, ClosedIsOver, AllExited, TypeOK
<1> QED
  BY <1>3, <1>4, <1>5, <1>6 DEF MergeInv

\* A gateway goes from the merger to the reader.
LEMMA DeliversKeeps ==
  ASSUME MergeInv, NEW s \in Sources, Delivers(s) PROVE MergeInv'
<1>1. TypeOK /\ SourceInv(s)
  BY DEF MergeInv
<1>2. /\ merger'[s] = "receive" /\ delivered'[s] = delivered[s] + 1
      /\ UNCHANGED <<done, source, buffer, found>>
  BY <1>1 DEF Delivers, TypeOK
<1>3. TypeOK'
  <2>1. delivered[s] + 1 <= found[s]
    BY <1>1, SourceTypes DEF Delivers, SourceInv, Conserved, Accounted
  <2>2. delivered[s] + 1 \in 0 .. MaxOffers
    BY <1>1, <2>1, SourceTypes, SourceAssumption DEF SourceAssumption
  <2> QED
    BY <1>1, <2>2 DEF Delivers, TypeOK
<1>4. SourceInv(s)'
  BY <1>1, <1>2, SourceTypes
  DEF Delivers, SourceInv, Conserved, Accounted, PublishesOnce, ExitedIsDrained
<1>5. ASSUME NEW t \in Sources, t # s PROVE SourceInv(t)'
  <2>1. SourceInv(t)
    BY DEF MergeInv
  <2> QED
    BY <1>1, <1>5, <2>1, OthersKeep DEF Delivers, TypeOK
<1>6. ClosedIsOver'
  BY <1>1, <1>2 DEF Delivers, MergeInv, ClosedIsOver, AllExited, TypeOK
<1> QED
  BY <1>3, <1>4, <1>5, <1>6 DEF MergeInv

\* The merged channel is closed when no merger is left.
LEMMA CloseNatsKeeps == MergeInv /\ CloseNats => MergeInv'
<1> SUFFICES ASSUME MergeInv, CloseNats PROVE MergeInv'
  OBVIOUS
<1>1. TypeOK'
  BY DEF CloseNats, MergeInv, TypeOK
<1>2. ASSUME NEW t \in Sources PROVE SourceInv(t)'
  BY OthersKeep DEF CloseNats, MergeInv
<1>3. ClosedIsOver'
  BY DEF CloseNats, ClosedIsOver, AllExited
<1> QED
  BY <1>1, <1>2, <1>3 DEF MergeInv

\* The end of the context only weakens what holds while it lives.
LEMMA CancelKeeps ==
  ASSUME MergeInv, done' = TRUE,
         UNCHANGED <<source, buffer, merger, nats, found, delivered>>
  PROVE  MergeInv'
<1>1. TypeOK'
  BY DEF MergeInv, TypeOK
<1>2. ASSUME NEW t \in Sources PROVE SourceInv(t)'
  <2>1. SourceInv(t)
    BY DEF MergeInv
  <2> QED
    BY <2>1 DEF SourceInv, Conserved, Accounted, PublishesOnce, ExitedIsDrained
<1>3. ClosedIsOver'
  BY DEF MergeInv, ClosedIsOver, AllExited
<1> QED
  BY <1>1, <1>2, <1>3 DEF MergeInv

\* Steps that leave the merge alone.
LEMMA MergeStutterKeeps == MergeInv /\ UNCHANGED mergeVars => MergeInv'
<1> SUFFICES ASSUME MergeInv, UNCHANGED mergeVars PROVE MergeInv'
  OBVIOUS
<1>1. TypeOK'
  BY DEF mergeVars, MergeInv, TypeOK
<1>2. ASSUME NEW t \in Sources PROVE SourceInv(t)'
  BY OthersKeep DEF mergeVars, MergeInv
<1>3. ClosedIsOver'
  BY DEF mergeVars, MergeInv, ClosedIsOver, AllExited
<1> QED
  BY <1>1, <1>2, <1>3 DEF MergeInv

\* The steps of sources and mergers.
LEMMA MergeNextKeeps == MergeInv /\ MergeNext => MergeInv'
<1> SUFFICES ASSUME MergeInv, MergeNext PROVE MergeInv'
  OBVIOUS
<1>1. ASSUME NEW s \in Sources, Searches(s) PROVE MergeInv'
  BY <1>1, FindsKeeps, EndsKeeps, PublishesKeeps, GivesUpKeeps DEF Searches
<1>2. ASSUME NEW s \in Sources, Merges(s) PROVE MergeInv'
  BY <1>2, HandsOverKeeps, TakesKeeps, SeesClosedKeeps, QuitsKeeps DEF Merges
<1> QED
  BY <1>1, <1>2, CloseNatsKeeps DEF MergeNext

\* Any step of the merge keeps its invariant.
LEMMA MergeStepKeeps == MergeInv /\ [Next]_mergeVars => MergeInv'
<1> SUFFICES ASSUME MergeInv, [Next]_mergeVars PROVE MergeInv'
  OBVIOUS
<1>1. ASSUME NEW s \in Sources, Delivers(s) PROVE MergeInv'
  BY <1>1, DeliversKeeps
<1>2. CASE Cancel
  BY <1>2, CancelKeeps DEF Cancel
<1> QED
  BY <1>1, <1>2, MergeNextKeeps, MergeStutterKeeps DEF Next

\* Every gateway that was found stays accounted for, whatever the sources,
\* mergers, reader and context do (nat.go:78-112).
THEOREM MergeInvariant == Spec => []MergeInv
<1>1. MergeInit => MergeInv
  BY MergeInitial
<1>2. MergeInv /\ [Next]_mergeVars => MergeInv'
  BY MergeStepKeeps
<1> QED
  BY <1>1, <1>2, PTL DEF Spec

\* The merge's state has its types, and a source with a buffered channel
\* publishes once, so its send never blocks (nat.go:71-79).
THEOREM MergeTypeCorrect == Spec => []TypeOK
<1>1. MergeInv => TypeOK
  BY DEF MergeInv
<1> QED
  BY <1>1, MergeInvariant, PTL

\* The merged channel is never closed under a merger that still sends
\* (nat.go:107-110).
THEOREM NoPanic == Spec => []NoSendOnClosed
<1>1. MergeInv => NoSendOnClosed
  BY DEF MergeInv, TypeOK, ClosedIsOver, AllExited, NoSendOnClosed
<1> QED
  BY <1>1, MergeInvariant, PTL

\* What the invariant says once the merged channel is closed.
LEMMA ClosedMeansDelivered ==
  ASSUME MergeInv, nats = "closed", ~done, NEW s \in Sources
  PROVE  delivered[s] = found[s]
<1>1. TypeOK /\ SourceInv(s)
  BY DEF MergeInv
<1>2. merger[s] = "exited"
  BY DEF MergeInv, ClosedIsOver, AllExited
<1>3. source[s] = "closed" /\ buffer[s] = 0
  BY <1>1, <1>2 DEF SourceInv, ExitedIsDrained
<1> QED
  BY <1>1, <1>2, <1>3, SourceTypes DEF SourceInv, Conserved, Accounted

\* While the context lives nothing is lost between a source and the reader
\* (nat.go:89-103).
THEOREM MergeLosesNothing == Spec => []NothingLost
<1>1. MergeInv => NothingLost
  <2> SUFFICES ASSUME MergeInv, nats = "closed", ~done
               PROVE  delivered = found
    BY DEF NothingLost
  <2>1. \A s \in Sources : delivered[s] = found[s]
    BY ClosedMeansDelivered
  <2>2. /\ delivered \in [Sources -> 0 .. MaxOffers]
        /\ found \in [Sources -> 0 .. MaxOffers]
    BY DEF MergeInv, TypeOK
  <2> QED
    BY <2>1, <2>2
<1> QED
  BY <1>1, MergeInvariant, PTL

-----------------------------------------------------------------------------
(* The selection is a reader of the merge.                                 *)

\* A step of the selection is a step of the merge or leaves it alone.
LEMMA SelectStepIsMergeStep ==
  ASSUME TypeOK, [SelectNext]_allVars PROVE [Next]_mergeVars
<1>1. CASE Discovers
  BY <1>1 DEF Discovers, Next
<1>2. ASSUME NEW p \in Probes, ProbeEnds(p) PROVE UNCHANGED mergeVars
  BY <1>2 DEF ProbeEnds
<1>3. CASE ContextDone
  BY <1>3 DEF ContextDone, Next
<1>4. CASE Selects
  <2>1. ASSUME NEW p \in Probes, ReceiveProbe(p) PROVE UNCHANGED mergeVars
    BY <2>1 DEF ReceiveProbe
  <2>2. CASE ReceiveFallback
    BY <2>2 DEF ReceiveFallback, Next
  <2>3. CASE FallbackFinished \/ StartDraining \/ StopWaiting \/ EndDraining
    BY <2>3 DEF FallbackFinished, StartDraining, StopWaiting, EndDraining
  <2>4. CASE Return
    <3>1. /\ done' = TRUE
          /\ UNCHANGED <<source, buffer, merger, nats, found, delivered>>
      BY <2>4 DEF Return, DoneOnReturn
    <3>2. CASE done
      BY <3>1, <3>2 DEF mergeVars, TypeOK
    <3>3. CASE ~done
      BY <3>1, <3>3 DEF Cancel, Next
    <3> QED
      BY <3>2, <3>3
  <2> QED
    BY <1>4, <2>1, <2>2, <2>3, <2>4 DEF Selects
<1>5. CASE UNCHANGED allVars
  BY <1>5 DEF allVars
<1> QED
  BY <1>1, <1>2, <1>3, <1>4, <1>5 DEF SelectNext

\* The merge's invariant is kept by the selection.
LEMMA SelectMergeInv ==
  ASSUME SelectInv, [SelectNext]_allVars PROVE MergeInv'
<1>1. MergeInv /\ TypeOK
  BY DEF SelectInv, MergeInv
<1> QED
  BY <1>1, SelectStepIsMergeStep, MergeStepKeeps

\* DiscoverGateway uses the merge as DiscoverNATs does: whatever holds of the
\* merge with any reader holds within the selection (nat.go:117-122).
THEOREM SelectionImplementsMerge == SelectSpec => Spec
<1>1. SelectInit => MergeInit
  BY DEF SelectInit
<1>2. MergeInv /\ [SelectNext]_allVars => [Next]_mergeVars /\ MergeInv'
  <2>1. MergeInv => TypeOK
    BY DEF MergeInv
  <2> QED
    BY <2>1, SelectStepIsMergeStep, MergeStepKeeps
<1>3. MergeInit => MergeInv
  BY MergeInitial
<1> QED
  BY <1>1, <1>2, <1>3, PTL DEF SelectSpec, Spec

-----------------------------------------------------------------------------
(* What selectGateway returns.                                             *)

\* The part of the invariant that is about the selection itself.
SelectionInv ==
    /\ EarlyInv /\ ProbeInv /\ FallbackInv /\ DoneInv
    /\ PCPPreferred /\ IndependentIPv6 /\ NotFoundIsTrue

\* Nothing of the selection depends on the merge but the two facts of
\* FallbackInv, so steps of the merge alone keep it.
LEMMA DiscoversKeeps ==
  ASSUME SelectInv, Discovers PROVE SelectTypeOK' /\ SelectionInv'
<1>1. MergeInv' /\ UNCHANGED <<probe, selector, open, kept, result, early>>
  BY SelectMergeInv DEF Discovers, SelectNext, selectVars
<1>2. SelectTypeOK'
  BY <1>1 DEF MergeInv, SelectInv, SelectTypeOK
<1>3. /\ done' = done /\ delivered' = delivered
      /\ nats = "closed" => nats' = nats
  <2>1. ASSUME NEW s \in Sources, Searches(s) \/ Merges(s)
        PROVE  UNCHANGED <<done, delivered, nats>>
    BY <2>1 DEF Searches, Finds, Ends, Publishes, GivesUp,
                Merges, HandsOver, Takes, SeesClosed, Quits
  <2>2. CASE CloseNats
    BY <2>2 DEF CloseNats
  <2> QED
    BY <2>1, <2>2 DEF Discovers, MergeNext
<1>4. SelectionInv'
  BY <1>1, <1>3
  DEF SelectInv, SelectionInv, EarlyInv, ProbeInv, FallbackInv, DoneInv,
      PCPPreferred, IndependentIPv6, NotFoundIsTrue
<1> QED
  BY <1>2, <1>4

\* A probe that ends while it is still waited for changes nothing else.
LEMMA ProbeEndsKeeps ==
  ASSUME SelectInv, NEW p \in Probes, ProbeEnds(p)
  PROVE  SelectTypeOK' /\ SelectionInv'
<1>1. /\ UNCHANGED <<mergeVars, selector, open, kept, result, early>>
      /\ \A q \in Probes : q # p => probe'[q] = probe[q]
      /\ probe'[p] \in {"found", "empty"} /\ probe[p] = "running"
  BY DEF ProbeEnds, selectVars, SelectInv, SelectTypeOK
<1>2. SelectTypeOK'
  BY DEF ProbeEnds, mergeVars, selectVars, SelectInv, SelectTypeOK, TypeOK
<1>3. EarlyInv'
  BY <1>1 DEF mergeVars, SelectInv, EarlyInv
<1>4. ProbeInv'
  BY <1>1 DEF mergeVars, SelectInv, SelectTypeOK, EarlyInv, ProbeInv
<1>5. /\ FallbackInv' /\ DoneInv'
      /\ PCPPreferred' /\ IndependentIPv6' /\ NotFoundIsTrue'
  BY <1>1 DEF mergeVars, SelectInv, FallbackInv, DoneInv,
              PCPPreferred, IndependentIPv6, NotFoundIsTrue
<1> QED
  BY <1>2, <1>3, <1>4, <1>5 DEF SelectionInv

\* The history is taken when the context ends, before selectGateway returns.
LEMMA ContextDoneKeeps ==
  ASSUME SelectInv, ContextDone PROVE SelectTypeOK' /\ SelectionInv'
<1>1. /\ ~done /\ done' = TRUE /\ early' = Published
      /\ UNCHANGED <<source, buffer, merger, nats, found, delivered>>
      /\ UNCHANGED <<probe, selector, open, kept, result>>
  BY DEF ContextDone, Cancel, selectVars
<1>2. selector = "select"
  BY <1>1 DEF SelectInv, DoneInv
<1>3. \A p \in Probes : p \in Published <=> probe[p] = "found"
  BY DEF Published, Probes
<1>4. SelectTypeOK'
  BY <1>1 DEF SelectInv, SelectTypeOK, TypeOK, Published, Kinds
<1>5. EarlyInv' /\ DoneInv'
  BY <1>1, <1>3 DEF EarlyInv, DoneInv
<1>6. ProbeInv'
  BY <1>1, <1>3 DEF SelectInv, ProbeInv
<1>7. FallbackInv'
  BY <1>1 DEF SelectInv, FallbackInv
<1>8. PCPPreferred' /\ IndependentIPv6' /\ NotFoundIsTrue'
  BY <1>1, <1>2 DEF PCPPreferred, IndependentIPv6, NotFoundIsTrue
<1> QED
  BY <1>4, <1>5, <1>6, <1>7, <1>8 DEF SelectionInv

\* The properties say nothing until selectGateway has returned.
LEMMA NotReturned ==
  ASSUME selector' # "returned"
  PROVE  PCPPreferred' /\ IndependentIPv6' /\ NotFoundIsTrue'
BY DEF PCPPreferred, IndependentIPv6, NotFoundIsTrue

\* A probe's result is kept before its channel is forgotten.
LEMMA ReceiveProbeKeeps ==
  ASSUME SelectInv, NEW p \in Probes, ReceiveProbe(p)
  PROVE  SelectTypeOK' /\ SelectionInv'
<1>1. /\ UNCHANGED <<mergeVars, probe, selector, result, early>>
      /\ open' = open \ {p} /\ kept' = Keep(p, probe[p] = "found")
      /\ Selecting /\ Readable(p)
  BY DEF ReceiveProbe
<1>2. selector # "returned" /\ p \in Kinds
  BY <1>1 DEF Selecting, Kinds
<1>3. SelectTypeOK'
  BY <1>1, <1>2 DEF mergeVars, Keep, SelectInv, SelectTypeOK, TypeOK
<1>4. EarlyInv' /\ DoneInv'
  BY <1>1 DEF mergeVars, SelectInv, EarlyInv, DoneInv
<1>5. ProbeInv'
  BY <1>1 DEF mergeVars, Keep, Readable, SelectInv, SelectTypeOK, EarlyInv,
              ProbeInv
<1>6. FallbackInv'
  BY <1>1 DEF mergeVars, Keep, Probes, SelectInv, FallbackInv
<1>7. PCPPreferred' /\ IndependentIPv6' /\ NotFoundIsTrue'
  BY <1>1, <1>2, NotReturned
<1> QED
  BY <1>3, <1>4, <1>5, <1>6, <1>7 DEF SelectionInv

\* A fallback gateway that is received is kept.
LEMMA ReceiveFallbackKeeps ==
  ASSUME SelectInv, ReceiveFallback PROVE SelectTypeOK' /\ SelectionInv'
<1>1. /\ UNCHANGED <<done, nats, probe, selector, open, result, early>>
      /\ kept' = kept \cup {"fallback"} /\ Selecting
  BY DEF ReceiveFallback, Delivers, Keep
<1>2. selector # "returned"
  BY <1>1 DEF Selecting
<1>3. MergeInv'
  BY SelectMergeInv DEF SelectNext, Selects
<1>4. SelectTypeOK'
  BY <1>1, <1>3 DEF MergeInv, SelectInv, SelectTypeOK, Kinds
<1>5. EarlyInv' /\ ProbeInv' /\ FallbackInv' /\ DoneInv'
  BY <1>1 DEF SelectInv, EarlyInv, ProbeInv, FallbackInv, DoneInv
<1>6. PCPPreferred' /\ IndependentIPv6' /\ NotFoundIsTrue'
  BY <1>1, <1>2, NotReturned
<1> QED
  BY <1>4, <1>5, <1>6 DEF SelectionInv

\* The fallbacks are forgotten when the merged channel is closed.
LEMMA FallbackFinishedKeeps ==
  ASSUME SelectInv, FallbackFinished PROVE SelectTypeOK' /\ SelectionInv'
<1>1. /\ UNCHANGED <<mergeVars, probe, selector, kept, result, early>>
      /\ open' = open \ {"fallback"} /\ nats = "closed" /\ Selecting
  BY DEF FallbackFinished
<1>2. selector # "returned"
  BY <1>1 DEF Selecting
<1>3. SelectTypeOK'
  BY <1>1 DEF mergeVars, SelectInv, SelectTypeOK, TypeOK
<1>4. EarlyInv' /\ FallbackInv' /\ DoneInv'
  BY <1>1 DEF mergeVars, SelectInv, EarlyInv, FallbackInv, DoneInv
<1>5. ProbeInv'
  BY <1>1 DEF mergeVars, Probes, SelectInv, ProbeInv
<1>6. PCPPreferred' /\ IndependentIPv6' /\ NotFoundIsTrue'
  BY <1>1, <1>2, NotReturned
<1> QED
  BY <1>3, <1>4, <1>5, <1>6 DEF SelectionInv

\* What selectGateway stops waiting for was not published in time.
LEMMA DrainKeeps ==
  ASSUME SelectInv, StartDraining \/ StopWaiting \/ EndDraining
  PROVE  SelectTypeOK' /\ SelectionInv'
<1>1. /\ UNCHANGED <<mergeVars, probe, kept, result, early>>
      /\ selector' \in {"select", "drain"} /\ open' \in {open, {}}
      /\ done
  BY DEF StartDraining, StopWaiting, EndDraining, SelectInv, DoneInv
<1>2. open' # open => \A p \in Probes : p \in open => probe[p] = "running"
  BY DEF StartDraining, StopWaiting, EndDraining, NothingReadable, Readable
<1>3. SelectTypeOK'
  BY <1>1 DEF mergeVars, SelectInv, SelectTypeOK, TypeOK
<1>4. EarlyInv' /\ FallbackInv' /\ DoneInv'
  BY <1>1 DEF mergeVars, SelectInv, EarlyInv, FallbackInv, DoneInv
<1>5. ProbeInv'
  BY <1>1, <1>2 DEF mergeVars, SelectInv, EarlyInv, ProbeInv
<1>6. PCPPreferred' /\ IndependentIPv6' /\ NotFoundIsTrue'
  BY <1>1, NotReturned
<1> QED
  BY <1>3, <1>4, <1>5, <1>6 DEF SelectionInv

\* The three properties hold of the result at the return.
LEMMA ReturnKeeps ==
  ASSUME SelectInv, Return PROVE SelectTypeOK' /\ SelectionInv'
<1>1. /\ selector' = "returned" /\ done' = TRUE
      /\ result' = [v4 |-> PrimaryGateway,
                    v6 |-> "pcp6" \in kept /\ PrimaryGateway # "none",
                    deadline |-> done]
      /\ early' = IF done THEN early ELSE Published
      /\ UNCHANGED <<source, buffer, merger, nats, found, delivered>>
      /\ UNCHANGED <<probe, open, kept>>
  BY DEF Return, DoneOnReturn
<1>2. /\ \A p \in Probes : p \notin open
      /\ kept \cap {"pcp4", "fallback"} # {} \/ "fallback" \notin open
  BY DEF Return, Settled, ProbesSettled, FallbackSettled
<1>3. \A p \in Probes : p \in Published <=> probe[p] = "found"
  BY DEF Published, Probes
<1>4. \A p \in Probes : p \in early' => p \in kept /\ probe[p] = "found"
  BY <1>1, <1>2, <1>3 DEF SelectInv, EarlyInv, ProbeInv
<1>5. SelectTypeOK'
  <2>1. open \subseteq {"fallback"}
    BY <1>2 DEF SelectInv, SelectTypeOK, Kinds
  <2>2. PrimaryGateway \in {"pcp4", "fallback", "none"}
    BY DEF PrimaryGateway
  <2>3. early' \subseteq Kinds
    BY <1>1 DEF SelectInv, SelectTypeOK, Published, Kinds
  <2>4. TypeOK'
    BY <1>1 DEF SelectInv, SelectTypeOK, TypeOK
  <2>5. done \in BOOLEAN
    BY DEF SelectInv, SelectTypeOK, TypeOK
  <2>6. result' \in [v4: {"pending", "pcp4", "fallback", "none"},
                     v6: BOOLEAN, deadline: BOOLEAN]
    BY <1>1, <2>2, <2>5
  <2> QED
    BY <1>1, <2>1, <2>3, <2>4, <2>6 DEF SelectInv, SelectTypeOK
<1>6. EarlyInv' /\ ProbeInv' /\ FallbackInv' /\ DoneInv'
  BY <1>1, <1>4 DEF SelectInv, EarlyInv, ProbeInv, FallbackInv, DoneInv
<1>7. PCPPreferred'
  BY <1>1, <1>4 DEF PCPPreferred, PrimaryGateway, Probes
<1>8. IndependentIPv6'
  BY <1>1, <1>4 DEF IndependentIPv6, PrimaryGateway, Probes
<1>9. NotFoundIsTrue'
  <2> SUFFICES ASSUME result'.v4 = "none", ~result'.deadline
               PROVE  early' \subseteq {"pcp6"}
    BY DEF NotFoundIsTrue
  <2>1. ~done /\ early' = Published
    BY <1>1
  <2>2. "pcp4" \notin kept /\ "fallback" \notin kept
    BY <1>1 DEF PrimaryGateway
  <2>3. "pcp4" \notin early'
    BY <1>4, <2>2 DEF Probes
  <2>4. nats = "closed"
    BY <1>2, <2>1, <2>2 DEF SelectInv, FallbackInv
  <2>5. ASSUME NEW s \in Sources PROVE ~HasPublished(s)
    <3>1. found[s] = 0
      BY <2>1, <2>2, <2>4, ClosedMeansDelivered DEF SelectInv, FallbackInv
    <3> QED
      BY <3>1 DEF HasPublished
  <2>6. "fallback" \notin early'
    BY <2>1, <2>5 DEF Published, Probes
  <2> QED
    BY <2>1, <2>3, <2>6 DEF Published, Probes
<1> QED
  BY <1>5, <1>6, <1>7, <1>8, <1>9 DEF SelectionInv

\* Steps that leave the selection alone.
LEMMA SelectStutterKeeps ==
  ASSUME SelectInv, UNCHANGED allVars PROVE SelectTypeOK' /\ SelectionInv'
BY DEF allVars, mergeVars, selectVars, SelectInv, SelectTypeOK, TypeOK,
       SelectionInv, EarlyInv, ProbeInv, FallbackInv, DoneInv,
       PCPPreferred, IndependentIPv6, NotFoundIsTrue

\* The invariant holds when DiscoverGateway is called.
LEMMA SelectInitial == SelectInit => SelectInv
<1> SUFFICES ASSUME SelectInit PROVE SelectInv
  OBVIOUS
<1>1. MergeInv /\ TypeOK
  BY MergeInitial DEF SelectInit, MergeInv
<1>2. SelectTypeOK
  BY <1>1 DEF SelectInit, SelectTypeOK, NoResult, Kinds
<1>3. EarlyInv /\ ProbeInv /\ DoneInv
  BY DEF SelectInit, MergeInit, EarlyInv, ProbeInv, DoneInv, Kinds
<1>4. FallbackInv
  BY DEF SelectInit, MergeInit, FallbackInv, Kinds
<1>5. PCPPreferred /\ IndependentIPv6 /\ NotFoundIsTrue
  BY DEF SelectInit, PCPPreferred, IndependentIPv6, NotFoundIsTrue
<1> QED
  BY <1>1, <1>2, <1>3, <1>4, <1>5 DEF SelectInv

\* Any step of the selection keeps its invariant.
LEMMA SelectStepKeeps ==
  ASSUME SelectInv, [SelectNext]_allVars PROVE SelectInv'
<1>1. MergeInv'
  BY SelectMergeInv
<1>2. SelectTypeOK' /\ SelectionInv'
  <2>1. CASE Selects
    BY <2>1, ReceiveProbeKeeps, ReceiveFallbackKeeps, FallbackFinishedKeeps,
       DrainKeeps, ReturnKeeps DEF Selects
  <2> QED
    BY <2>1, DiscoversKeeps, ProbeEndsKeeps, ContextDoneKeeps,
       SelectStutterKeeps DEF SelectNext
<1> QED
  BY <1>1, <1>2 DEF SelectInv, SelectionInv

\* The invariant of the selection holds throughout, for any fallback sources.
THEOREM SelectInvariant == SelectSpec => []SelectInv
<1>1. SelectInit => SelectInv
  BY SelectInitial
<1>2. SelectInv /\ [SelectNext]_allVars => SelectInv'
  BY SelectStepKeeps
<1> QED
  BY <1>1, <1>2, PTL DEF SelectSpec

\* selectGateway never stops waiting for a probe while the context lives, and
\* its state has its types (nat.go:127-133).
THEOREM SelectTypeCorrect == SelectSpec => []SelectTypeOK
<1>1. SelectInv => SelectTypeOK
  BY DEF SelectInv
<1> QED
  BY <1>1, SelectInvariant, PTL

\* A PCPv4 gateway found in time is never passed over (nat.go:114-116).
THEOREM PCPIsPreferred == SelectSpec => []PCPPreferred
<1>1. SelectInv => PCPPreferred
  BY DEF SelectInv
<1> QED
  BY <1>1, SelectInvariant, PTL

\* A PCPv6 server found in time is part of any gateway (nat.go:115, 127).
THEOREM IPv6IsIndependent == SelectSpec => []IndependentIPv6
<1>1. SelectInv => IndependentIPv6
  BY DEF SelectInv
<1> QED
  BY <1>1, SelectInvariant, PTL

\* Without a deadline, "no NAT found" means that nothing but at most a PCPv6
\* server was there (nat.go:174-175).
THEOREM NotFoundTells == SelectSpec => []NotFoundIsTrue
<1>1. SelectInv => NotFoundIsTrue
  BY DEF SelectInv
<1> QED
  BY <1>1, SelectInvariant, PTL
=============================================================================
