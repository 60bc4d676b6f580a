--------------------------- MODULE UPnPPromiseProofs --------------------------
(* UPnPMapping, within UPnPGateway, keeps the promise of the NAT interface   *)
(* (MappingPromise) for every mapping it has not lost track of, for all      *)
(* values of the constants: each step is a step of the promise or a stutter, *)
(* and each success is one of Promise!Succeeds.                              *)
EXTENDS UPnPProofs

\* The refinement mapping, with names for what the proofs hide.
Pending == [c \in Callers |-> PendingCall(c)]
Asked == [k \in Keys |-> AskedFor(k)]
Gone == lapsed \ Mapped

-----------------------------------------------------------------------------
LEMMA PendingLemma ==
    ASSUME UInv, NEW c \in Callers
    PROVE  /\ call[c].pc = "idle" => PendingCall(c) = Promise!NoCall
           /\ call[c].pc # "idle" =>
                /\ PendingCall(c) = [op |-> call[c].op, key |-> call[c].key]
                /\ PendingCall(c) # Promise!NoCall
                /\ call[c].op \in {"create", "delete"}
                /\ call[c].key \in Keys
<1>1. call[c] \in Call
  BY DEF UInv, MappingTypeOK
<1>2. call[c].op \in {"create", "delete"}
  BY <1>1 DEF Call
<1>3. call[c].pc # "idle" => call[c].key \in Keys
  BY DEF UInv, CallShape
<1>4. QED
  BY <1>2, <1>3 DEF PendingCall, Promise!NoCall

\* A new call is Promise!Begin.
LEMMA CallBegins ==
    ASSUME UInv, NEW c \in Callers, NEW k \in Keys,
           AddPortMapping(c, k) \/ DeletePortMapping(c, k)
    PROVE  \E op \in {"create", "delete"} : Promise!Begin(c, op, k)
<1>1. PICK op \in {"create", "delete"} :
        /\ call[c] = Idle
        /\ call' = [call EXCEPT ![c] = Asks(op, k)]
        /\ UNCHANGED <<ports, mu, queue, device, lapsed, doubt>>
  BY DEF AddPortMapping, DeletePortMapping
<1>2. /\ call[c].pc = "idle"
      /\ call'[c].pc = "lock" /\ call'[c].op = op /\ call'[c].key = k
      /\ \A d \in Callers \ {c} : call'[d] = call[d]
  BY <1>1, IdleLemma DEF UInv, MappingTypeOK, Asks
<1>3. Pending' = [Pending EXCEPT ![c] = [op |-> op, key |-> k]]
  BY <1>2 DEF Pending, PendingCall
<1>4. Pending[c] = Promise!NoCall
  BY <1>2, PendingLemma DEF Pending
<1>5. Asked' = [Asked EXCEPT ![k] = @ \cup {op}]
  <2>1. ASSUME NEW j \in Keys
        PROVE  AskedFor(j)' = IF j = k THEN AskedFor(j) \cup {op}
                                       ELSE AskedFor(j)
    BY <1>1, <1>2 DEF AskedFor
  <2>2. QED
    BY <2>1 DEF Asked
<1>6. UNCHANGED <<Mapped, Gone, doubt>>
  BY <1>1 DEF Mapped, Gone
<1>7. QED
  BY <1>3, <1>4, <1>5, <1>6 DEF Promise!Begin, Pending, Asked, Gone

\* What a success owes to the invariant: the device has what the call asked for,
\* and nothing else that was asked for the key is still to come.
LEMMA SuccessIsTrue ==
    ASSUME UInv, NEW c \in Callers, NEW k \in Keys,
           call[c].pc # "idle", call[c].key = k,
           \/ /\ call[c].op = "delete" /\ ports[k] = NoPort
              /\ \A d \in Callers : call[d].pc \notin {"send", "wait"}
           \/ /\ call[c].pc = "wait" /\ call[c].reply = "ok"
              /\ \A d \in Callers \ {c} : call[d].pc \notin {"send", "wait"},
           k \notin doubt
    PROVE  /\ IF call[c].op = "create" THEN k \in Mapped \cup Gone
                                       ELSE k \notin Mapped
           /\ \A i \in DOMAIN queue : queue[i].key # k
<1>1. call[c].op \in {"create", "delete"}
  BY PendingLemma
<1>2. CASE /\ call[c].op = "delete" /\ ports[k] = NoPort
           /\ \A d \in Callers : call[d].pc \notin {"send", "wait"}
  <2>1. k \notin Mapped
    BY <1>2, ConstantAssumption DEF UInv, DeviceKnown, Mapped
  <2>2. ASSUME NEW i \in DOMAIN queue, queue[i].key = k
        PROVE  FALSE
    <3>1. queue[i].from = Nobody
      BY <1>2, QueueLemma DEF UInv, LastInQueue
    <3>2. ports[k] = queue[i].port
      BY <2>2, <3>1, QueueLemma DEF UInv, DeletesCached, CreatesKnown
    <3>3. QED
      BY <1>2, <3>2, QueueLemma, ConstantAssumption DEF UInv
  <2>3. QED
    BY <1>2, <2>1, <2>2
<1>3. CASE /\ call[c].pc = "wait" /\ call[c].reply = "ok"
           /\ \A d \in Callers \ {c} : call[d].pc \notin {"send", "wait"}
  <2>1. queue = <<>>
    BY <1>3 DEF UInv, LastInQueue
  <2>2. PICK e \in ExtPorts : e = call[c].port
    BY <1>3 DEF UInv, CallShape
  <2>3. CASE call[c].op = "create"
    <3>1. device[Slot(k, e)] = k.port \/ k \in lapsed
      BY <1>3, <2>2, <2>3 DEF UInv, ReplyStands
    <3>2. k \in Mapped \cup Gone
      BY <2>2, <3>1 DEF Mapped, Gone
    <3>3. QED
      BY <2>1, <2>3, <3>2
  <2>4. CASE call[c].op = "delete"
    <3>1. ports[k] = e /\ device[Slot(k, e)] # k.port
      BY <1>3, <2>2, <2>4 DEF UInv, CallShape, ReplyStands
    <3>2. k \notin Mapped
      BY <1>3, <2>2, <3>1 DEF UInv, DeviceKnown, Mapped
    <3>3. QED
      BY <2>1, <2>4, <3>2
  <2>5. QED
    BY <1>1, <2>1, <2>3, <2>4
<1>4. QED
  BY <1>2, <1>3

\* A return without an error is Promise!Succeeds.
LEMMA ReturnSucceeds ==
    ASSUME UInv, NEW c \in Callers, Accepted(c) \/ DeletesNothing(c)
    PROVE  Promise!Succeeds(c)
<1>1. PICK k \in Keys : k = call[c].key
  BY DEF UInv, CallShape, Accepted, DeletesNothing
<1>2. PICK op \in {"create", "delete"} : op = call[c].op
  BY DEF UInv, MappingTypeOK, Call
<1>3. /\ call[c].pc # "idle" /\ call'[c] = Idle
      /\ \A d \in Callers \ {c} : call'[d] = call[d]
      /\ UNCHANGED <<queue, device, lapsed>>
  <2>1. CASE Accepted(c)
    BY <2>1, AcceptedLemma
  <2>2. CASE DeletesNothing(c)
    BY <2>2 DEF DeletesNothing, UInv, MappingTypeOK
  <2>3. QED
    BY <2>1, <2>2
<1>4. doubt \subseteq doubt'
  BY DEF Accepted, DeletesNothing
<1>5. k \notin doubt =>
        /\ IF op = "create" THEN k \in Mapped \cup Gone ELSE k \notin Mapped
        /\ \A i \in DOMAIN queue : queue[i].key # k
  <2>1. CASE Accepted(c)
    BY <1>1, <1>2, <1>3, <2>1, AcceptedLemma, SuccessIsTrue
  <2>2. CASE DeletesNothing(c)
    <3>1. \A d \in Callers : call[d].pc \notin {"send", "wait"}
      BY <2>2, ConstantAssumption DEF DeletesNothing, MuFree, UInv, MappingTypeOK
    <3>2. QED
      BY <1>1, <1>2, <1>3, <2>2, <3>1, SuccessIsTrue DEF DeletesNothing
  <2>3. QED
    BY <2>1, <2>2
<1>6. /\ Pending[c] = [op |-> op, key |-> k] /\ Pending[c] # Promise!NoCall
      /\ Pending' = [Pending EXCEPT ![c] = Promise!NoCall]
  <2>1. PendingCall(c)' = Promise!NoCall
    BY <1>3, IdleLemma DEF PendingCall, Promise!NoCall
  <2>2. \A d \in Callers \ {c} : PendingCall(d)' = PendingCall(d)
    BY <1>3 DEF PendingCall
  <2>3. QED
    BY <1>1, <1>2, <1>3, <2>1, <2>2, PendingLemma DEF Pending
<1>7. \A j \in Keys : Asked'[j] \subseteq Asked[j]
  <2>1. \A j \in Keys : AskedFor(j)' \subseteq AskedFor(j)
    BY <1>3, IdleLemma DEF AskedFor
  <2>2. QED
    BY <2>1 DEF Asked
<1> DEFINE others == {Pending[d].op : d \in {e \in Callers \ {c} : Pending[e].key = k}}
<1>8. k \notin doubt => Asked'[k] \subseteq others
  <2> SUFFICES ASSUME k \notin doubt, NEW o \in AskedFor(k)'
               PROVE  o \in others
    BY DEF Asked
  <2>1. \A i \in DOMAIN queue' : queue'[i].key # k
    BY <1>3, <1>5
  <2>2. PICK d \in Callers : /\ call'[d].pc # "idle" /\ call'[d].key = k
                             /\ call'[d].op = o
    BY <2>1 DEF AskedFor
  <2>3. d # c
    BY <1>3, <2>2, IdleLemma
  <2>4. Pending[d] = [op |-> o, key |-> k]
    BY <1>3, <2>2, <2>3 DEF Pending, PendingCall
  <2>5. QED
    BY <2>3, <2>4
<1>9. UNCHANGED <<Mapped, Gone>>
  BY <1>3 DEF Mapped, Gone
<1>10. Promise!Done(op, k) <=> IF op = "create" THEN k \in Mapped \cup Gone
                                                ELSE k \notin Mapped
  BY DEF Promise!Done, Gone
<1>11. Promise!OthersAsk(c, k) = others
  BY DEF Promise!OthersAsk, Pending
<1> HIDE DEF others
<1>12. Pending[c].key = k /\ Pending[c].op = op
  BY <1>6
<1>13. k \in doubt' \/ Promise!Done(op, k)
  BY <1>4, <1>5, <1>10
<1>14. k \in doubt' \/ Asked'[k] \subseteq
                         {op, Pending'[c].op} \cup Promise!OthersAsk(c, k)
  BY <1>4, <1>8, <1>11
<1>15. QED
  BY <1>4, <1>6, <1>7, <1>9, <1>12, <1>13, <1>14
     DEF Promise!Succeeds, Promise!MayDoubt, Pending, Asked, Gone

\* A step in which calls stay what they are and nothing new is asked for.
LEMMA SameCalls ==
    ASSUME \A d \in Callers : /\ call'[d].pc = "idle" <=> call[d].pc = "idle"
                              /\ call'[d].op = call[d].op
                              /\ call'[d].key = call[d].key
    PROVE  /\ Pending' = Pending
           /\ (\A i \in DOMAIN queue' :
                 \/ \E j \in DOMAIN queue : /\ queue'[i].op = queue[j].op
                                            /\ queue'[i].key = queue[j].key
                 \/ \E d \in Callers : /\ call[d].pc # "idle"
                                       /\ queue'[i].op = call[d].op
                                       /\ queue'[i].key = call[d].key)
              => Promise!OnlyFewer
<1>1. Pending' = Pending
  BY DEF Pending, PendingCall
<1>2. ASSUME \A i \in DOMAIN queue' :
               \/ \E j \in DOMAIN queue : /\ queue'[i].op = queue[j].op
                                          /\ queue'[i].key = queue[j].key
               \/ \E d \in Callers : /\ call[d].pc # "idle"
                                     /\ queue'[i].op = call[d].op
                                     /\ queue'[i].key = call[d].key
      PROVE  Promise!OnlyFewer
  <2>1. \A k \in Keys : AskedFor(k)' \subseteq AskedFor(k)
    BY <1>2 DEF AskedFor
  <2>2. QED
    BY <2>1 DEF Promise!OnlyFewer, Asked
<1>3. QED
  BY <1>1, <1>2

\* A caller gets the mutex or sends a request: Promise!Stumbles.
LEMMA GoesOn ==
    ASSUME UInv, NEW c \in Callers, Locks(c) \/ Sends(c)
    PROVE  Promise!Stumbles(c)
<1>1. PICK k \in Keys, op \in {"create", "delete"} :
        k = call[c].key /\ op = call[c].op
  BY DEF UInv, MappingTypeOK, CallShape, Call, Locks, Sends
<1>2. /\ call[c].pc # "idle"
      /\ \A d \in Callers : /\ call'[d].pc = "idle" <=> call[d].pc = "idle"
                            /\ call'[d].op = call[d].op
                            /\ call'[d].key = call[d].key
  <2>1. CASE Locks(c)
    <3> DEFINE known == ports[call[c].key] # NoPort
               first == IF known THEN 0 ELSE 1
    <3>1. /\ call[c] \in Call /\ call[c].pc = "lock"
          /\ call' = [call EXCEPT ![c].pc = "send", ![c].renews = known,
                                  ![c].attempt = first]
      BY <2>1 DEF Locks, UInv, MappingTypeOK
    <3> HIDE DEF known, first
    <3>2. QED
      BY <3>1 DEF UInv, MappingTypeOK, Call
  <2>2. CASE Sends(c)
    <3>1. PICK e \in PortsToTry(c) :
            call' = [call EXCEPT ![c].pc = "wait", ![c].port = e]
      BY <2>2 DEF Sends
    <3>2. call[c] \in Call /\ call[c].pc = "send"
      BY <2>2 DEF Sends, UInv, MappingTypeOK
    <3>3. QED
      BY <3>1, <3>2 DEF UInv, MappingTypeOK, Call
  <2>3. QED
    BY <2>1, <2>2
<1>3. UNCHANGED <<device, lapsed>> /\ doubt \subseteq doubt'
  BY DEF Locks, Sends
<1>4. \A i \in DOMAIN queue' :
        \/ \E j \in DOMAIN queue : /\ queue'[i].op = queue[j].op
                                   /\ queue'[i].key = queue[j].key
        \/ \E d \in Callers : /\ call[d].pc # "idle"
                              /\ queue'[i].op = call[d].op
                              /\ queue'[i].key = call[d].key
  <2>1. CASE Locks(c)
    BY <2>1 DEF Locks
  <2>2. CASE Sends(c)
    <3>1. PICK e \in PortsToTry(c) :
            queue' = Append(queue, [from |-> c, op |-> op,
                                    key |-> k, port |-> e])
      BY <1>1, <2>2 DEF Sends
    <3> DEFINE r == [from |-> c, op |-> op, key |-> k, port |-> e]
    <3>2. r.op = op /\ r.key = k
      OBVIOUS
    <3>3. queue \in Seq(Request) /\ queue' = Append(queue, r)
      BY <3>1 DEF UInv, MappingTypeOK
    <3> HIDE DEF r
    <3>4. \A i \in DOMAIN queue' :
            (i \in DOMAIN queue /\ queue'[i] = queue[i]) \/ queue'[i] = r
      BY <3>3
    <3>5. QED
      BY <1>1, <1>2, <3>2, <3>4
  <2>3. QED
    BY <2>1, <2>2
<1>5. Pending' = Pending /\ Promise!OnlyFewer
  BY <1>2, <1>4, SameCalls
<1>6. Pending[c] # Promise!NoCall
  BY <1>2, PendingLemma DEF Pending
<1>7. UNCHANGED <<Mapped, Gone>>
  BY <1>3 DEF Mapped, Gone
<1>8. QED
  BY <1>3, <1>5, <1>6, <1>7
     DEF Promise!Stumbles, Promise!MayDoubt, Pending, Gone

\* An attempt fails, and the call goes on or fails with it.
LEMMA AttemptFailsFails ==
    ASSUME UInv, NEW c \in Callers, AttemptFails(c)
    PROVE  Promise!Fails(c) \/ Promise!Stumbles(c)
<1>1. /\ call[c] \in Call /\ call[c].pc # "idle"
      /\ UNCHANGED <<device, lapsed>> /\ doubt \subseteq doubt'
  BY DEF AttemptFails, UInv, MappingTypeOK
<1>2. Pending[c] # Promise!NoCall
  BY <1>1, PendingLemma DEF Pending
<1>3. UNCHANGED <<Mapped, Gone>>
  BY <1>1 DEF Mapped, Gone
<1>4. \A i \in DOMAIN queue' : /\ i \in DOMAIN queue
                               /\ queue'[i].op = queue[i].op
                               /\ queue'[i].key = queue[i].key
  <2> DEFINE new(i) == IF queue[i].from = c
                         THEN [queue[i] EXCEPT !.from = Nobody] ELSE queue[i]
  <2>1. \A i \in DOMAIN queue :
          new(i).op = queue[i].op /\ new(i).key = queue[i].key
    BY QueueLemma DEF UInv, Request
  <2>2. queue' = [i \in DOMAIN queue |-> new(i)]
    BY DEF AttemptFails
  <2> HIDE DEF new
  <2>3. QED
    BY <2>1, <2>2
<1>5. CASE LastAttempt(c)
  <2>1. call'[c] = Idle /\ \A d \in Callers \ {c} : call'[d] = call[d]
    BY <1>5 DEF AttemptFails, UInv, MappingTypeOK
  <2>2. Pending' = [Pending EXCEPT ![c] = Promise!NoCall]
    <3>1. PendingCall(c)' = Promise!NoCall
      BY <2>1, IdleLemma DEF PendingCall, Promise!NoCall
    <3>2. \A d \in Callers \ {c} : PendingCall(d)' = PendingCall(d)
      BY <2>1 DEF PendingCall
    <3>3. QED
      BY <3>1, <3>2 DEF Pending
  <2>3. \A k \in Keys : AskedFor(k)' \subseteq AskedFor(k)
    BY <1>4, <2>1, IdleLemma DEF AskedFor
  <2>4. Promise!OnlyFewer
    BY <2>3 DEF Promise!OnlyFewer, Asked
  <2>5. QED
    BY <1>1, <1>2, <1>3, <2>2, <2>4
       DEF Promise!Fails, Promise!MayDoubt, Pending, Gone
<1>6. CASE ~LastAttempt(c)
  <2>1. \A d \in Callers : /\ call'[d].pc = "idle" <=> call[d].pc = "idle"
                           /\ call'[d].op = call[d].op
                           /\ call'[d].key = call[d].key
    BY <1>1, <1>6 DEF AttemptFails, UInv, MappingTypeOK, Call
  <2>2. Pending' = Pending /\ Promise!OnlyFewer
    BY <1>4, <2>1, SameCalls
  <2>3. QED
    BY <1>1, <1>2, <1>3, <2>2
       DEF Promise!Stumbles, Promise!MayDoubt, Pending, Gone
<1>7. QED
  BY <1>5, <1>6

-----------------------------------------------------------------------------
(* The device.                                                             *)

\* An answer changes no call and takes a request off the queue.
LEMMA AnswerAsks ==
    ASSUME UInv, queue # <<>>, NEW reply \in {"ok", "refused"},
           Answers(Head(queue), reply)
    PROVE  Pending' = Pending /\ Promise!OnlyFewer
<1>1. \A i \in DOMAIN queue' : \E j \in DOMAIN queue : queue'[i] = queue[j]
  BY AnswersLemma
<1>2. \A d \in Callers : /\ call'[d].pc = call[d].pc
                         /\ call'[d].op = call[d].op
                         /\ call'[d].key = call[d].key
  BY AnswersLemma
<1>3. QED
  BY <1>1, <1>2, SameCalls

\* While a request is at the device, what it has for a key that is not in doubt
\* is at the cached port.
LEMMA OnlyCached ==
    ASSUME UInv, queue # <<>>, NEW k \in Keys \ doubt, NEW e \in ExtPorts,
           device[Slot(k, e)] = k.port
    PROVE  ports[k] = e
BY NoAnswerYet DEF UInv, DeviceKnown

LEMMA AcceptCarriesOut ==
    ASSUME UInv, DeviceAccepts
    PROVE  \E k \in Keys, op \in {"create", "delete"} : Promise!CarriesOut(k, op)
<1>1. PICK k \in Keys, e \in ExtPorts, op \in {"create", "delete"} :
        Head(queue).key = k /\ Head(queue).port = e /\ Head(queue).op = op
  BY AnswersLemma DEF DeviceAccepts, Request
<1>2. /\ queue # <<>> /\ Answers(Head(queue), "ok")
      /\ device' = [device EXCEPT ![Slot(k, e)] =
                      IF op = "create" THEN k.port ELSE NoPort]
      /\ lapsed' = lapsed \ {k}
      /\ UNCHANGED <<ports, mu, doubt>>
  BY <1>1 DEF DeviceAccepts
<1>3. /\ device'[Slot(k, e)] = IF op = "create" THEN k.port ELSE NoPort
      /\ \A s \in Slots : s # Slot(k, e) => device'[s] = device[s]
  BY <1>2, SlotLemma DEF UInv, MappingTypeOK
<1>4. 1 \in DOMAIN queue /\ queue[1].key = k /\ queue[1].port = e
      /\ queue[1].op = op
  BY <1>1, <1>2, AnswersLemma
<1>5. Pending' = Pending /\ Promise!OnlyFewer
  BY <1>2, AnswerAsks
<1>6. op \in Asked[k]
  BY <1>4 DEF Asked, AskedFor
<1>7. ASSUME NEW j \in Keys \ doubt, j # k
      PROVE  j \in Mapped' <=> j \in Mapped
  <2>1. ASSUME NEW f \in ExtPorts
        PROVE  device'[Slot(j, f)] = j.port <=> device[Slot(j, f)] = j.port
    <3>1. CASE Slot(j, f) # Slot(k, e)
      BY <1>3, <3>1, SlotLemma
    <3>2. CASE Slot(j, f) = Slot(k, e)
      <4>1. f = e /\ j.protocol = k.protocol /\ j.port # k.port
        BY <1>7, <3>2, SlotLemma DEF Slot
      <4>2. device'[Slot(j, f)] # j.port
        BY <1>3, <3>2, <4>1, SlotLemma
      <4>3. ASSUME device[Slot(j, f)] = j.port
            PROVE  FALSE
        <5>1. ports[j] = e /\ ports[j] # NoPort
          BY <1>2, <4>1, <4>3, OnlyCached, ConstantAssumption
        <5>2. QED
          BY <1>4, <1>7, <4>1, <5>1 DEF UInv, NoClash, Rivals
      <4>4. QED
        BY <4>2, <4>3
    <3>3. QED
      BY <3>1, <3>2
  <2>2. QED
    BY <2>1 DEF Mapped
<1>8. CASE op = "create"
  <2>1. k \in Mapped'
    BY <1>3, <1>8 DEF Mapped
  <2>2. Promise!Surely(Mapped', Mapped \cup {k})
    BY <1>7, <2>1 DEF Promise!Surely, Mapped
  <2>3. Promise!Surely(Gone', Gone \ {k})
    BY <1>2, <1>7, <2>1 DEF Promise!Surely, Gone, UInv, MappingTypeOK
  <2>4. QED
    BY <1>2, <1>5, <1>6, <1>8, <2>2, <2>3
       DEF Promise!CarriesOut, Pending, Asked, Gone
<1>9. CASE op = "delete"
  <2>1. k \in doubt \/ k \notin Mapped'
    <3> SUFFICES ASSUME k \notin doubt, NEW f \in ExtPorts,
                        device'[Slot(k, f)] = k.port
                 PROVE  FALSE
      BY DEF Mapped
    <3>1. f # e /\ device[Slot(k, f)] = k.port
      BY <1>3, <1>9, SlotLemma
    <3>2. ports[k] = f
      BY <1>2, <3>1, OnlyCached
    <3>3. ports[k] = e
      BY <1>4, <1>9 DEF UInv, DeletesCached
    <3>4. QED
      BY <3>1, <3>2, <3>3
  <2>2. Promise!Surely(Mapped', Mapped \ {k})
    BY <1>7, <2>1 DEF Promise!Surely, Mapped
  <2>3. Gone' \ doubt \subseteq Gone
    BY <1>2, <1>7 DEF Gone, UInv, MappingTypeOK
  <2>4. QED
    BY <1>2, <1>5, <1>6, <1>9, <2>2, <2>3
       DEF Promise!CarriesOut, Pending, Asked, Gone
<1>10. QED
  BY <1>8, <1>9

LEMMA RefuseQuiet ==
    ASSUME UInv, DeviceRefuses
    PROVE  Promise!Quiet
<1>1. /\ queue # <<>> /\ Answers(Head(queue), "refused")
      /\ UNCHANGED <<device, lapsed, doubt>>
  BY DEF DeviceRefuses
<1>2. Pending' = Pending /\ Promise!OnlyFewer
  BY <1>1, AnswerAsks
<1>3. UNCHANGED <<Mapped, Gone>>
  BY <1>1 DEF Mapped, Gone
<1>4. QED
  BY <1>1, <1>2, <1>3 DEF Promise!Quiet, Pending, Gone

\* A mapping ends: Promise!Drops, or another one of the key is still there.
LEMMA ExpireDrops ==
    ASSUME UInv, NEW s \in Slots, Expire(s)
    PROVE  (\E k \in Keys : Promise!Drops(k)) \/ Promise!Quiet
<1> DEFINE k == [protocol |-> s[1], port |-> device[s]]
<1>1. /\ device[s] \in InternalPorts
      /\ device' = [device EXCEPT ![s] = NoPort]
      /\ lapsed' = lapsed \cup {k}
      /\ UNCHANGED <<call, ports, mu, queue, doubt>>
  BY DEF Expire
<1>2. PICK e \in ExtPorts : s = <<s[1], e>> /\ s[1] \in Protocols
  BY DEF Slots
<1>3. k \in Keys /\ s = Slot(k, e) /\ k.port = device[s]
  BY <1>1, <1>2 DEF Slot, Keys
<1> HIDE DEF k
<1>4. k \in Mapped
  BY <1>3 DEF Mapped
<1>5. /\ device'[s] = NoPort
      /\ \A t \in Slots : t # s => device'[t] = device[t]
  BY <1>1 DEF UInv, MappingTypeOK
<1>6. \A j \in Keys : j # k => (j \in Mapped' <=> j \in Mapped)
  <2>1. ASSUME NEW j \in Keys, j # k, NEW f \in ExtPorts
        PROVE  device'[Slot(j, f)] = j.port <=> device[Slot(j, f)] = j.port
    BY <1>3, <1>5, <2>1, SlotLemma
  <2>2. QED
    BY <2>1 DEF Mapped
<1>7. UNCHANGED <<Pending, Asked, doubt>>
  BY <1>1 DEF Pending, PendingCall, Asked, AskedFor
<1>8. Mapped' \subseteq Keys /\ Mapped \subseteq Keys
  BY DEF Mapped
<1>9. CASE k \in Mapped'
  <2>1. Mapped' = Mapped
    BY <1>4, <1>6, <1>8, <1>9
  <2>2. Gone' \subseteq Gone
    BY <1>1, <1>9, <2>1 DEF Gone
  <2>3. Promise!OnlyFewer
    BY <1>7 DEF Promise!OnlyFewer, Asked
  <2>4. QED
    BY <1>7, <2>1, <2>2, <2>3 DEF Promise!Quiet, Pending, Gone
<1>10. CASE k \notin Mapped'
  <2>1. Mapped' = Mapped \ {k}
    BY <1>6, <1>8, <1>10
  <2>2. Gone' = Gone \cup {k}
    BY <1>1, <2>1 DEF Gone
  <2>3. QED
    BY <1>3, <1>4, <1>7, <2>1, <2>2 DEF Promise!Drops, Pending, Asked, Gone
<1>11. QED
  BY <1>9, <1>10

LEMMA OthersQuiet ==
    ASSUME UInv, NEW s \in Slots, OthersUse(s)
    PROVE  Promise!Quiet
<1>1. /\ device[s] \in {NoPort, Other} /\ device'[s] \in {NoPort, Other}
      /\ \A t \in Slots : t # s => device'[t] = device[t]
      /\ UNCHANGED <<call, ports, mu, queue, lapsed, doubt>>
  BY DEF OthersUse, UInv, MappingTypeOK
<1>2. \A k \in Keys, e \in ExtPorts :
        device'[Slot(k, e)] = k.port <=> device[Slot(k, e)] = k.port
  BY <1>1, SlotLemma
<1>3. Mapped' = Mapped
  BY <1>2 DEF Mapped
<1>4. UNCHANGED <<Pending, Asked, Gone>>
  BY <1>1, <1>3 DEF Pending, PendingCall, Asked, AskedFor, Gone
<1>5. Promise!OnlyFewer
  BY <1>4 DEF Promise!OnlyFewer, Asked
<1>6. QED
  BY <1>1, <1>3, <1>4, <1>5 DEF Promise!Quiet, Pending, Gone

-----------------------------------------------------------------------------
LEMMA FreshPromise == MappingInit => Promise!Init
<1> SUFFICES ASSUME MappingInit PROVE Promise!Init
  OBVIOUS
<1>1. \A c \in Callers : call[c].pc = "idle"
  BY IdleLemma DEF MappingInit
<1>2. Pending = [c \in Callers |-> Promise!NoCall]
  BY <1>1 DEF Pending, PendingCall, Promise!NoCall
<1>3. \A k \in Keys : AskedFor(k) = {}
  BY <1>1 DEF MappingInit, AskedFor
<1>4. Asked = [k \in Keys |-> {}]
  BY <1>3 DEF Asked
<1>5. \A k \in Keys, e \in ExtPorts : device[Slot(k, e)] # k.port
  <2>1. \A s \in Slots : device[s] \in {NoPort, Other}
    BY DEF MappingInit
  <2>2. QED
    BY <2>1, SlotLemma
<1>6. Mapped = {} /\ Gone = {} /\ doubt = {}
  BY <1>5 DEF MappingInit, Mapped, Gone
<1>7. QED
  BY <1>2, <1>4, <1>6 DEF Promise!Init, Pending, Asked, Gone

\* A new object knows of nothing: Promise!Dies.
LEMMA RestartDies ==
    ASSUME UInv, Restart
    PROVE  Promise!Dies
<1>1. device' \in [Slots -> {NoPort, Other}]
  BY DEF Restart, UInv, MappingTypeOK
<1>2. MappingInit'
  BY <1>1 DEF Restart, MappingInit
<1>3. MappingInit' => Promise!Init'
  BY FreshPromise, PTL
<1>4. Promise!Init' => Promise!Dies
  BY DEF Promise!Init, Promise!Dies
<1>5. QED
  BY <1>2, <1>3, <1>4

\* The search, and whatever changes nothing of the mappings.
LEMMA SearchStutters ==
    ASSUME UNCHANGED mappingVars
    PROVE  UNCHANGED Promise!vars
<1>1. UNCHANGED <<call, ports, mu, queue, device, lapsed, doubt>>
  BY DEF mappingVars
<1>2. UNCHANGED <<Pending, Asked, Mapped, Gone, doubt>>
  BY <1>1 DEF Pending, PendingCall, Asked, AskedFor, Mapped, Gone
<1>3. QED
  BY <1>2 DEF Promise!vars, Pending, Asked, Gone

LEMMA PromiseStep ==
    ASSUME UInv, [Next]_vars
    PROVE  [Promise!Next]_(Promise!vars)
<1>1. CASE UNCHANGED mappingVars
  BY <1>1, SearchStutters
<1>2. CASE Restart
  BY <1>2, RestartDies DEF Promise!Next
<1>3. CASE MappingNext
  <2>1. ASSUME NEW c \in Callers, NEW k \in Keys,
               AddPortMapping(c, k) \/ DeletePortMapping(c, k)
        PROVE  Promise!Next
    BY <2>1, CallBegins DEF Promise!Next, Promise!Op
  <2>2. ASSUME NEW c \in Callers, CallerStep(c)
        PROVE  Promise!Next
    <3>1. \/ Promise!Succeeds(c) \/ Promise!Fails(c) \/ Promise!Stumbles(c)
      BY <2>2, ReturnSucceeds, GoesOn, AttemptFailsFails DEF CallerStep
    <3>2. QED
      BY <3>1 DEF Promise!Next
  <2>3. CASE DeviceAccepts \/ DeviceRefuses
    BY <2>3, AcceptCarriesOut, RefuseQuiet DEF Promise!Next, Promise!Op
  <2>4. ASSUME NEW s \in Slots, Expire(s) \/ OthersUse(s)
        PROVE  Promise!Next
    BY <2>4, ExpireDrops, OthersQuiet DEF Promise!Next
  <2>5. QED
    BY <1>3, <2>1, <2>2, <2>3, <2>4 DEF MappingNext
<1>4. QED
  BY <1>1, <1>2, <1>3 DEF Next, Uses, Rediscovers, vars

\* The UPnP gateway object implements the promise of the NAT interface for every
\* mapping it has not lost track of, and reports as success only what the promise
\* calls one (nat.go:36-39, upnp.go:512-571).
THEOREM PromiseKept == Spec => KeepsPromise
<1>1. Init => Promise!Init
  BY FreshPromise DEF Init
<1>2. UInv /\ [Next]_vars => [Promise!Next]_(Promise!vars)
  BY PromiseStep
<1>3. UInv /\ [Next]_vars =>
        [\A c \in Callers :
           Accepted(c) \/ DeletesNothing(c) => Promise!Succeeds(c)]_mappingVars
  BY ReturnSucceeds
<1>4. QED
  BY <1>1, <1>2, <1>3, UInvariant, PTL DEF Spec, KeepsPromise, Promise!Spec
=============================================================================
