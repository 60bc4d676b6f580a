------------------------------ MODULE UPnPProofs ------------------------------
(* Theorems about UPnPGateway, for all values of the constants: first the   *)
(* mappings (UPnPMapping), then the search (UnicastSearch).                 *)
EXTENDS UPnPGateway, WellFoundedInduction, SequenceTheorems, TLAPS

-----------------------------------------------------------------------------
(* The inductive invariant.                                                *)

\* The local variables of a call, by where it is.  While it holds the mutex the
\* cache entry of its key is what it was when it got it.
CallShape ==
    \A c \in Callers :
        /\ call[c].pc = "idle" => call[c] = Idle
        /\ call[c].pc # "idle" => call[c].key \in Keys
        /\ call[c].pc # "wait" => call[c].reply = "none"
        /\ call[c].pc = "wait" => call[c].port \in ExtPorts
        /\ call[c].pc \in {"send", "wait"} =>
             /\ call[c].renews <=> ports[call[c].key] # NoPort
             /\ call[c].attempt = 0 => call[c].renews
             /\ call[c].op = "delete" => call[c].attempt = 0
        /\ call[c].pc = "wait" /\ call[c].attempt = 0 =>
             call[c].port = ports[call[c].key]

\* The request that a caller waits for is the last at the device, so once it is
\* answered nothing is left there.
LastInQueue ==
    /\ \A i \in DOMAIN queue : queue[i].from # Nobody =>
         LET c == queue[i].from IN
         /\ i = Len(queue)
         /\ call[c].pc = "wait" /\ call[c].reply = "none"
         /\ call[c].op = queue[i].op
         /\ call[c].key = queue[i].key /\ call[c].port = queue[i].port
    /\ \A c \in Callers :
         call[c].pc = "wait" /\ call[c].reply # "none" => queue = <<>>

\* The cache changes only when nothing is left at the device.
DeletesCached ==
    \A i \in DOMAIN queue :
        queue[i].op = "delete" => ports[queue[i].key] = queue[i].port

Rivals(j, k) == j # k /\ j.protocol = k.protocol

\* Two keys at one external port are both in doubt.
NoClash ==
    \A j, k \in Keys : Rivals(j, k) /\ ports[j] # NoPort =>
        /\ ports[k] = ports[j] => j \in doubt /\ k \in doubt
        /\ \A c \in Callers :
             call[c].pc = "wait" /\ call[c].key = k /\ call[c].port = ports[j]
               => j \in doubt /\ k \in doubt
        /\ \A i \in DOMAIN queue :
             queue[i].key = k /\ queue[i].port = ports[j]
               => j \in doubt /\ k \in doubt

\* Addressable, and which request of a waiting caller it is that counts.
DeviceKnown ==
    \A k \in Keys \ doubt, e \in ExtPorts :
        device[Slot(k, e)] = k.port =>
          \/ ports[k] = e
          \/ \E c \in Callers :
               /\ call[c].pc = "wait" /\ call[c].reply = "ok"
               /\ call[c].key = k /\ call[c].port = e

CreatesKnown ==
    \A i \in DOMAIN queue :
        queue[i].op = "create" /\ queue[i].key \notin doubt =>
          ports[queue[i].key] = queue[i].port \/ queue[i].from # Nobody

\* An answer stands until its caller takes it.
ReplyStands ==
    \A c \in Callers : call[c].pc = "wait" /\ call[c].reply = "ok" =>
        LET k == call[c].key
            there == device[Slot(k, call[c].port)] = k.port
        IN IF call[c].op = "create" THEN there \/ k \in lapsed ELSE ~there

UInv ==
    /\ MappingTypeOK
    /\ CallShape
    /\ LastInQueue
    /\ DeletesCached
    /\ NoClash
    /\ DeviceKnown
    /\ CreatesKnown
    /\ ReplyStands

USE DEF Rivals

-----------------------------------------------------------------------------
LEMMA IdleLemma ==
    /\ Idle \in Call
    /\ Idle = [pc |-> "idle", op |-> "create", key |-> NoKey, attempt |-> 0,
               renews |-> FALSE, port |-> NoPort, reply |-> "none"]
<1>1. Idle = [pc |-> "idle", op |-> "create", key |-> NoKey, attempt |-> 0,
              renews |-> FALSE, port |-> NoPort, reply |-> "none"]
  <2> DEFINE r == Asks("create", NoKey)
  <2>1. r = [pc |-> "lock", op |-> "create", key |-> NoKey, attempt |-> 0,
             renews |-> FALSE, port |-> NoPort, reply |-> "none"]
    BY DEF Asks
  <2> HIDE DEF r
  <2>2. Idle = [r EXCEPT !.pc = "idle"]
    BY DEF Idle, r
  <2>3. QED
    BY <2>1, <2>2
<1>2. 0 \in 0 .. RandomTries
  BY ConstantAssumption
<1>3. QED
  BY <1>1, <1>2 DEF Call

LEMMA QueueLemma ==
    ASSUME MappingTypeOK
    PROVE  /\ Len(queue) \in Nat /\ DOMAIN queue = 1 .. Len(queue)
           /\ \A i \in DOMAIN queue :
                /\ queue[i] \in Request
                /\ queue[i].from \in Callers \cup {Nobody}
                /\ queue[i].op \in {"create", "delete"}
                /\ queue[i].key \in Keys /\ queue[i].port \in ExtPorts
<1>1. queue \in Seq(Request)
  BY DEF MappingTypeOK
<1>2. Len(queue) \in Nat /\ DOMAIN queue = 1 .. Len(queue)
      /\ \A i \in DOMAIN queue : queue[i] \in Request
  BY <1>1
<1>3. QED
  BY <1>2 DEF Request

LEMMA UInit == MappingInit => UInv
<1> SUFFICES ASSUME MappingInit PROVE UInv
  OBVIOUS
<1>1. /\ call \in [Callers -> Call]
      /\ \A c \in Callers : call[c] = Idle
  BY IdleLemma DEF MappingInit
<1>2. MappingTypeOK
  <2>1. queue \in Seq(Request) /\ Len(queue) <= MaxQueue
    BY ConstantAssumption DEF MappingInit
  <2>2. QED
    BY <1>1, <2>1, IdleLemma, ConstantAssumption DEF MappingInit, MappingTypeOK
<1>3. CallShape /\ ReplyStands
  BY <1>1, IdleLemma DEF CallShape, ReplyStands
<1>4. LastInQueue /\ DeletesCached /\ CreatesKnown
  BY <1>1, IdleLemma DEF MappingInit, LastInQueue, DeletesCached, CreatesKnown
<1>5. NoClash
  BY <1>1 DEF MappingInit, NoClash
<1>6. DeviceKnown
  <2>1. \A k \in Keys, e \in ExtPorts :
          Slot(k, e) \in Slots /\ k.port \in InternalPorts
    BY DEF Slots, Slot, Keys
  <2>2. QED
    BY <2>1, ConstantAssumption DEF MappingInit, DeviceKnown
<1>7. QED
  BY <1>2, <1>3, <1>4, <1>5, <1>6 DEF UInv

\* Steps in which a caller that does not hold the mutex begins a call, waits on,
\* or returns, and nothing else changes.
LEMMA UOutside ==
    ASSUME UInv, NEW c \in Callers, call[c].pc \in {"idle", "lock"},
           call' \in [Callers -> Call],
           \/ call'[c] = Idle
           \/ /\ call'[c].pc = "lock" /\ call'[c].key \in Keys
              /\ call'[c].reply = "none",
           \A d \in Callers \ {c} : call'[d] = call[d],
           UNCHANGED <<ports, mu, queue, device, lapsed, doubt>>
    PROVE  UInv'
<1>1. call'[c].pc \in {"idle", "lock"}
  BY IdleLemma
<1>2. MappingTypeOK'
  BY <1>1 DEF UInv, MappingTypeOK
<1>3. CallShape'
  BY <1>1, IdleLemma DEF UInv, CallShape
<1>4. LastInQueue'
  <2>1. \A i \in DOMAIN queue :
          queue[i].from # Nobody => queue[i].from \in Callers \ {c}
    BY QueueLemma, ConstantAssumption DEF UInv, LastInQueue
  <2>2. QED
    BY <1>1, <2>1 DEF UInv, LastInQueue
<1>5. DeletesCached' /\ CreatesKnown'
  BY DEF UInv, DeletesCached, CreatesKnown
<1>6. NoClash'
  BY <1>1 DEF UInv, NoClash
<1>7. DeviceKnown'
  BY <1>1 DEF UInv, DeviceKnown
<1>8. ReplyStands'
  BY <1>1 DEF UInv, ReplyStands
<1>9. QED
  BY <1>2, <1>3, <1>4, <1>5, <1>6, <1>7, <1>8 DEF UInv

LEMMA UBegins ==
    ASSUME UInv, NEW c \in Callers, NEW k \in Keys,
           AddPortMapping(c, k) \/ DeletePortMapping(c, k)
    PROVE  UInv'
<1>1. PICK op \in {"create", "delete"} :
        /\ call[c] = Idle
        /\ call' = [call EXCEPT ![c] = Asks(op, k)]
        /\ UNCHANGED <<ports, mu, queue, device, lapsed, doubt>>
  BY DEF AddPortMapping, DeletePortMapping
<1>2. Asks(op, k) \in Call
  BY ConstantAssumption DEF Asks, Call
<1>3. call' \in [Callers -> Call] /\ call'[c] = Asks(op, k)
      /\ \A d \in Callers \ {c} : call'[d] = call[d]
  BY <1>1, <1>2 DEF UInv, MappingTypeOK
<1>4. /\ call[c].pc = "idle" /\ call'[c].pc = "lock" /\ call'[c].key = k
      /\ call'[c].reply = "none"
  BY <1>1, <1>3, IdleLemma DEF Asks
<1>5. QED
  BY <1>1, <1>3, <1>4, UOutside

LEMMA UDeletesNothing ==
    ASSUME UInv, NEW c \in Callers, DeletesNothing(c)
    PROVE  UInv'
<1>2. call' \in [Callers -> Call] /\ call'[c] = Idle
      /\ \A d \in Callers \ {c} : call'[d] = call[d]
  BY IdleLemma DEF UInv, MappingTypeOK, DeletesNothing
<1>3. QED
  BY <1>2, UOutside DEF DeletesNothing

\* A caller that gets the mutex has nothing at the device yet.
LEMMA ULocks ==
    ASSUME UInv, NEW c \in Callers, Locks(c)
    PROVE  UInv'
<1> DEFINE k == call[c].key
           known == ports[k] # NoPort
<1>1. /\ call[c] \in Call /\ call[c].pc = "lock" /\ mu = Nobody
      /\ known \/ call[c].op = "create"
      /\ mu' = c
      /\ call' = [call EXCEPT ![c].pc = "send", ![c].renews = known,
                              ![c].attempt = IF known THEN 0 ELSE 1]
      /\ UNCHANGED <<ports, queue, device, lapsed, doubt>>
  BY DEF UInv, MappingTypeOK, Locks, MuFree
<1>2. (IF known THEN 0 ELSE 1) \in 0 .. RandomTries
  BY ConstantAssumption
<1>3. /\ call' \in [Callers -> Call]
      /\ call'[c] = [call[c] EXCEPT !.pc = "send", !.renews = known,
                                    !.attempt = IF known THEN 0 ELSE 1]
      /\ \A d \in Callers \ {c} : call'[d] = call[d]
  <2>1. [call[c] EXCEPT !.pc = "send", !.renews = known,
                        !.attempt = IF known THEN 0 ELSE 1] \in Call
    BY <1>1, <1>2 DEF Call
  <2>2. QED
    BY <1>1, <2>1 DEF UInv, MappingTypeOK
<1>4. /\ call'[c].pc = "send" /\ call'[c].key = k /\ call'[c].op = call[c].op
      /\ call'[c].renews <=> known
      /\ call'[c].reply = call[c].reply
      /\ call'[c].attempt = 0 <=> known
  <2> DEFINE first == IF known THEN 0 ELSE 1
             knownToBe == known
  <2>1. /\ call[c] \in Call
        /\ call'[c] = [call[c] EXCEPT !.pc = "send", !.renews = knownToBe,
                                      !.attempt = first]
    BY <1>1, <1>3
  <2>2. first = 0 <=> known
    OBVIOUS
  <2> HIDE DEF first, knownToBe
  <2>3. /\ call'[c].pc = "send" /\ call'[c].key = k /\ call'[c].op = call[c].op
        /\ call'[c].reply = call[c].reply
        /\ call'[c].renews = knownToBe /\ call'[c].attempt = first
    BY <2>1 DEF Call
  <2>4. call'[c].renews <=> known
    BY <2>3, Zenon DEF knownToBe
  <2>5. QED
    BY <2>2, <2>3, <2>4, Zenon
<1>5. \A d \in Callers : call[d].pc \notin {"send", "wait"}
  BY <1>1, ConstantAssumption DEF UInv, MappingTypeOK
<1>6. k \in Keys /\ call[c].reply = "none"
  BY <1>1 DEF UInv, CallShape
<1> HIDE DEF k
<1>7. MappingTypeOK'
  BY <1>1, <1>3, <1>4, <1>5 DEF UInv, MappingTypeOK
<1>8. CallShape'
  <2> SUFFICES ASSUME NEW d \in Callers
               PROVE  CallShape!(d)'
    BY DEF CallShape
  <2>1. CASE d = c
    BY <1>1, <1>4, <1>6, <2>1 DEF k
  <2>2. CASE d # c
    BY <1>1, <1>3, <2>2 DEF UInv, CallShape
  <2>3. QED
    BY <2>1, <2>2
<1>9. LastInQueue'
  <2>1. \A i \in DOMAIN queue : queue[i].from = Nobody
    BY <1>5, QueueLemma DEF UInv, LastInQueue
  <2>2. QED
    BY <1>1, <1>4, <1>3, <1>5, <2>1 DEF LastInQueue
<1>10. DeletesCached' /\ CreatesKnown'
  BY <1>1 DEF UInv, DeletesCached, CreatesKnown
<1>11. NoClash'
  BY <1>1, <1>3, <1>4 DEF UInv, NoClash
<1>12. DeviceKnown'
  BY <1>1, <1>3, <1>5 DEF UInv, DeviceKnown
<1>13. ReplyStands'
  BY <1>1, <1>3, <1>4 DEF UInv, ReplyStands
<1>14. QED
  BY <1>7, <1>8, <1>9, <1>10, <1>11, <1>12, <1>13 DEF UInv

\* The request goes to the end of the queue; a clash is noted.
LEMMA USends ==
    ASSUME UInv, NEW c \in Callers, Sends(c)
    PROVE  UInv'
<1>1. PICK e \in PortsToTry(c) :
        /\ call' = [call EXCEPT ![c].pc = "wait", ![c].port = e]
        /\ queue' = Append(queue, [from |-> c, op |-> call[c].op,
                                   key |-> call[c].key, port |-> e])
        /\ doubt' = doubt \cup Clash(c, e)
  BY DEF Sends
<1>2. PICK k \in Keys, op \in {"create", "delete"} :
        k = call[c].key /\ op = call[c].op
  BY DEF UInv, MappingTypeOK, CallShape, Sends, Call
<1>3. /\ call[c] \in Call /\ call[c].pc = "send" /\ call[c].reply = "none"
      /\ UNCHANGED <<ports, mu, device, lapsed>> /\ Len(queue) < MaxQueue
      /\ call[c].renews <=> ports[k] # NoPort
      /\ call[c].attempt = 0 => call[c].renews
      /\ op = "delete" => call[c].attempt = 0
  BY <1>2 DEF UInv, MappingTypeOK, CallShape, Sends
<1>4. /\ e \in ExtPorts
      /\ call[c].attempt = 0 => e = ports[k]
  BY <1>2, <1>3 DEF PortsToTry, UInv, MappingTypeOK
<1>5. /\ call' \in [Callers -> Call]
      /\ call'[c] = [call[c] EXCEPT !.pc = "wait", !.port = e]
      /\ \A d \in Callers \ {c} : call'[d] = call[d]
  <2>1. [call[c] EXCEPT !.pc = "wait", !.port = e] \in Call
    BY <1>3, <1>4 DEF Call
  <2>2. QED
    BY <1>1, <2>1 DEF UInv, MappingTypeOK
<1>6. /\ call'[c].pc = "wait" /\ call'[c].port = e /\ call'[c].key = k
      /\ call'[c].op = op /\ call'[c].reply = "none"
      /\ call'[c].renews = call[c].renews /\ call'[c].attempt = call[c].attempt
  BY <1>2, <1>3, <1>5 DEF Call
<1>7. mu = c /\ \A d \in Callers \ {c} : call[d].pc \notin {"send", "wait"}
  BY <1>3 DEF UInv, MappingTypeOK
<1> DEFINE r == [from |-> c, op |-> op, key |-> k, port |-> e]
<1>8. /\ queue' \in Seq(Request) /\ Len(queue') = Len(queue) + 1
      /\ DOMAIN queue' = 1 .. Len(queue) + 1
      /\ \A i \in DOMAIN queue : queue'[i] = queue[i]
      /\ queue'[Len(queue) + 1] = r
  <2>1. r \in Request
    BY <1>4 DEF Request
  <2>2. queue \in Seq(Request) /\ queue' = Append(queue, r)
    BY <1>1, <1>2 DEF UInv, MappingTypeOK
  <2> HIDE DEF r
  <2>3. QED
    BY <2>1, <2>2
<1>9. \A i \in DOMAIN queue' :
        i \in DOMAIN queue \/ (i = Len(queue) + 1 /\ queue'[i] = r)
  BY <1>8, QueueLemma DEF UInv
<1>10. \A i \in DOMAIN queue : queue[i].from = Nobody
  BY <1>3, <1>7, QueueLemma DEF UInv, LastInQueue
<1>11. /\ doubt \subseteq doubt' /\ doubt' \subseteq Keys
       /\ \A j \in Keys : Rivals(j, k) /\ ports[j] = e
            => j \in doubt' /\ k \in doubt'
  <2>1. CASE op = "create"
    BY <1>1, <1>2, <2>1 DEF Clash, UInv, MappingTypeOK
  <2>2. CASE op = "delete"
    <3>1. ports[k] = e /\ ports[k] # NoPort
      BY <1>3, <1>4, <2>2
    <3>2. QED
      BY <1>1, <1>2, <2>2, <3>1, ConstantAssumption
         DEF Clash, UInv, MappingTypeOK, NoClash
  <2>3. QED
    BY <2>1, <2>2
<1>12. MappingTypeOK'
  <2>1. Len(queue') <= MaxQueue
    BY <1>3, <1>8, QueueLemma, ConstantAssumption DEF UInv
  <2>2. QED
    BY <1>3, <1>5, <1>6, <1>7, <1>8, <1>11, <2>1 DEF UInv, MappingTypeOK
<1>13. CallShape'
  <2> SUFFICES ASSUME NEW d \in Callers
               PROVE  CallShape!(d)'
    BY DEF CallShape
  <2>1. CASE d = c
    BY <1>3, <1>4, <1>6, <2>1
  <2>2. CASE d # c
    BY <1>3, <1>5, <2>2 DEF UInv, CallShape
  <2>3. QED
    BY <2>1, <2>2
<1>14. LastInQueue'
  <2>1. \A i \in DOMAIN queue' : queue'[i].from # Nobody =>
          i = Len(queue') /\ queue'[i] = r
    BY <1>8, <1>9, <1>10
  <2>2. \A d \in Callers : call'[d].pc = "wait" => call'[d].reply = "none"
    BY <1>5, <1>6, <1>7
  <2>3. QED
    BY <1>6, <2>1, <2>2 DEF LastInQueue
<1>15. DeletesCached' /\ CreatesKnown'
  <2>1. DeletesCached'
    BY <1>3, <1>4, <1>8, <1>9 DEF UInv, DeletesCached
  <2>2. CreatesKnown'
    <3>1. c # Nobody
      BY ConstantAssumption
    <3>2. QED
      BY <1>3, <1>8, <1>9, <1>11, <3>1 DEF UInv, CreatesKnown
  <2>3. QED
    BY <2>1, <2>2
<1>16. NoClash'
  <2> SUFFICES ASSUME NEW j \in Keys, NEW l \in Keys, Rivals(j, l),
                      ports[j] # NoPort
               PROVE  /\ ports[l] = ports[j] => j \in doubt' /\ l \in doubt'
                      /\ \A d \in Callers :
                           call'[d].pc = "wait" /\ call'[d].key = l
                             /\ call'[d].port = ports[j]
                           => j \in doubt' /\ l \in doubt'
                      /\ \A i \in DOMAIN queue' :
                           queue'[i].key = l /\ queue'[i].port = ports[j]
                             => j \in doubt' /\ l \in doubt'
    BY <1>3 DEF NoClash
  <2>1. ports[l] = ports[j] => j \in doubt' /\ l \in doubt'
    BY <1>11 DEF UInv, NoClash
  <2>2. \A d \in Callers :
          call'[d].pc = "wait" /\ call'[d].key = l /\ call'[d].port = ports[j]
            => j \in doubt' /\ l \in doubt'
    <3> SUFFICES ASSUME NEW d \in Callers, call'[d].pc = "wait",
                        call'[d].key = l, call'[d].port = ports[j]
                 PROVE  j \in doubt' /\ l \in doubt'
      OBVIOUS
    <3>1. d = c
      BY <1>5, <1>7
    <3>2. QED
      BY <1>6, <1>11, <3>1
  <2>3. \A i \in DOMAIN queue' :
          queue'[i].key = l /\ queue'[i].port = ports[j]
            => j \in doubt' /\ l \in doubt'
    BY <1>8, <1>9, <1>11 DEF UInv, NoClash
  <2>4. QED
    BY <2>1, <2>2, <2>3
<1>17. DeviceKnown'
  BY <1>3, <1>5, <1>7, <1>11 DEF UInv, DeviceKnown
<1>18. ReplyStands'
  <2>1. \A d \in Callers : call'[d].pc = "wait" => call'[d].reply # "ok"
    BY <1>5, <1>6, <1>7
  <2>2. QED
    BY <2>1 DEF ReplyStands
<1>19. QED
  BY <1>12, <1>13, <1>14, <1>15, <1>16, <1>17, <1>18 DEF UInv

\* What holds when a success is about to be taken: nothing is at the device, and
\* nobody else talks to it.
LEMMA AcceptedLemma ==
    ASSUME UInv, NEW c \in Callers, Accepted(c)
    PROVE  /\ call[c] \in Call /\ call[c].pc = "wait" /\ call[c].reply = "ok"
           /\ call[c].key \in Keys /\ call[c].port \in ExtPorts
           /\ queue = <<>> /\ mu = c
           /\ \A d \in Callers \ {c} : call[d].pc \notin {"send", "wait"}
           /\ call[c].op = "delete" => call[c].port = ports[call[c].key]
           /\ call' \in [Callers -> Call] /\ call'[c] = Idle
           /\ \A d \in Callers \ {c} : call'[d] = call[d]
           /\ mu' = Nobody
           /\ UNCHANGED <<queue, device, lapsed>>
<1>1. call[c] \in Call /\ call[c].pc = "wait" /\ call[c].reply = "ok"
  BY DEF Accepted, UInv, MappingTypeOK
<1>2. /\ call[c].key \in Keys /\ call[c].port \in ExtPorts
      /\ call[c].op = "delete" => call[c].port = ports[call[c].key]
  BY <1>1 DEF UInv, CallShape
<1>3. mu = c /\ \A d \in Callers \ {c} : call[d].pc \notin {"send", "wait"}
  BY <1>1 DEF UInv, MappingTypeOK
<1>4. queue = <<>>
  BY <1>1 DEF UInv, LastInQueue
<1>5. /\ call' \in [Callers -> Call] /\ call'[c] = Idle
      /\ \A d \in Callers \ {c} : call'[d] = call[d]
      /\ mu' = Nobody /\ UNCHANGED <<queue, device, lapsed>>
  BY IdleLemma DEF Accepted, Unlock, UInv, MappingTypeOK
<1>6. QED
  BY <1>1, <1>2, <1>3, <1>4, <1>5

LEMMA UAccepted ==
    ASSUME UInv, NEW c \in Callers, Accepted(c)
    PROVE  UInv'
<1>1. PICK k \in Keys, e \in ExtPorts : k = call[c].key /\ e = call[c].port
  BY AcceptedLemma
<1>2. /\ call[c].pc = "wait" /\ call[c].reply = "ok"
      /\ call[c].op \in {"create", "delete"}
      /\ call[c].op = "delete" => e = ports[k]
      /\ queue' = <<>> /\ queue = <<>> /\ mu' = Nobody
      /\ call' \in [Callers -> Call] /\ call'[c] = Idle
      /\ \A d \in Callers \ {c} : call'[d] = call[d]
      /\ UNCHANGED <<device, lapsed>>
  BY <1>1, AcceptedLemma DEF Call
<1>3. \A d \in Callers : call'[d].pc \notin {"send", "wait"}
  BY <1>2, AcceptedLemma, IdleLemma
<1>4. ports' = [ports EXCEPT ![k] = IF call[c].op = "create" THEN e ELSE NoPort]
  BY <1>1, <1>2 DEF Accepted, Remembered
<1>5. /\ ports' \in [Keys -> ExtPorts \cup {NoPort}]
      /\ ports'[k] = IF call[c].op = "create" THEN e ELSE NoPort
      /\ \A j \in Keys \ {k} : ports'[j] = ports[j]
  BY <1>4 DEF UInv, MappingTypeOK
<1>6. doubt \subseteq doubt' /\ doubt' \subseteq Keys
  BY <1>1 DEF Accepted, UInv, MappingTypeOK
<1>7. MappingTypeOK'
  BY <1>2, <1>3, <1>5, <1>6, ConstantAssumption DEF UInv, MappingTypeOK
<1>8. CallShape'
  <2> SUFFICES ASSUME NEW d \in Callers
               PROVE  CallShape!(d)'
    BY DEF CallShape
  <2>1. CASE d = c
    BY <1>2, <2>1, IdleLemma
  <2>2. CASE d # c
    BY <1>2, <1>3, <2>2 DEF UInv, CallShape
  <2>3. QED
    BY <2>1, <2>2
<1>9. LastInQueue' /\ DeletesCached' /\ CreatesKnown'
  BY <1>2 DEF LastInQueue, DeletesCached, CreatesKnown
<1>10. NoClash'
  <2> SUFFICES ASSUME NEW j \in Keys, NEW l \in Keys, Rivals(j, l),
                      ports'[j] # NoPort, ports'[l] = ports'[j]
               PROVE  j \in doubt' /\ l \in doubt'
    BY <1>2, <1>3 DEF NoClash
  <2>1. CASE j # k /\ l # k
    BY <1>5, <1>6, <2>1 DEF UInv, NoClash
  <2>2. CASE j = k
    BY <1>1, <1>2, <1>5, <1>6, <2>2 DEF UInv, NoClash
  <2>3. CASE l = k
    BY <1>1, <1>2, <1>5, <1>6, <2>3 DEF UInv, NoClash
  <2>4. QED
    BY <2>1, <2>2, <2>3
<1>11. DeviceKnown'
  <2> SUFFICES ASSUME NEW j \in Keys \ doubt', NEW f \in ExtPorts,
                      device[Slot(j, f)] = j.port
               PROVE  ports'[j] = f
    BY <1>2 DEF DeviceKnown
  <2>1. \/ ports[j] = f
        \/ j = k /\ f = e
    <3>1. \A d \in Callers : call[d].pc = "wait" => d = c
      BY AcceptedLemma
    <3>2. QED
      BY <1>1, <1>6, <3>1 DEF UInv, DeviceKnown
  <2>2. CASE j # k
    BY <1>5, <2>1, <2>2
  <2>3. CASE j = k /\ call[c].op = "create"
    <3>1. CASE f = e
      BY <1>5, <2>3, <3>1
    <3>2. CASE f # e
      <4>1. ports[k] = f /\ call[c].renews
        BY <1>1, <1>2, <2>1, <2>3, <3>2, ConstantAssumption DEF UInv, CallShape
      <4>2. Replaces(c)
        BY <1>1, <2>3, <3>2, <4>1 DEF Replaces
      <4>3. QED
        BY <1>1, <2>3, <4>2 DEF Accepted
    <3>3. QED
      BY <3>1, <3>2
  <2>4. CASE j = k /\ call[c].op = "delete"
    BY <1>1, <1>2, <2>1, <2>4 DEF UInv, ReplyStands
  <2>5. QED
    BY <1>2, <2>2, <2>3, <2>4
<1>12. ReplyStands'
  BY <1>3 DEF ReplyStands
<1>13. QED
  BY <1>7, <1>8, <1>9, <1>10, <1>11, <1>12 DEF UInv

\* A caller goes on or gives up; what it leaves at the device is nobody's, and
\* puts its mapping in doubt unless it is at the cached port.
LEMMA UAttemptFails ==
    ASSUME UInv, NEW c \in Callers, AttemptFails(c)
    PROVE  UInv'
<1>1. PICK k \in Keys : k = call[c].key
  BY DEF UInv, CallShape, AttemptFails
<1>2. /\ call[c] \in Call /\ call[c].pc \in {"send", "wait"}
      /\ UNCHANGED <<ports, device, lapsed>>
      /\ doubt \subseteq doubt' /\ doubt' \subseteq Keys
      /\ Unanswered(c) /\ call[c].port # ports[k] => k \in doubt'
  BY <1>1 DEF UInv, MappingTypeOK, AttemptFails, Forgotten
<1>3. mu = c /\ \A d \in Callers \ {c} : call[d].pc \notin {"send", "wait"}
  BY <1>2 DEF UInv, MappingTypeOK
<1>4. /\ call' \in [Callers -> Call]
      /\ \A d \in Callers \ {c} : call'[d] = call[d]
      /\ \/ call'[c] = Idle /\ mu' = Nobody
         \/ /\ call'[c].pc = "send" /\ call'[c].reply = "none"
            /\ call'[c].key = k /\ call'[c].op = "create"
            /\ call'[c].renews <=> call[c].renews
            /\ call'[c].attempt # 0 /\ mu' = mu
  <2>1. CASE LastAttempt(c)
    BY <1>2, <2>1, IdleLemma DEF AttemptFails, Unlock, UInv, MappingTypeOK
  <2>2. CASE ~LastAttempt(c)
    <3> DEFINE new == [call[c] EXCEPT !.pc = "send",
                                      !.attempt = call[c].attempt + 1,
                                      !.port = NoPort, !.reply = "none"]
    <3>1. /\ call[c].op = "create" /\ call[c].attempt + 1 # 0
          /\ call[c].attempt + 1 \in 0 .. RandomTries
      BY <1>2, <2>2, ConstantAssumption DEF LastAttempt, Call
    <3>2. /\ new \in Call /\ new.pc = "send" /\ new.reply = "none"
          /\ new.key = k /\ new.op = "create"
          /\ new.renews <=> call[c].renews
          /\ new.attempt # 0
      BY <1>1, <1>2, <3>1 DEF Call
    <3>3. call' = [call EXCEPT ![c] = new] /\ mu' = mu
      BY <1>2, <2>2 DEF AttemptFails, UInv, MappingTypeOK, Call
    <3> HIDE DEF new
    <3>4. QED
      BY <3>2, <3>3 DEF UInv, MappingTypeOK
  <2>3. QED
    BY <2>1, <2>2
<1>5. /\ DOMAIN queue' = DOMAIN queue /\ queue' \in Seq(Request)
      /\ Len(queue') = Len(queue)
      /\ \A i \in DOMAIN queue :
           /\ queue'[i].op = queue[i].op /\ queue'[i].key = queue[i].key
           /\ queue'[i].port = queue[i].port
           /\ queue'[i].from = Nobody
  <2>1. \A i \in DOMAIN queue : queue[i].from \in {Nobody, c}
    BY <1>3, QueueLemma DEF UInv, LastInQueue
  <2> DEFINE new(i) == IF queue[i].from = c
                         THEN [queue[i] EXCEPT !.from = Nobody] ELSE queue[i]
  <2>2. \A i \in DOMAIN queue :
          /\ new(i) \in Request
          /\ new(i).op = queue[i].op /\ new(i).key = queue[i].key
          /\ new(i).port = queue[i].port /\ new(i).from = Nobody
    BY <2>1, QueueLemma DEF UInv, Request
  <2>3. queue' = [i \in 1 .. Len(queue) |-> new(i)]
    BY QueueLemma DEF AttemptFails, UInv
  <2> HIDE DEF new
  <2>4. QED
    BY <2>2, <2>3, QueueLemma DEF UInv
<1>6. MappingTypeOK'
  BY <1>2, <1>3, <1>4, <1>5, IdleLemma, ConstantAssumption DEF UInv, MappingTypeOK
<1>7. CallShape'
  <2> SUFFICES ASSUME NEW d \in Callers
               PROVE  CallShape!(d)'
    BY DEF CallShape
  <2>1. CASE d = c /\ call'[c] = Idle
    BY <2>1, IdleLemma
  <2>2. CASE d = c /\ call'[c] # Idle
    <3>1. call[c].renews <=> ports[k] # NoPort
      BY <1>1, <1>2 DEF UInv, CallShape
    <3>2. QED
      BY <1>2, <1>4, <2>2, <3>1
  <2>3. CASE d # c
    BY <1>2, <1>4, <2>3 DEF UInv, CallShape
  <2>4. QED
    BY <2>1, <2>2, <2>3
<1>8. LastInQueue'
  <2>1. \A d \in Callers : call'[d].pc # "wait"
    BY <1>3, <1>4, IdleLemma
  <2>2. QED
    BY <1>5, <2>1 DEF LastInQueue
<1>9. DeletesCached'
  BY <1>2, <1>5 DEF UInv, DeletesCached
<1>10. CreatesKnown'
  <2> SUFFICES ASSUME NEW i \in DOMAIN queue, queue[i].op = "create",
                      queue[i].key \notin doubt'
               PROVE  ports[queue[i].key] = queue[i].port
    BY <1>2, <1>5 DEF CreatesKnown
  <2>1. CASE queue[i].from = Nobody
    BY <1>2, <2>1 DEF UInv, CreatesKnown
  <2>2. CASE queue[i].from # Nobody
    <3>1. queue[i].from = c
      BY <1>3, <2>2, QueueLemma DEF UInv, LastInQueue
    <3>2. /\ call[c].pc = "wait" /\ call[c].reply = "none"
          /\ k = queue[i].key /\ call[c].port = queue[i].port
      BY <1>1, <2>2, <3>1 DEF UInv, LastInQueue
    <3>3. QED
      BY <1>2, <3>2 DEF Unanswered
  <2>3. QED
    BY <2>1, <2>2
<1>11. NoClash'
  <2>1. \A d \in Callers : call'[d].pc # "wait"
    BY <1>3, <1>4, IdleLemma
  <2>2. QED
    BY <1>2, <1>5, <2>1 DEF UInv, NoClash
<1>12. DeviceKnown'
  <2> SUFFICES ASSUME NEW j \in Keys \ doubt', NEW f \in ExtPorts,
                      device[Slot(j, f)] = j.port, ports[j] # f
               PROVE  FALSE
    BY <1>2 DEF DeviceKnown
  <2>1. PICK d \in Callers : /\ call[d].pc = "wait" /\ call[d].reply = "ok"
                             /\ call[d].key = j /\ call[d].port = f
    BY <1>2 DEF UInv, DeviceKnown
  <2>2. QED
    BY <1>1, <1>2, <1>3, <2>1 DEF Unanswered
<1>13. ReplyStands'
  BY <1>3, <1>4, IdleLemma DEF ReplyStands
<1>14. QED
  BY <1>6, <1>7, <1>8, <1>9, <1>10, <1>11, <1>12, <1>13 DEF UInv

-----------------------------------------------------------------------------
\* The device answers: the head of the queue goes, and if somebody waits for it,
\* it was the last.
LEMMA AnswersLemma ==
    ASSUME UInv, queue # <<>>, NEW reply \in {"ok", "refused"},
           Answers(Head(queue), reply)
    PROVE  LET r == Head(queue) IN
           /\ 1 \in DOMAIN queue /\ r = queue[1] /\ r \in Request
           /\ queue' \in Seq(Request) /\ Len(queue') = Len(queue) - 1
           /\ \A i \in DOMAIN queue' :
                i + 1 \in DOMAIN queue /\ queue'[i] = queue[i + 1]
           /\ call' \in [Callers -> Call]
           /\ \A d \in Callers : d # r.from => call'[d] = call[d]
           /\ \A d \in Callers : /\ call'[d].pc = call[d].pc
                                 /\ call'[d].op = call[d].op
                                 /\ call'[d].key = call[d].key
                                 /\ call'[d].port = call[d].port
                                 /\ call'[d].attempt = call[d].attempt
                                 /\ call'[d].renews = call[d].renews
           /\ r.from # Nobody =>
                /\ r.from \in Callers /\ call[r.from].pc = "wait"
                /\ call[r.from].op = r.op /\ call[r.from].key = r.key
                /\ call[r.from].port = r.port
                /\ call'[r.from].reply = reply /\ Len(queue) = 1
<1> DEFINE r == Head(queue)
<1>1. /\ 1 \in DOMAIN queue /\ r = queue[1] /\ r \in Request
      /\ queue' \in Seq(Request) /\ Len(queue') = Len(queue) - 1
      /\ DOMAIN queue' = 1 .. Len(queue) - 1
      /\ \A i \in DOMAIN queue' :
           i + 1 \in DOMAIN queue /\ queue'[i] = queue[i + 1]
  <2>1. queue \in Seq(Request)
    BY DEF UInv, MappingTypeOK
  <2>2. queue' = Tail(queue)
    BY DEF Answers
  <2>3. QED
    BY <2>1, <2>2
<1> HIDE DEF r
<1>2. /\ r.from \in Callers \cup {Nobody}
      /\ r.from # Nobody =>
           /\ call[r.from].pc = "wait"
           /\ call[r.from].op = r.op /\ call[r.from].key = r.key
           /\ call[r.from].port = r.port /\ Len(queue) = 1
  BY <1>1, QueueLemma DEF UInv, LastInQueue
<1>3. call' = IF r.from \in Callers
                THEN [call EXCEPT ![r.from].reply = reply] ELSE call
  BY DEF Answers, r
<1>4. /\ call' \in [Callers -> Call]
      /\ \A d \in Callers : d # r.from => call'[d] = call[d]
      /\ \A d \in Callers : /\ call'[d].pc = call[d].pc
                            /\ call'[d].op = call[d].op
                            /\ call'[d].key = call[d].key
                            /\ call'[d].port = call[d].port
                            /\ call'[d].attempt = call[d].attempt
                            /\ call'[d].renews = call[d].renews
      /\ r.from \in Callers => call'[r.from].reply = reply
  <2>1. CASE r.from \notin Callers
    BY <1>3, <2>1 DEF UInv, MappingTypeOK
  <2>2. CASE r.from \in Callers
    <3> DEFINE new == [call[r.from] EXCEPT !.reply = reply]
    <3>1. call[r.from] \in Call
      BY <2>2 DEF UInv, MappingTypeOK
    <3>2. /\ new \in Call
          /\ new.pc = call[r.from].pc /\ new.op = call[r.from].op
          /\ new.key = call[r.from].key /\ new.port = call[r.from].port
          /\ new.attempt = call[r.from].attempt
          /\ new.renews = call[r.from].renews /\ new.reply = reply
      BY <3>1 DEF Call
    <3>3. call' = [call EXCEPT ![r.from] = new]
      BY <1>3, <2>2
    <3> HIDE DEF new
    <3>4. QED
      BY <2>2, <3>2, <3>3 DEF UInv, MappingTypeOK
  <2>3. QED
    BY <2>1, <2>2
<1>5. QED
  BY <1>1, <1>2, <1>4 DEF r

\* What an answer leaves alone, whatever it does to the device.
LEMMA UAnswers ==
    ASSUME UInv, queue # <<>>, NEW reply \in {"ok", "refused"},
           Answers(Head(queue), reply),
           UNCHANGED <<ports, mu, doubt>>,
           device' \in [Slots -> InternalPorts \cup {NoPort, Other}],
           lapsed' \subseteq Keys,
           DeviceKnown', ReplyStands'
    PROVE  UInv'
<1> DEFINE r == Head(queue)
<1>1. /\ Len(queue) \in Nat /\ DOMAIN queue = 1 .. Len(queue)
      /\ queue' \in Seq(Request) /\ Len(queue') = Len(queue) - 1
      /\ DOMAIN queue' = 1 .. Len(queue')
      /\ \A i \in DOMAIN queue' :
           i + 1 \in DOMAIN queue /\ queue'[i] = queue[i + 1]
  <2>1. queue' \in Seq(Request) /\ Len(queue') = Len(queue) - 1
        /\ \A i \in DOMAIN queue' :
             i + 1 \in DOMAIN queue /\ queue'[i] = queue[i + 1]
    BY AnswersLemma
  <2>2. Len(queue) \in Nat /\ DOMAIN queue = 1 .. Len(queue)
    BY QueueLemma DEF UInv
  <2>3. DOMAIN queue' = 1 .. Len(queue')
    BY <2>1
  <2>4. QED
    BY <2>1, <2>2, <2>3
<1>2. /\ call' \in [Callers -> Call]
      /\ \A d \in Callers : d # r.from => call'[d] = call[d]
      /\ \A d \in Callers : /\ call'[d].pc = call[d].pc
                            /\ call'[d].op = call[d].op
                            /\ call'[d].key = call[d].key
                            /\ call'[d].port = call[d].port
                            /\ call'[d].attempt = call[d].attempt
                            /\ call'[d].renews = call[d].renews
  BY AnswersLemma
<1>3. r.from # Nobody => /\ r.from \in Callers /\ call[r.from].pc = "wait"
                         /\ Len(queue) = 1
  BY AnswersLemma
<1> HIDE DEF r
<1>4. MappingTypeOK'
  <2>1. Len(queue') <= MaxQueue
    BY <1>1, ConstantAssumption DEF UInv, MappingTypeOK
  <2>2. QED
    BY <1>1, <1>2, <2>1 DEF UInv, MappingTypeOK
<1>5. CallShape'
  <2> SUFFICES ASSUME NEW d \in Callers
               PROVE  CallShape!(d)'
    BY DEF CallShape
  <2>1. CASE d = r.from
    <3>1. call[d].pc = "wait"
      BY <1>3, <2>1, ConstantAssumption
    <3>2. QED
      BY <1>2, <3>1 DEF UInv, CallShape
  <2>2. CASE d # r.from
    BY <1>2, <2>2 DEF UInv, CallShape
  <2>3. QED
    BY <2>1, <2>2
<1>6. LastInQueue'
  <2>1. ASSUME NEW i \in DOMAIN queue', queue'[i].from # Nobody
        PROVE  LET c == queue'[i].from IN
               /\ i = Len(queue')
               /\ call'[c].pc = "wait" /\ call'[c].reply = "none"
               /\ call'[c].op = queue'[i].op
               /\ call'[c].key = queue'[i].key /\ call'[c].port = queue'[i].port
    <3>1. PICK c \in Callers : c = queue[i + 1].from
      BY <1>1, <2>1, QueueLemma DEF UInv
    <3>2. i + 1 = Len(queue) /\ Len(queue) # 1
      BY <1>1, <2>1 DEF UInv, LastInQueue
    <3>3. c # r.from
      BY <1>3, <3>2, ConstantAssumption
    <3>4. QED
      BY <1>1, <1>2, <2>1, <3>1, <3>2, <3>3 DEF UInv, LastInQueue
  <2>2. ASSUME NEW d \in Callers, call'[d].pc = "wait", call'[d].reply # "none"
        PROVE  queue' = <<>>
    <3>1. CASE d = r.from
      BY <1>1, <1>3, <3>1, ConstantAssumption
    <3>2. CASE d # r.from
      BY <1>2, <2>2, <3>2 DEF UInv, LastInQueue
    <3>3. QED
      BY <3>1, <3>2
  <2>3. QED
    BY <2>1, <2>2 DEF LastInQueue
<1>7. DeletesCached'
  BY <1>1 DEF UInv, DeletesCached
<1>8. CreatesKnown'
  BY <1>1 DEF UInv, CreatesKnown
<1>9. NoClash'
  <2> SUFFICES ASSUME NEW j \in Keys, NEW k \in Keys, Rivals(j, k),
                      ports[j] # NoPort
               PROVE  /\ ports[k] = ports[j] => j \in doubt /\ k \in doubt
                      /\ \A c \in Callers :
                           call'[c].pc = "wait" /\ call'[c].key = k
                             /\ call'[c].port = ports[j]
                           => j \in doubt /\ k \in doubt
                      /\ \A i \in DOMAIN queue' :
                           queue'[i].key = k /\ queue'[i].port = ports[j]
                             => j \in doubt /\ k \in doubt
    BY DEF NoClash
  <2>1. /\ ports[k] = ports[j] => j \in doubt /\ k \in doubt
        /\ \A c \in Callers :
             call[c].pc = "wait" /\ call[c].key = k /\ call[c].port = ports[j]
               => j \in doubt /\ k \in doubt
        /\ \A i \in DOMAIN queue :
             queue[i].key = k /\ queue[i].port = ports[j]
               => j \in doubt /\ k \in doubt
    BY DEF UInv, NoClash
  <2>2. QED
    BY <1>1, <1>2, <2>1
<1>10. QED
  BY <1>4, <1>5, <1>6, <1>7, <1>8, <1>9 DEF UInv

\* Nobody has an answer while a request is at the device.
LEMMA NoAnswerYet ==
    ASSUME UInv, queue # <<>>
    PROVE  \A d \in Callers : call[d].pc = "wait" => call[d].reply = "none"
BY DEF UInv, LastInQueue

LEMMA SlotLemma ==
    \A k \in Keys, e \in ExtPorts :
        /\ Slot(k, e) \in Slots
        /\ k.port \in InternalPorts /\ k.port # NoPort /\ k.port # Other
        /\ \A j \in Keys, f \in ExtPorts :
             Slot(j, f) = Slot(k, e) => f = e /\ (j.port = k.port => j = k)
BY ConstantAssumption DEF Slot, Slots, Keys

LEMMA UDeviceAccepts ==
    ASSUME UInv, DeviceAccepts
    PROVE  UInv'
<1>1. PICK k \in Keys, e \in ExtPorts, op \in {"create", "delete"} :
        Head(queue).key = k /\ Head(queue).port = e /\ Head(queue).op = op
  BY AnswersLemma DEF DeviceAccepts, Request
<1>2. /\ queue # <<>> /\ Answers(Head(queue), "ok")
      /\ device' = [device EXCEPT ![Slot(k, e)] =
                      IF op = "create" THEN k.port ELSE NoPort]
      /\ lapsed' = lapsed \ {k}
      /\ UNCHANGED <<ports, mu, doubt>>
  BY <1>1 DEF DeviceAccepts
<1>3. /\ device' \in [Slots -> InternalPorts \cup {NoPort, Other}]
      /\ device'[Slot(k, e)] = IF op = "create" THEN k.port ELSE NoPort
      /\ \A s \in Slots : s # Slot(k, e) => device'[s] = device[s]
  BY <1>2, SlotLemma DEF UInv, MappingTypeOK
<1> DEFINE c == Head(queue).from
<1>4. /\ \A d \in Callers \ {c} : call'[d] = call[d]
      /\ \A d \in Callers : call'[d].pc = call[d].pc
      /\ c # Nobody => /\ c \in Callers /\ call[c].pc = "wait"
                       /\ call'[c].reply = "ok" /\ call'[c].op = op
                       /\ call'[c].key = k /\ call'[c].port = e
      /\ 1 \in DOMAIN queue /\ queue[1] = Head(queue)
  BY <1>1, <1>2, AnswersLemma
<1> HIDE DEF c
<1>5. DeviceKnown'
  <2> SUFFICES ASSUME NEW j \in Keys \ doubt, NEW f \in ExtPorts,
                      device'[Slot(j, f)] = j.port
               PROVE  \/ ports[j] = f
                      \/ \E d \in Callers :
                           /\ call'[d].pc = "wait" /\ call'[d].reply = "ok"
                           /\ call'[d].key = j /\ call'[d].port = f
    BY <1>2 DEF DeviceKnown
  <2>1. CASE Slot(j, f) = Slot(k, e)
    <3>1. op = "create" /\ j = k /\ f = e
      BY <1>3, <2>1, SlotLemma
    <3>2. ports[k] = e \/ c # Nobody
      BY <1>1, <1>4, <3>1 DEF UInv, CreatesKnown, c
    <3>3. QED
      BY <1>4, <3>1, <3>2
  <2>2. CASE Slot(j, f) # Slot(k, e)
    BY <1>2, <1>3, <2>2, NoAnswerYet, SlotLemma DEF UInv, DeviceKnown
  <2>3. QED
    BY <2>1, <2>2
<1>6. ReplyStands'
  <2> SUFFICES ASSUME NEW d \in Callers, call'[d].pc = "wait",
                      call'[d].reply = "ok"
               PROVE  LET there == device'[Slot(call'[d].key, call'[d].port)]
                                     = call'[d].key.port
                      IN IF call'[d].op = "create"
                           THEN there \/ call'[d].key \in lapsed' ELSE ~there
    BY DEF ReplyStands
  <2>1. d = c
    BY <1>2, <1>4, NoAnswerYet
  <2>2. QED
    BY <1>3, <1>4, <2>1, SlotLemma, ConstantAssumption
<1>7. lapsed' \subseteq Keys
  BY <1>2 DEF UInv, MappingTypeOK
<1>8. QED
  BY <1>2, <1>3, <1>5, <1>6, <1>7, UAnswers

LEMMA UDeviceRefuses ==
    ASSUME UInv, DeviceRefuses
    PROVE  UInv'
<1>1. /\ queue # <<>> /\ Answers(Head(queue), "refused")
      /\ UNCHANGED <<ports, mu, device, lapsed, doubt>>
  BY DEF DeviceRefuses
<1>2. \A d \in Callers : call'[d].pc = "wait" => call'[d].reply # "ok"
  <2> SUFFICES ASSUME NEW d \in Callers, call'[d].pc = "wait"
               PROVE  call'[d].reply # "ok"
    OBVIOUS
  <2>1. CASE d = Head(queue).from
    BY <1>1, <2>1, AnswersLemma, ConstantAssumption
  <2>2. CASE d # Head(queue).from
    BY <1>1, <2>2, AnswersLemma, NoAnswerYet
  <2>3. QED
    BY <2>1, <2>2
<1>3. DeviceKnown'
  BY <1>1, NoAnswerYet DEF UInv, DeviceKnown
<1>4. ReplyStands'
  BY <1>2 DEF ReplyStands
<1>5. device' \in [Slots -> InternalPorts \cup {NoPort, Other}]
      /\ lapsed' \subseteq Keys
  BY <1>1 DEF UInv, MappingTypeOK
<1>6. QED
  BY <1>1, <1>3, <1>4, <1>5, UAnswers

\* The device maps nothing more for the object; what it drops has lapsed.
LEMMA UDeviceAlone ==
    ASSUME UInv,
           device' \in [Slots -> InternalPorts \cup {NoPort, Other}],
           \A k \in Keys, e \in ExtPorts :
             LET s == Slot(k, e) IN
             /\ device'[s] = k.port => device[s] = k.port
             /\ device[s] = k.port => device'[s] = k.port \/ k \in lapsed',
           lapsed \subseteq lapsed', lapsed' \subseteq Keys,
           UNCHANGED <<call, ports, mu, queue, doubt>>
    PROVE  UInv'
<1>1. MappingTypeOK'
  BY DEF UInv, MappingTypeOK
<1>2. CallShape' /\ LastInQueue'
  BY DEF UInv, CallShape, LastInQueue
<1>3. DeletesCached' /\ CreatesKnown'
  BY DEF UInv, DeletesCached, CreatesKnown
<1>4. NoClash'
  BY DEF UInv, NoClash
<1>5. DeviceKnown'
  BY DEF UInv, DeviceKnown
<1>6. ReplyStands'
  <2> SUFFICES ASSUME NEW c \in Callers, call[c].pc = "wait",
                      call[c].reply = "ok"
               PROVE  LET there == device'[Slot(call[c].key, call[c].port)]
                                     = call[c].key.port
                      IN IF call[c].op = "create"
                           THEN there \/ call[c].key \in lapsed' ELSE ~there
    BY DEF ReplyStands
  <2>1. PICK k \in Keys, e \in ExtPorts : k = call[c].key /\ e = call[c].port
    BY DEF UInv, CallShape
  <2>2. LET there == device[Slot(k, e)] = k.port
        IN IF call[c].op = "create" THEN there \/ k \in lapsed ELSE ~there
    BY <2>1 DEF UInv, ReplyStands
  <2>3. QED
    BY <2>1, <2>2
<1>7. QED
  BY <1>1, <1>2, <1>3, <1>4, <1>5, <1>6 DEF UInv

LEMMA UExpire ==
    ASSUME UInv, NEW s \in Slots, Expire(s)
    PROVE  UInv'
<1> DEFINE dropped == [protocol |-> s[1], port |-> device[s]]
<1>1. /\ device[s] \in InternalPorts
      /\ device' = [device EXCEPT ![s] = NoPort]
      /\ lapsed' = lapsed \cup {dropped}
      /\ UNCHANGED <<call, ports, mu, queue, doubt>>
  BY DEF Expire
<1>2. dropped \in Keys /\ \A k \in Keys, e \in ExtPorts :
        s = Slot(k, e) /\ device[s] = k.port => k = dropped
  BY <1>1 DEF Slots, Slot, Keys
<1> HIDE DEF dropped
<1>3. /\ device' \in [Slots -> InternalPorts \cup {NoPort, Other}]
      /\ device'[s] = NoPort
      /\ \A t \in Slots : t # s => device'[t] = device[t]
  BY <1>1 DEF UInv, MappingTypeOK
<1>4. \A k \in Keys, e \in ExtPorts :
        /\ device'[Slot(k, e)] = k.port => device[Slot(k, e)] = k.port
        /\ device[Slot(k, e)] = k.port =>
             device'[Slot(k, e)] = k.port \/ k \in lapsed'
  BY <1>1, <1>2, <1>3, SlotLemma
<1>5. lapsed \subseteq lapsed' /\ lapsed' \subseteq Keys
  BY <1>1, <1>2 DEF UInv, MappingTypeOK
<1>6. QED
  BY <1>1, <1>3, <1>4, <1>5, UDeviceAlone

LEMMA UOthersUse ==
    ASSUME UInv, NEW s \in Slots, OthersUse(s)
    PROVE  UInv'
<1>1. /\ device' \in [Slots -> InternalPorts \cup {NoPort, Other}]
      /\ device[s] \in {NoPort, Other} /\ device'[s] \in {NoPort, Other}
      /\ \A t \in Slots : t # s => device'[t] = device[t]
      /\ UNCHANGED <<call, ports, mu, queue, lapsed, doubt>>
  BY DEF OthersUse, UInv, MappingTypeOK
<1>2. \A k \in Keys, e \in ExtPorts :
        device'[Slot(k, e)] = k.port <=> device[Slot(k, e)] = k.port
  BY <1>1, SlotLemma
<1>3. lapsed \subseteq lapsed' /\ lapsed' \subseteq Keys
  BY <1>1 DEF UInv, MappingTypeOK
<1>4. QED
  BY <1>1, <1>2, <1>3, UDeviceAlone

\* A new object starts as the first one did.
LEMMA URestart ==
    ASSUME UInv, Restart
    PROVE  UInv'
<1>1. device' \in [Slots -> {NoPort, Other}]
  BY DEF Restart, UInv, MappingTypeOK
<1>2. MappingInit'
  BY <1>1 DEF Restart, MappingInit
<1>3. MappingInit' => UInv'
  BY UInit, PTL
<1>4. QED
  BY <1>2, <1>3

LEMMA UUnchanged ==
    ASSUME UInv, UNCHANGED mappingVars
    PROVE  UInv'
<1>1. UNCHANGED <<call, ports, mu, queue, device, lapsed, doubt>>
  BY DEF mappingVars
<1>2. QED
  BY <1>1, UDeviceAlone DEF UInv, MappingTypeOK

LEMMA UStep ==
    ASSUME UInv, [Next]_vars
    PROVE  UInv'
<1>1. CASE UNCHANGED mappingVars
  BY <1>1, UUnchanged
<1>2. CASE Restart
  BY <1>2, URestart
<1>3. CASE MappingNext
  <2>1. CASE \E c \in Callers, k \in Keys :
               AddPortMapping(c, k) \/ DeletePortMapping(c, k)
    BY <2>1, UBegins
  <2>2. CASE \E c \in Callers : CallerStep(c)
    BY <2>2, UDeletesNothing, ULocks, USends, UAccepted, UAttemptFails
       DEF CallerStep
  <2>3. CASE DeviceAccepts \/ DeviceRefuses
    BY <2>3, UDeviceAccepts, UDeviceRefuses
  <2>4. CASE \E s \in Slots : Expire(s) \/ OthersUse(s)
    BY <2>4, UExpire, UOthersUse
  <2>5. QED
    BY <1>3, <2>1, <2>2, <2>3, <2>4 DEF MappingNext
<1>4. QED
  BY <1>1, <1>2, <1>3 DEF Next, Uses, Rediscovers, vars

\* The invariant of the calls, the cache and the device, for any number of
\* goroutines, keys, ports, tries and waiting requests (upnp.go:512-571).
THEOREM UInvariant == Spec => []UInv
<1>1. Init => UInv
  BY UInit DEF Init
<1>2. UInv /\ [Next]_vars => UInv'
  BY UStep
<1>3. QED
  BY <1>1, <1>2, PTL DEF Spec

-----------------------------------------------------------------------------
(* What follows from it.                                                   *)

\* Types, and the mutex: at most one caller talks to the device
\* (upnp.go:526-527 and 556-557).
THEOREM TypeCorrect == Spec => []MappingTypeOK
<1>1. UInv => MappingTypeOK
  BY DEF UInv
<1>2. QED
  BY <1>1, UInvariant, PTL

\* No mapping is orphaned unless an answer never came: the cache names the
\* external port of what is, or may yet come, at the device (upnp.go:526-570).
THEOREM NoOrphans == Spec => []Addressable
<1>1. UInv => Addressable
  <2> SUFFICES ASSUME UInv, NEW k \in Keys \ doubt, NEW e \in ExtPorts,
                      \/ device[Slot(k, e)] = k.port
                      \/ \E i \in DOMAIN queue :
                           /\ queue[i].key = k /\ queue[i].port = e
                           /\ queue[i].op = "create",
                      ports[k] # e
               PROVE  \E c \in Callers :
                        /\ call[c].pc = "wait"
                        /\ call[c].key = k /\ call[c].port = e
    BY DEF Addressable
  <2>1. CASE device[Slot(k, e)] = k.port
    BY <2>1 DEF UInv, DeviceKnown
  <2>2. ASSUME NEW i \in DOMAIN queue, queue[i].key = k, queue[i].port = e,
               queue[i].op = "create"
        PROVE  \E c \in Callers : /\ call[c].pc = "wait"
                                  /\ call[c].key = k /\ call[c].port = e
    <3>1. queue[i].from \in Callers /\ queue[i].from # Nobody
      BY <2>2, QueueLemma DEF UInv, CreatesKnown
    <3>2. QED
      BY <2>2, <3>1 DEF UInv, LastInQueue
  <2>3. QED
    BY <2>1, <2>2
<1>2. QED
  BY <1>1, UInvariant, PTL

\* The port a create reports is the one at which the device has the mapping
\* (upnp.go:529-542).
THEOREM ReportsTruePort == Spec => PortIsTrue
<1>1. ASSUME UInv, NEW c \in Callers, Accepted(c), call[c].op = "create"
      PROVE  LET k == call[c].key IN
             \/ k \in lapsed
             \/ /\ ports'[k] = call[c].port
                /\ device[Slot(k, call[c].port)] = k.port
  <2>1. PICK k \in Keys, e \in ExtPorts : k = call[c].key /\ e = call[c].port
    BY <1>1, AcceptedLemma
  <2>2. ports' = [ports EXCEPT ![k] = e]
    BY <1>1, <2>1 DEF Accepted, Remembered
  <2>3. ports'[k] = e
    BY <1>1, <2>2 DEF UInv, MappingTypeOK
  <2>4. device[Slot(k, e)] = k.port \/ k \in lapsed
    BY <1>1, <2>1, AcceptedLemma DEF UInv, ReplyStands
  <2>5. QED
    BY <2>1, <2>3, <2>4
<1>2. UInv /\ [Next]_vars =>
        [\A c \in Callers :
           Accepted(c) /\ call[c].op = "create" =>
             LET k == call[c].key IN
             \/ k \in lapsed
             \/ /\ ports'[k] = call[c].port
                /\ device[Slot(k, call[c].port)] = k.port]_mappingVars
  BY <1>1
<1>3. QED
  BY <1>2, UInvariant, PTL DEF Spec, PortIsTrue

-----------------------------------------------------------------------------
(* What OfRank computes.  The library's induction theorems cannot be       *)
(* instantiated here, so an induction takes the least counterexample: the  *)
(* order of the naturals is well-founded.                                  *)

\* Induction: a property of naturals that fails somewhere fails at a least one.
LEMMA LeastNatural ==
    ASSUME NEW T \in SUBSET Nat, T # {}
    PROVE  \E n \in T : \A m \in T : n <= m
<1> DEFINE R == {ss \in Nat \X Nat : ss[1] < ss[2]}
<1>1. IsWellFoundedOn(R, Nat)
  BY NatLessThanWellFounded DEF OpToRel
<1>2. \A m, n \in Nat : <<m, n>> \in R <=> m < n
  OBVIOUS
<1> HIDE DEF R
<1>3. PICK n \in T : \A m \in T : <<m, n>> \notin R
  BY <1>1, WFMin
<1>4. ASSUME NEW m \in T
      PROVE  n <= m
  <2>1. m \in Nat /\ n \in Nat
    OBVIOUS
  <2>2. ~(m < n)
    BY <1>2, <1>3, <2>1
  <2>3. QED
    BY <2>1, <2>2
<1>5. QED
  BY <1>4

\* f is the function that OfRank's recursion defines, on 0 .. m.
Among(f, s, r, m) ==
    f = [n \in 0 .. m |->
           IF n = 0 THEN <<>>
           ELSE IF s[n] = r THEN Append(f[n - 1], n) ELSE f[n - 1]]

\* There is such a function: by induction on where it ends.
LEMMA AmongExists ==
    ASSUME NEW s, NEW r, NEW l \in Nat
    PROVE  \E f : Among(f, s, r, l)
<1> DEFINE T == {m \in Nat : ~\E f : Among(f, s, r, m)}
<1>1. SUFFICES ASSUME T # {}
               PROVE  FALSE
  OBVIOUS
<1>2. PICK m \in T : \A n \in T : m <= n
  <2> HIDE DEF T
  <2>1. T \in SUBSET Nat
    BY DEF T
  <2>2. QED
    BY <1>1, <2>1, LeastNatural
<1>3. m # 0
  <2>1. Among([n \in 0 .. 0 |-> <<>>], s, r, 0)
    BY DEF Among
  <2>2. QED
    BY <2>1
<1>4. m - 1 \in Nat /\ m - 1 \notin T
  BY <1>2, <1>3
<1>5. PICK f : Among(f, s, r, m - 1)
  BY <1>4
<1> DEFINE last == IF s[m] = r THEN Append(f[m - 1], m) ELSE f[m - 1]
           g == [n \in 0 .. m |-> IF n = m THEN last ELSE f[n]]
<1>6. Among(g, s, r, m)
  <2>1. \A n \in 0 .. m - 1 : g[n] = f[n]
    BY <1>4
  <2>2. g[m] = IF s[m] = r THEN Append(g[m - 1], m) ELSE g[m - 1]
    BY <1>4, <2>1
  <2>3. \A n \in 0 .. m - 1 : g[n] = IF n = 0 THEN <<>>
           ELSE IF s[n] = r THEN Append(g[n - 1], n) ELSE g[n - 1]
    <3>1. \A n \in 0 .. m - 1 : f[n] = IF n = 0 THEN <<>>
             ELSE IF s[n] = r THEN Append(f[n - 1], n) ELSE f[n - 1]
      BY <1>5 DEF Among
    <3> HIDE DEF g
    <3>2. QED
      BY <1>4, <2>1, <3>1
  <2>4. DOMAIN g = 0 .. m /\ g = [n \in 0 .. m |-> g[n]]
    OBVIOUS
  <2> HIDE DEF g
  <2>5. \A n \in 0 .. m : g[n] = IF n = 0 THEN <<>>
           ELSE IF s[n] = r THEN Append(g[n - 1], n) ELSE g[n - 1]
    BY <1>3, <1>4, <2>2, <2>3
  <2>6. QED
    BY <2>4, <2>5 DEF Among
<1>7. QED
  BY <1>6

\* So OfRank is what the function of its recursion returns at the end.
LEMMA OfRankIsAmong ==
    ASSUME NEW s, NEW r, Len(s) \in Nat
    PROVE  \E f : Among(f, s, r, Len(s)) /\ OfRank(s, r) = f[Len(s)]
<1> DEFINE f == CHOOSE f : Among(f, s, r, Len(s))
<1>1. Among(f, s, r, Len(s))
  BY AmongExists
<1>2. OfRank(s, r) = f[Len(s)]
  BY DEF OfRank, Among
<1>3. QED
  BY <1>1, <1>2

\* q has the indices up to m of services of rank r, in ascending order.
Picks(q, s, r, m) ==
    /\ q \in Seq(1 .. m)
    /\ \A i \in 1 .. m : s[i] = r => \E j \in 1 .. Len(q) : q[j] = i
    /\ \A j \in 1 .. Len(q) : s[q[j]] = r
    /\ \A i, j \in 1 .. Len(q) : i < j => q[i] < q[j]

\* One step of the recursion: the next index is appended if it is of the rank.
LEMMA AppendPicks ==
    ASSUME NEW m \in Nat, m # 0, NEW s, NEW r, NEW q, Picks(q, s, r, m - 1)
    PROVE  Picks(IF s[m] = r THEN Append(q, m) ELSE q, s, r, m)
<1>1. /\ q \in Seq(1 .. m) /\ Len(q) \in Nat
      /\ \A j \in 1 .. Len(q) : q[j] \in 1 .. m /\ q[j] < m
  BY DEF Picks
<1>2. CASE s[m] # r
  BY <1>1, <1>2 DEF Picks
<1>3. CASE s[m] = r
  <2> DEFINE a == Append(q, m)
  <2>1. /\ a \in Seq(1 .. m) /\ Len(a) = Len(q) + 1 /\ a[Len(a)] = m
        /\ \A j \in 1 .. Len(q) : a[j] = q[j]
    BY <1>1
  <2> HIDE DEF a
  <2>2. \A i \in 1 .. m : s[i] = r => \E j \in 1 .. Len(a) : a[j] = i
    <3> SUFFICES ASSUME NEW i \in 1 .. m, s[i] = r
                 PROVE  \E j \in 1 .. Len(a) : a[j] = i
      OBVIOUS
    <3>1. CASE i = m
      BY <1>1, <2>1, <3>1
    <3>2. CASE i # m
      <4>1. PICK j \in 1 .. Len(q) : q[j] = i
        BY <3>2 DEF Picks
      <4>2. QED
        BY <1>1, <2>1, <4>1
    <3>3. QED
      BY <3>1, <3>2
  <2>3. \A j \in 1 .. Len(a) : s[a[j]] = r
    <3> SUFFICES ASSUME NEW j \in 1 .. Len(a)
                 PROVE  s[a[j]] = r
      OBVIOUS
    <3>1. j = Len(a) \/ j \in 1 .. Len(q)
      BY <1>1, <2>1
    <3>2. \A i \in 1 .. Len(q) : s[q[i]] = r
      BY DEF Picks
    <3>3. QED
      BY <1>3, <2>1, <3>1, <3>2
  <2>4. \A i, j \in 1 .. Len(a) : i < j => a[i] < a[j]
    <3> SUFFICES ASSUME NEW i \in 1 .. Len(a), NEW j \in 1 .. Len(a), i < j
                 PROVE  a[i] < a[j]
      OBVIOUS
    <3>1. \A k, l \in 1 .. Len(q) : k < l => q[k] < q[l]
      BY DEF Picks
    <3>2. i \in 1 .. Len(q) /\ (j = Len(a) \/ j \in 1 .. Len(q))
      <4>1. PICK l \in Nat : Len(q) = l /\ Len(a) = l + 1
        BY <1>1, <2>1
      <4>2. i \in 1 .. l + 1 /\ j \in 1 .. l + 1
        BY <4>1
      <4>3. i \in 1 .. l /\ (j = l + 1 \/ j \in 1 .. l)
        BY <4>2
      <4>4. QED
        BY <4>1, <4>3
    <3>3. CASE j = Len(a)
      BY <1>1, <2>1, <3>2, <3>3
    <3>4. CASE j \in 1 .. Len(q)
      BY <2>1, <3>1, <3>2, <3>4
    <3>5. QED
      BY <3>2, <3>3, <3>4
  <2>5. QED
    BY <1>3, <2>1, <2>2, <2>3, <2>4 DEF Picks, a
<1>4. QED
  BY <1>2, <1>3

\* What OfRank computes for every sequence: by induction on the index.
LEMMA OfRankPicks ==
    ASSUME NEW s, NEW r, Len(s) \in Nat
    PROVE  Picks(OfRank(s, r), s, r, Len(s))
<1>1. PICK f : Among(f, s, r, Len(s)) /\ OfRank(s, r) = f[Len(s)]
  BY OfRankIsAmong
<1> DEFINE T == {m \in 0 .. Len(s) : ~Picks(f[m], s, r, m)}
<1>2. SUFFICES ASSUME T # {}
               PROVE  FALSE
  BY <1>1
<1>3. PICK m \in T : \A n \in T : m <= n
  <2>1. T \in SUBSET Nat
    OBVIOUS
  <2> HIDE DEF T
  <2>2. QED
    BY <1>2, <2>1, LeastNatural
<1>4. f[0] = <<>> /\ Picks(<<>>, s, r, 0)
  BY <1>1 DEF Among, Picks
<1>5. m \in Nat /\ m # 0 /\ m \in 0 .. Len(s)
  BY <1>4
<1>6. f[m] = IF s[m] = r THEN Append(f[m - 1], m) ELSE f[m - 1]
  BY <1>1, <1>5 DEF Among
<1>7. Picks(f[m - 1], s, r, m - 1)
  BY <1>3, <1>5
<1>8. QED
  BY <1>5, <1>6, <1>7, AppendPicks

-----------------------------------------------------------------------------
(* The order in which services are asked.                                  *)

Better(s, i, j) == s[i] > s[j] \/ (s[i] = s[j] /\ i < j)

\* q has the indices of the services of rank r or better, the best first.
Ordered(q, s, r, l) ==
    /\ q \in Seq(1 .. l)
    /\ \A i \in 1 .. l : s[i] >= r => \E j \in 1 .. Len(q) : q[j] = i
    /\ \A j \in 1 .. Len(q) : s[q[j]] >= r
    /\ \A i, j \in 1 .. Len(q) : i < j => Better(s, q[i], q[j])

\* Those of the next rank come after them.
LEMMA OrderedConcat ==
    ASSUME NEW l \in Nat, NEW s \in [1 .. l -> Nat], NEW r \in Nat,
           NEW q, Ordered(q, s, r + 1, l), NEW p, Picks(p, s, r, l)
    PROVE  Ordered(q \o p, s, r, l)
<1> DEFINE a == q \o p
<1>1. PICK m, n \in Nat : m = Len(q) /\ n = Len(p)
  BY DEF Ordered, Picks
<1>2. /\ a \in Seq(1 .. l) /\ Len(a) = m + n
      /\ \A i \in 1 .. m : a[i] = q[i]
      /\ \A i \in 1 .. n : a[m + i] = p[i]
  <2>1. q \in Seq(1 .. l) /\ p \in Seq(1 .. l)
    BY DEF Ordered, Picks
  <2>2. QED
    BY <1>1, <2>1, ConcatProperties
<1> HIDE DEF a
<1>3. /\ \A i \in 1 .. m : q[i] \in 1 .. l /\ s[q[i]] >= r + 1
      /\ \A i, j \in 1 .. m : i < j => Better(s, q[i], q[j])
  BY <1>1 DEF Ordered
<1>4. /\ \A i \in 1 .. n : p[i] \in 1 .. l /\ s[p[i]] = r
      /\ \A i, j \in 1 .. n : i < j => p[i] < p[j]
  BY <1>1 DEF Picks
<1>5. \A i \in 1 .. m + n : i \in 1 .. m \/ \E k \in 1 .. n : i = m + k
  <2> TAKE i \in 1 .. m + n
  <2>1. CASE i <= m
    BY <1>1, <2>1
  <2>2. CASE i > m
    <3>1. i - m \in 1 .. n /\ i = m + (i - m)
      BY <1>1, <2>2
    <3>2. QED
      BY <3>1
  <2>3. QED
    BY <1>1, <2>1, <2>2
<1>6. \A i \in 1 .. l : s[i] >= r => \E j \in 1 .. m + n : a[j] = i
  <2> SUFFICES ASSUME NEW i \in 1 .. l, s[i] >= r
               PROVE  \E j \in 1 .. m + n : a[j] = i
    OBVIOUS
  <2>1. CASE s[i] = r
    <3>1. PICK k \in 1 .. n : p[k] = i
      BY <1>1, <2>1 DEF Picks
    <3>2. a[m + k] = i
      BY <1>2, <3>1
    <3>3. m + k \in 1 .. m + n
      OBVIOUS
    <3>4. QED
      BY <3>2, <3>3
  <2>2. CASE s[i] >= r + 1
    <3>1. PICK k \in 1 .. m : q[k] = i
      BY <1>1, <2>2 DEF Ordered
    <3>2. k \in 1 .. m + n /\ a[k] = i
      BY <1>1, <1>2, <3>1
    <3>3. QED
      BY <3>2
  <2>3. s[i] \in Nat
    OBVIOUS
  <2>4. QED
    BY <2>1, <2>2, <2>3
<1>7. \A i \in 1 .. m + n : s[a[i]] >= r
  <2> TAKE i \in 1 .. m + n
  <2>1. CASE i \in 1 .. m
    <3>1. a[i] = q[i] /\ q[i] \in 1 .. l /\ s[q[i]] >= r + 1
      BY <1>2, <1>3, <2>1
    <3>2. s[q[i]] \in Nat
      BY <3>1
    <3>3. QED
      BY <3>1, <3>2
  <2>2. CASE \E k \in 1 .. n : i = m + k
    <3>1. PICK k \in 1 .. n : i = m + k
      BY <2>2
    <3>2. a[i] = p[k] /\ s[p[k]] = r
      BY <1>2, <1>4, <3>1
    <3>3. QED
      BY <3>2
  <2>3. QED
    BY <1>5, <2>1, <2>2
<1>8. \A i, j \in 1 .. m + n : i < j => Better(s, a[i], a[j])
  <2> SUFFICES ASSUME NEW i \in 1 .. m + n, NEW j \in 1 .. m + n, i < j
               PROVE  Better(s, a[i], a[j])
    OBVIOUS
  <2>1. CASE j \in 1 .. m
    <3>1. i \in 1 .. m
      BY <1>1, <2>1
    <3>2. QED
      BY <1>2, <1>3, <2>1, <3>1
  <2>2. CASE i \in 1 .. m /\ \E k \in 1 .. n : j = m + k
    <3>1. PICK k \in 1 .. n : j = m + k
      BY <2>2
    <3>2. a[i] = q[i] /\ a[j] = p[k]
      BY <1>2, <2>2, <3>1
    <3>3. s[q[i]] >= r + 1 /\ s[p[k]] = r /\ s[q[i]] \in Nat
      BY <1>3, <1>4, <2>2, <3>1
    <3>4. s[q[i]] > s[p[k]]
      BY <3>3
    <3>5. QED
      BY <3>2, <3>4 DEF Better
  <2>3. CASE i \notin 1 .. m
    <3>1. PICK k \in 1 .. n : i = m + k
      BY <1>5, <2>3
    <3>2. j \notin 1 .. m
      BY <1>1, <2>3
    <3>3. PICK h \in 1 .. n : j = m + h
      BY <1>5, <3>2
    <3>4. k < h
      BY <1>1, <3>1, <3>3
    <3>5. a[i] = p[k] /\ a[j] = p[h]
      BY <1>2, <3>1, <3>3
    <3>6. s[p[k]] = s[p[h]] /\ p[k] < p[h]
      BY <1>4, <3>4
    <3>7. QED
      BY <3>5, <3>6 DEF Better
  <2>4. QED
    BY <1>5, <2>1, <2>2, <2>3
<1>9. QED
  BY <1>2, <1>6, <1>7, <1>8 DEF Ordered, a

\* What Preferred returns: the indices of all useful services and of no other,
\* a better rank first, and those of one rank in the device's order.
LEMMA PreferredLemma ==
    ASSUME NEW s \in Seq(Ranks)
    PROVE  /\ Len(s) \in Nat /\ DOMAIN s = 1 .. Len(s)
           /\ Ordered(Preferred(s), s, 1, Len(s))
<1> DEFINE l == Len(s)
           a == OfRank(s, 3)
           b == OfRank(s, 2)
           d == OfRank(s, 1)
<1>1. l \in Nat /\ DOMAIN s = 1 .. l /\ s \in [1 .. l -> Nat] /\ \A i \in 1 .. l : s[i] <= 3
  BY DEF Ranks
<1>2. Picks(a, s, 3, l) /\ Picks(b, s, 2, l) /\ Picks(d, s, 1, l)
  BY <1>1, OfRankPicks
<1>3. Preferred(s) = (a \o b) \o d
  BY DEF Preferred
<1> HIDE DEF a, b, d, l
<1>4. Ordered(<<>>, s, 3 + 1, l)
  BY <1>1 DEF Ordered
<1>5. <<>> \o a = a
  <2>1. a \in Seq(1 .. l)
    BY <1>2 DEF Picks
  <2>2. QED
    BY <2>1, ConcatEmptySeq
<1>6. Ordered(a, s, 2 + 1, l)
  <2>1. Ordered(<<>> \o a, s, 3, l)
    BY <1>1, <1>2, <1>4, OrderedConcat
  <2>2. QED
    BY <1>5, <2>1
<1>7. Ordered(a \o b, s, 1 + 1, l)
  <2>1. Ordered(a \o b, s, 2, l)
    BY <1>1, <1>2, <1>6, OrderedConcat
  <2>2. QED
    BY <2>1
<1>8. Ordered((a \o b) \o d, s, 1, l)
  BY <1>1, <1>2, <1>7, OrderedConcat
<1>9. QED
  BY <1>1, <1>3, <1>8 DEF l

-----------------------------------------------------------------------------
(* The search.                                                             *)

SearchTypeOK ==
    /\ by \in {"unicast", "multicast", "nobody"}
    /\ at \in {"search", "ask", "found", "inUse", "gaveUp", "notFound"}
    /\ todo \in Seq(Locations) /\ fetched \in Seq(Locations)
    /\ offered \in Seq(Ranks) /\ asking \in Seq(DOMAIN offered)

\* Every useful service was refused or is still to be asked, in the order of
\* preference.
BestFirst ==
    /\ \A i, j \in DOMAIN asking : i < j => Better(offered, asking[i], asking[j])
    /\ \A i \in DOMAIN asking : offered[asking[i]] >= 1
    /\ \A i \in DOMAIN offered :
         offered[i] >= 1 => i \in refused \/ \E j \in DOMAIN asking : asking[j] = i
    /\ at = "found" => asking # <<>>

NoRepeats(s) == \A i, j \in DOMAIN s : s[i] = s[j] => i = j

\* A URL that was an answer is seen or still to be looked at, and of those seen
\* it is the gateway's own that are fetched.
FollowsOwn ==
    /\ Elements(fetched) = checked \cap OwnLocations
    /\ checked \cup Elements(todo) = answered
    /\ NoRepeats(fetched)
    /\ at = "notFound" => todo = <<>> /\ target = Targets

SearchInv ==
    /\ SearchTypeOK
    /\ at \in {"ask", "found"} => BestFirst
    /\ by = "unicast" => FollowsOwn

\* What an action takes from SeqsUpTo is a sequence.
LEMMA BoundedSeq ==
    ASSUME NEW S, NEW n \in Nat, NEW s \in SeqsUpTo(S, n)
    PROVE  s \in Seq(S)
BY DEF SeqsUpTo

\* A search that begins.
LEMMA FreshSearch ==
    ASSUME by \in {"unicast", "multicast"}, at = "search",
           todo = <<>>, checked = {}, offered = <<>>, asking = <<>>,
           answered = {}, fetched = <<>>
    PROVE  SearchInv
BY DEF SearchInv, SearchTypeOK, FollowsOwn, Elements, NoRepeats

\* Head and Tail of a sequence of URLs split its elements.
LEMMA HeadTailElements ==
    ASSUME NEW S, NEW s \in Seq(S), s # <<>>
    PROVE  /\ Head(s) \in S /\ Tail(s) \in Seq(S)
           /\ Elements(s) = {Head(s)} \cup Elements(Tail(s))
<1>1. PICK l \in Nat : l # 0 /\ Len(s) = l /\ DOMAIN s = 1 .. l
  OBVIOUS
<1>2. /\ Head(s) = s[1] /\ Head(s) \in S /\ Tail(s) \in Seq(S)
      /\ DOMAIN Tail(s) = 1 .. l - 1
      /\ \A i \in 1 .. l - 1 : Tail(s)[i] = s[i + 1]
  BY <1>1, HeadTailProperties
<1>3. \A i \in 1 .. l : i = 1 \/ (i - 1 \in 1 .. l - 1 /\ s[i] = Tail(s)[i - 1])
  BY <1>2
<1>4. \A i \in 1 .. l - 1 : i + 1 \in 1 .. l
  OBVIOUS
<1>5. 1 \in 1 .. l
  BY <1>1
<1>6. QED
  <2>1. Elements(s) \subseteq {Head(s)} \cup Elements(Tail(s))
    <3> SUFFICES ASSUME NEW i \in 1 .. l
                 PROVE  s[i] \in {Head(s)} \cup Elements(Tail(s))
      BY <1>1 DEF Elements
    <3>1. CASE i = 1
      BY <1>2, <3>1
    <3>2. CASE i # 1
      <4>1. i - 1 \in DOMAIN Tail(s) /\ s[i] = Tail(s)[i - 1]
        BY <1>2, <1>3, <3>2
      <4>2. QED
        BY <4>1 DEF Elements
    <3>3. QED
      BY <3>1, <3>2
  <2>2. Elements(Tail(s)) \subseteq Elements(s)
    BY <1>1, <1>2, <1>4 DEF Elements
  <2>3. Head(s) \in Elements(s)
    BY <1>1, <1>2, <1>5 DEF Elements
  <2>4. QED
    BY <1>2, <2>1, <2>2, <2>3

\* A URL that is appended is one element more, and new if it was not there.
LEMMA AppendElements ==
    ASSUME NEW S, NEW s \in Seq(S), NEW e \in S
    PROVE  /\ Append(s, e) \in Seq(S)
           /\ Elements(Append(s, e)) = Elements(s) \cup {e}
           /\ NoRepeats(s) /\ e \notin Elements(s) => NoRepeats(Append(s, e))
<1> DEFINE a == Append(s, e)
<1>1. PICK l \in Nat : Len(s) = l /\ DOMAIN s = 1 .. l
  OBVIOUS
<1>2. /\ a \in Seq(S) /\ DOMAIN a = 1 .. l + 1 /\ a[l + 1] = e
      /\ \A i \in 1 .. l : a[i] = s[i]
  BY <1>1, AppendProperties
<1> HIDE DEF a
<1>3. \A i \in 1 .. l + 1 : i \in 1 .. l \/ i = l + 1
  OBVIOUS
<1>4. \A i \in 1 .. l : i \in 1 .. l + 1
  OBVIOUS
<1>5. l + 1 \in 1 .. l + 1
  OBVIOUS
<1>6. Elements(a) = Elements(s) \cup {e}
  <2>1. Elements(a) \subseteq Elements(s) \cup {e}
    BY <1>1, <1>2, <1>3 DEF Elements
  <2>2. Elements(s) \subseteq Elements(a)
    BY <1>1, <1>2, <1>4 DEF Elements
  <2>3. e \in Elements(a)
    BY <1>2, <1>5 DEF Elements
  <2>4. QED
    BY <2>1, <2>2, <2>3
<1>7. ASSUME NoRepeats(s), e \notin Elements(s)
      PROVE  NoRepeats(a)
  <2> SUFFICES ASSUME NEW i \in 1 .. l + 1, NEW j \in 1 .. l + 1, a[i] = a[j]
               PROVE  i = j
    BY <1>2 DEF NoRepeats
  <2>1. \A k \in 1 .. l : s[k] # e
    BY <1>1, <1>7 DEF Elements
  <2>2. QED
    BY <1>1, <1>2, <1>3, <1>7, <2>1 DEF NoRepeats
<1>8. QED
  BY <1>2, <1>6, <1>7 DEF a

\* The answers to a search are all new to todo, which was empty.
LEMMA SearchesKeeps ==
    ASSUME SearchInv, Searches
    PROVE  SearchInv'
<1>1. PICK answers \in SeqsUpTo(Locations, MaxAnswers) :
        /\ todo' = answers
        /\ answered' = answered \cup Elements(answers)
  BY DEF Searches
<1>2. /\ at = "search" /\ todo = <<>>
      /\ UNCHANGED <<by, at, checked, offered, asking, refused, fetched>>
  BY DEF Searches
<1>3. todo' \in Seq(Locations)
  BY <1>1, SearchAssumption, BoundedSeq
<1>4. SearchTypeOK'
  BY <1>2, <1>3 DEF SearchInv, SearchTypeOK
<1>5. by' = "unicast" => FollowsOwn'
  <2> SUFFICES ASSUME by = "unicast"
               PROVE  FollowsOwn'
    BY <1>2
  <2>1. FollowsOwn
    BY DEF SearchInv
  <2>2. checked = answered
    <3>1. Elements(todo) = {}
      BY <1>2 DEF Elements
    <3>2. QED
      BY <2>1, <3>1 DEF FollowsOwn
  <2>3. checked' \cup Elements(todo') = answered'
    BY <1>1, <1>2, <2>2
  <2>4. Elements(fetched)' = Elements(fetched)
    BY <1>2 DEF Elements
  <2>5. QED
    BY <1>2, <2>1, <2>3, <2>4 DEF FollowsOwn, NoRepeats
<1>6. QED
  BY <1>2, <1>4, <1>5 DEF SearchInv

\* A URL that is skipped was seen before, or is not the gateway's.
LEMMA SkipsKeeps ==
    ASSUME SearchInv, Skips
    PROVE  SearchInv'
<1>1. /\ at = "search" /\ todo # <<>> /\ todo' = Tail(todo)
      /\ checked' = Seen(Head(todo)) /\ ~Follow(Head(todo))
      /\ UNCHANGED <<by, at, target, offered, asking, refused, answered, fetched>>
  BY DEF Skips
<1>2. /\ Head(todo) \in Locations /\ Tail(todo) \in Seq(Locations)
      /\ Elements(todo) = {Head(todo)} \cup Elements(Tail(todo))
  BY <1>1, HeadTailElements DEF SearchInv, SearchTypeOK
<1>3. SearchTypeOK'
  BY <1>1, <1>2 DEF SearchInv, SearchTypeOK
<1>4. by' = "unicast" => FollowsOwn'
  <2> SUFFICES ASSUME by = "unicast"
               PROVE  FollowsOwn'
    BY <1>1
  <2>1. FollowsOwn
    BY DEF SearchInv
  <2>2. checked' = checked \cup {Head(todo)}
    BY <1>1 DEF Seen
  <2>3. checked' \cap OwnLocations = checked \cap OwnLocations
    BY <1>1, <2>2 DEF Follow, LocationHasAddr
  <2>4. checked' \cup Elements(todo)' = answered'
    BY <1>1, <1>2, <2>1, <2>2 DEF FollowsOwn, Elements
  <2>5. Elements(fetched)' = Elements(fetched)
    BY <1>1 DEF Elements
  <2>6. QED
    BY <1>1, <2>1, <2>3, <2>4, <2>5 DEF FollowsOwn, NoRepeats
<1>5. QED
  BY <1>1, <1>3, <1>4 DEF SearchInv

\* A URL that is followed is the gateway's and was not seen; the services of its
\* description are asked in the order of preference.
LEMMA FetchesKeeps ==
    ASSUME SearchInv, Fetches
    PROVE  SearchInv'
<1>1. /\ at = "search" /\ todo # <<>> /\ todo' = Tail(todo)
      /\ checked' = Seen(Head(todo)) /\ Follow(Head(todo))
      /\ fetched' = Append(fetched, Head(todo))
      /\ UNCHANGED <<by, target, answered>>
  BY DEF Fetches
<1>2. /\ Head(todo) \in Locations /\ Tail(todo) \in Seq(Locations)
      /\ Elements(todo) = {Head(todo)} \cup Elements(Tail(todo))
  BY <1>1, HeadTailElements DEF SearchInv, SearchTypeOK
<1>3. /\ fetched' \in Seq(Locations)
      /\ Elements(fetched') = Elements(fetched) \cup {Head(todo)}
      /\ NoRepeats(fetched) /\ Head(todo) \notin Elements(fetched) =>
           NoRepeats(fetched')
  BY <1>1, <1>2, AppendElements DEF SearchInv, SearchTypeOK
<1>4. by' = "unicast" => FollowsOwn'
  <2> SUFFICES ASSUME by = "unicast"
               PROVE  FollowsOwn'
    BY <1>1
  <2>1. FollowsOwn
    BY DEF SearchInv
  <2>2. /\ checked' = checked \cup {Head(todo)}
        /\ Head(todo) \in OwnLocations /\ Head(todo) \notin checked
    BY <1>1 DEF Seen, Follow, LocationHasAddr
  <2>3. Elements(fetched)' = checked' \cap OwnLocations
    BY <1>3, <2>1, <2>2 DEF FollowsOwn, Elements
  <2>4. checked' \cup Elements(todo)' = answered'
    BY <1>1, <1>2, <2>1, <2>2 DEF FollowsOwn, Elements
  <2>5. NoRepeats(fetched)'
    BY <1>3, <2>1, <2>2 DEF FollowsOwn, NoRepeats
  <2>6. at' # "notFound"
    BY <1>1 DEF Fetches
  <2>7. QED
    BY <2>3, <2>4, <2>5, <2>6 DEF FollowsOwn
<1>5. CASE at' = at /\ UNCHANGED <<offered, asking, refused>>
  BY <1>1, <1>2, <1>3, <1>4, <1>5 DEF SearchInv, SearchTypeOK
<1>6. CASE \E services \in SeqsUpTo(Ranks, MaxServices) :
             /\ at' = "ask" /\ offered' = services
             /\ asking' = Preferred(services) /\ refused' = {}
  <2>1. /\ at' = "ask" /\ offered' \in Seq(Ranks) /\ asking' = Preferred(offered')
    BY <1>6, SearchAssumption, BoundedSeq
  <2>2. PICK l \in Nat : /\ DOMAIN offered' = 1 .. l
                         /\ Ordered(asking', offered', 1, l)
    BY <2>1, PreferredLemma
  <2>3. /\ asking' \in Seq(1 .. l) /\ DOMAIN asking' = 1 .. Len(asking')
    BY <2>2 DEF Ordered
  <2>4. SearchTypeOK'
    BY <1>1, <1>2, <1>3, <2>1, <2>2, <2>3 DEF SearchInv, SearchTypeOK
  <2>5. BestFirst'
    BY <2>1, <2>2, <2>3 DEF BestFirst, Ordered
  <2>6. QED
    BY <1>4, <2>4, <2>5 DEF SearchInv
<1>7. QED
  BY <1>5, <1>6 DEF Fetches

\* The service refused leaves the front of those to be asked.
LEMMA NotUsableKeeps ==
    ASSUME SearchInv, NotUsable
    PROVE  SearchInv'
<1>1. /\ at = "ask" /\ at' \in {"ask", "search"}
      /\ UNCHANGED <<by, target, todo, checked, answered, fetched>>
  BY DEF NotUsable
<1>2. FollowsOwn => FollowsOwn'
  BY <1>1 DEF FollowsOwn, Elements, NoRepeats
<1>3. CASE asking = <<>>
  <2>1. at' = "search" /\ offered' = <<>> /\ asking' = <<>>
    BY <1>3 DEF NotUsable
  <2>2. SearchTypeOK'
    BY <1>1, <2>1 DEF SearchInv, SearchTypeOK
  <2>3. QED
    BY <1>1, <1>2, <2>1, <2>2 DEF SearchInv
<1>4. CASE asking # <<>>
  <2>1. /\ asking' = Tail(asking) /\ refused' = refused \cup {Head(asking)}
        /\ at' = "ask" /\ offered' = offered
    BY <1>1, <1>4 DEF NotUsable
  <2>2. PICK l \in Nat : /\ l # 0 /\ Len(asking) = l /\ DOMAIN asking = 1 .. l
                         /\ asking \in Seq(DOMAIN offered)
    BY <1>4 DEF SearchInv, SearchTypeOK
  <2>3. /\ asking' \in Seq(DOMAIN offered) /\ Head(asking) = asking[1]
        /\ DOMAIN asking' = 1 .. l - 1
        /\ \A i \in 1 .. l - 1 : asking'[i] = asking[i + 1]
    BY <1>4, <2>1, <2>2, HeadTailProperties
  <2>4. \A i \in 1 .. l : i = 1 \/ (i - 1 \in 1 .. l - 1 /\ asking[i] = asking'[i - 1])
    BY <2>3
  <2>5. \A i \in 1 .. l - 1 : i + 1 \in 1 .. l
    OBVIOUS
  <2>6. SearchTypeOK'
    BY <1>1, <2>1, <2>3 DEF SearchInv, SearchTypeOK
  <2>7. BestFirst
    BY <1>1 DEF SearchInv
  <2>8. \A i, j \in 1 .. l - 1 : i < j => Better(offered, asking'[i], asking'[j])
    <3> SUFFICES ASSUME NEW i \in 1 .. l - 1, NEW j \in 1 .. l - 1, i < j
                 PROVE  Better(offered, asking'[i], asking'[j])
      OBVIOUS
    <3>1. i + 1 \in 1 .. l /\ j + 1 \in 1 .. l /\ i + 1 < j + 1
      BY <2>5
    <3>2. Better(offered, asking[i + 1], asking[j + 1])
      BY <2>2, <2>7, <3>1 DEF BestFirst
    <3>3. QED
      BY <2>3, <3>2
  <2>9. \A i \in 1 .. l - 1 : offered[asking'[i]] >= 1
    BY <2>2, <2>3, <2>5, <2>7 DEF BestFirst
  <2>10. ASSUME NEW i \in DOMAIN offered, offered[i] >= 1
         PROVE  i \in refused' \/ \E j \in 1 .. l - 1 : asking'[j] = i
    <3>1. CASE i \in refused
      BY <2>1, <3>1
    <3>2. CASE i \notin refused
      <4>1. PICK j \in 1 .. l : asking[j] = i
        BY <2>2, <2>7, <2>10, <3>2 DEF BestFirst
      <4>2. QED
        BY <2>1, <2>3, <2>4, <4>1
    <3>3. QED
      BY <3>1, <3>2
  <2>11. BestFirst'
    BY <2>1, <2>3, <2>8, <2>9, <2>10 DEF BestFirst
  <2>12. QED
    BY <1>1, <1>2, <2>6, <2>11 DEF SearchInv
<1>5. QED
  BY <1>3, <1>4

\* The steps that end a search, or take the service that is asked.
LEMMA EndsKeeps ==
    ASSUME SearchInv, Exhausted \/ CtxDone \/ Usable
    PROVE  SearchInv'
<1>1. UNCHANGED <<by, target, todo, checked, offered, asking, refused,
                  answered, fetched>>
  BY DEF Exhausted, CtxDone, Usable
<1>2. /\ at' \in {"notFound", "gaveUp", "found"}
      /\ at' = "found" => at = "ask" /\ asking # <<>>
      /\ at' = "notFound" => todo = <<>> /\ target = TargetsLeft
  BY DEF Exhausted, CtxDone, Usable
<1>3. SearchTypeOK'
  BY <1>1, <1>2 DEF SearchInv, SearchTypeOK
<1>4. at' = "found" => BestFirst'
  BY <1>1, <1>2 DEF SearchInv, BestFirst
<1>5. by' = "unicast" => FollowsOwn'
  BY <1>1, <1>2 DEF SearchInv, FollowsOwn, TargetsLeft, Elements, NoRepeats
<1>6. QED
  BY <1>2, <1>3, <1>4, <1>5 DEF SearchInv

\* Nothing is left of a search that handed its gateway over.
LEMMA HandsOverKeeps ==
    ASSUME SearchInv, HandsOver
    PROVE  SearchInv'
<1>1. /\ at' \in {"inUse", "gaveUp"} /\ by' = "nobody" /\ Vanishes
  BY DEF HandsOver
<1>2. QED
  BY <1>1 DEF Vanishes, SearchInv, SearchTypeOK

\* The mappings' steps leave the search alone.
LEMMA SearchUnchanged ==
    ASSUME SearchInv, UNCHANGED searchVars
    PROVE  SearchInv'
BY DEF searchVars, SearchInv, SearchTypeOK, BestFirst, FollowsOwn, Better,
       Elements, NoRepeats

\* One step of the gateway object's life.
LEMMA SearchStep ==
    ASSUME SearchInv, [Next]_vars
    PROVE  SearchInv'
<1>1. CASE SearchNext
  BY <1>1, SearchesKeeps, EndsKeeps, SkipsKeeps, FetchesKeeps, NotUsableKeeps,
     HandsOverKeeps DEF SearchNext
<1>2. CASE BeginsAnew
  BY <1>2 DEF BeginsAnew, Vanishes, SearchInv, SearchTypeOK, FollowsOwn,
              Elements, NoRepeats
<1>3. CASE UNCHANGED searchVars
  BY <1>3, SearchUnchanged
<1>4. QED
  BY <1>1, <1>2, <1>3 DEF Next, Uses, Rediscovers, vars

\* The search keeps its URLs and services apart as SearchInv says, in every
\* search of the object's life (upnp.go:245-316, 377-407).
THEOREM SearchInvariant == Spec => []SearchInv
<1>1. Init => SearchInv
  BY FreshSearch DEF Init, SearchInit
<1>2. SearchInv /\ [Next]_vars => SearchInv'
  BY SearchStep
<1>3. QED
  BY <1>1, <1>2, PTL DEF Spec

\* A unicast search follows the gateway's URLs, each once, and all of them
\* before it reports that there is none.
THEOREM SearchFollowsOwn == Spec => []SearchIsExact
<1>1. SearchInv => SearchIsExact
  <2> SUFFICES ASSUME SearchInv, by = "unicast"
               PROVE  SearchIsExact
    BY DEF SearchIsExact
  <2>1. FollowsOwn
    BY DEF SearchInv
  <2>2. at = "notFound" => checked = answered
    <3>1. todo = <<>> => Elements(todo) = {}
      BY DEF Elements
    <3>2. QED
      BY <2>1, <3>1 DEF FollowsOwn
  <2>3. QED
    BY <2>1, <2>2 DEF FollowsOwn, SearchIsExact, NoRepeats
<1>2. QED
  BY <1>1, SearchInvariant, PTL

\* The service taken is the best one that the device would let it take.
THEOREM BestServiceTaken == Spec => []BestService
<1>1. SearchInv => BestService
  <2> SUFFICES ASSUME SearchInv, at = "found", NEW i \in DOMAIN offered,
                      Better(offered, i, Head(asking))
               PROVE  i \in refused
    BY DEF BestService, Better
  <2>1. BestFirst /\ asking \in Seq(DOMAIN offered) /\ asking # <<>>
    BY DEF SearchInv, SearchTypeOK, BestFirst
  <2>2. PICK best \in DOMAIN offered : best = Head(asking) /\ best = asking[1]
    BY <2>1
  <2>3. /\ 1 \in DOMAIN asking /\ offered[best] >= 1
        /\ offered[best] \in Nat /\ offered[i] \in Nat /\ i \in Nat /\ best \in Nat
    <3>1. 1 \in DOMAIN asking
      BY <2>1
    <3>2. offered[best] >= 1
      BY <2>1, <2>2, <3>1 DEF BestFirst
    <3>3. \A k \in DOMAIN offered : k \in Nat /\ offered[k] \in Nat
      <4>1. offered \in Seq(0 .. 3)
        BY DEF SearchInv, SearchTypeOK, Ranks
      <4>2. DOMAIN offered = 1 .. Len(offered) /\ Len(offered) \in Nat
        BY <4>1
      <4>3. QED
        BY <4>1, <4>2, ElementOfSeq
    <3>4. offered[best] \in Nat /\ offered[i] \in Nat /\ i \in Nat /\ best \in Nat
      BY <2>2, <3>3
    <3>5. QED
      BY <3>1, <3>2, <3>4
  <2>4. offered[i] >= 1 /\ ~Better(offered, best, i) /\ i # best
    BY <2>2, <2>3 DEF Better
  <2>5. ASSUME NEW j \in DOMAIN asking, asking[j] = i
        PROVE  FALSE
    <3>1. j \in Nat /\ j # 1 /\ 1 < j
      BY <2>1, <2>2, <2>4, <2>5
    <3>2. Better(offered, best, i)
      BY <2>1, <2>2, <2>3, <2>5, <3>1 DEF BestFirst
    <3>3. QED
      BY <2>4, <3>2
  <2>6. QED
    BY <2>1, <2>4, <2>5 DEF BestFirst
<1>2. QED
  BY <1>1, SearchInvariant, PTL
=============================================================================
