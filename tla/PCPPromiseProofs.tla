--------------------------- MODULE PCPPromiseProofs ---------------------------
(* PCPClient keeps the promise of the NAT interface (MappingPromise), for   *)
(* all values of its constants, on a network that keeps the order of        *)
(* requests: each of its steps is a step of the promise or a stutter, and   *)
(* each success is one of Promise!Succeeds.                                 *)
EXTENDS PCPClientProofs

\* The refinement mapping, with names for what the proofs hide.
Pending == [c \in Callers |-> PendingCall(c)]
Asked == [k \in Keys |-> AskedFor(k)]
Mapped == {k \in Keys : mapping[k] \in Nonces}
Gone == {k \in Keys : mapping[k] \notin Nonces /\ dropped[k]}

\* A mapping of this process that is there was not dropped.
MappedNotDropped == \A k \in Keys : mapping[k] \in Nonces => ~dropped[k]

PInv == Base /\ NetInv /\ MappedNotDropped

-----------------------------------------------------------------------------
LEMMA MappedNotDroppedStep ==
    ASSUME Base, MappedNotDropped, [Next]_vars
    PROVE  MappedNotDropped'
<1>1. CASE UNCHANGED <<mapping, dropped>>
  BY <1>1 DEF MappedNotDropped
<1>2. ASSUME NEW i \in DOMAIN requests, ServerAccepts(i)
      PROVE  MappedNotDropped'
  <2>1. requests[i] \in Request
    BY DEF Base, TypeOK
  <2>2. QED
    BY <1>2, <2>1, SentinelAssumption
       DEF MappedNotDropped, ServerAccepts, Base, TypeOK, Request, Op
<1>3. ASSUME NEW k \in Keys, Expire(k)
      PROVE  MappedNotDropped'
  BY <1>3, SentinelAssumption DEF MappedNotDropped, Expire, Base, TypeOK
<1>4. CASE Restart
  BY <1>4 DEF MappedNotDropped, Restart
<1>5. ASSUME NEW c \in Callers, CallerStep(c)
      PROVE  UNCHANGED <<mapping, dropped>>
  BY <1>5 DEF CallerStep, Acquire, SendAttempt, AttemptFails, RetryTimer,
              CtxDone, Garbled, Refused, Complete
<1>6. ASSUME NEW c \in Callers, NEW k \in Keys,
             \/ AddPortMapping(c, k) \/ DeletePortMapping(c, k)
             \/ GetExternalAddress(c, k)
      PROVE  UNCHANGED <<mapping, dropped>>
  BY <1>6 DEF AddPortMapping, DeletePortMapping, GetExternalAddress
<1>7. ASSUME NEW i \in DOMAIN requests,
             ServerRefuses(i) \/ ServerIgnores(i) \/ LoseRequest(i)
      PROVE  UNCHANGED <<mapping, dropped>>
  BY <1>7 DEF ServerRefuses, ServerIgnores, LoseRequest
<1>8. CASE UNCHANGED vars
  BY <1>8, <1>1 DEF vars
<1>9. QED
  BY <1>1, <1>2, <1>3, <1>4, <1>5, <1>6, <1>7, <1>8 DEF Next, Keys

\* What the refinement rests on holds in every reachable state.
THEOREM PInvariant == ASSUME ~Reordering PROVE Spec => []PInv
<1>1. Init => PInv
  BY BaseInit, NetInit DEF PInv, Init, MappedNotDropped
<1>2. PInv /\ [Next]_vars => PInv'
  BY BaseStep, NetStep, MappedNotDroppedStep DEF PInv
<1>3. QED
  BY <1>1, <1>2, PTL DEF Spec

-----------------------------------------------------------------------------
(* The steps of a caller.                                                  *)

\* A new call is Promise!Begin.
LEMMA StartBegins ==
    ASSUME PInv, NEW c \in Callers, NEW k \in Keys, NEW op \in Op,
           NEW probe \in BOOLEAN, call[c].pc = "idle", Start(c, k, op, probe),
           UNCHANGED <<requests, mapping, dropped>>
    PROVE  Promise!Begin(c, op, k)
<1>1. /\ call'[c] = Fresh("lock", k, op, probe)
      /\ \A d \in Callers \ {c} : call'[d] = call[d]
  BY DEF PInv, Base, TypeOK, Start
<1>2. Pending' = [Pending EXCEPT ![c] = [op |-> op, key |-> k]]
  <2>1. PendingCall(c)' = [op |-> op, key |-> k]
    BY <1>1 DEF PendingCall, Fresh
  <2>2. \A d \in Callers \ {c} : PendingCall(d)' = PendingCall(d)
    BY <1>1 DEF PendingCall
  <2>3. QED
    BY <2>1, <2>2 DEF Pending
<1>3. Pending[c] = Promise!NoCall
  BY DEF Pending, PendingCall, Promise!NoCall
<1>4. Asked' = [Asked EXCEPT ![k] = @ \cup {op}]
  <2>1. ASSUME NEW j \in Keys
        PROVE  AskedFor(j)' = IF j = k THEN AskedFor(j) \cup {op}
                                       ELSE AskedFor(j)
    BY <1>1 DEF AskedFor, Fresh, InFlight
  <2>2. QED
    BY <2>1 DEF Asked
<1>5. UNCHANGED <<Mapped, Gone>>
  BY DEF Mapped, Gone
<1>6. QED
  BY <1>2, <1>3, <1>4, <1>5 DEF Promise!Begin, Pending, Asked, Mapped, Gone

\* A step that neither ends nor begins a call, asks for nothing new and leaves
\* the server alone is Promise!Quiet.
LEMMA QuietStep ==
    ASSUME PInv, UNCHANGED <<Pending, Mapped>>, Gone' \subseteq Gone,
           \A k \in Keys : AskedFor(k)' \subseteq AskedFor(k)
    PROVE  Promise!Quiet
BY DEF Promise!Quiet, Promise!OnlyFewer, Pending, Mapped, Gone

\* The steps of an exchange that is still open.
LEMMA ExchangeQuiet ==
    ASSUME PInv, NEW c \in Callers,
           call[c].pc # "idle", call'[c].pc # "idle",
           call'[c].op = call[c].op, call'[c].key = call[c].key,
           \A d \in Callers \ {c} : call'[d] = call[d],
           \A r \in InFlight' :
             r \in InFlight \/ (r.op = call[c].op /\ r.key = call[c].key),
           UNCHANGED <<mapping, dropped>>
    PROVE  Promise!Quiet
<1>1. UNCHANGED Pending
  BY DEF Pending, PendingCall
<1>2. \A k \in Keys : AskedFor(k)' \subseteq AskedFor(k)
  BY DEF AskedFor
<1>3. UNCHANGED <<Mapped, Gone>>
  BY DEF Mapped, Gone
<1>4. QED
  BY <1>1, <1>2, <1>3, QuietStep

LEMMA AcquireQuiet ==
    ASSUME PInv, NEW c \in Callers, Acquire(c)
    PROVE  Promise!Quiet
<1>1. PICK n \in Nonces :
        call' = [call EXCEPT ![c].pc = "send", ![c].nonce = n]
  BY AcquireLemma DEF PInv
<1>2. /\ call[c] \in Call /\ call[c].pc = "lock"
      /\ UNCHANGED <<requests, mapping, dropped>>
  BY DEF PInv, Base, TypeOK, Acquire
<1>3. /\ call'[c].pc = "send" /\ call'[c].key = call[c].key
      /\ call'[c].op = call[c].op
      /\ \A d \in Callers \ {c} : call'[d] = call[d]
  BY <1>1, <1>2 DEF PInv, Base, TypeOK, Call
<1>4. InFlight' = InFlight
  BY <1>2 DEF InFlight
<1>5. QED
  BY <1>2, <1>3, <1>4, ExchangeQuiet

LEMMA SendQuiet ==
    ASSUME PInv, NEW c \in Callers, SendAttempt(c)
    PROVE  Promise!Quiet
<1> DEFINE r(p) == [from |-> p, key |-> call[c].key,
                    nonce |-> call[c].nonce, op |-> call[c].op]
<1>1. PICK p \in Ports \ LivePorts :
        /\ call' = [call EXCEPT ![c].pc = "wait", ![c].port = p]
        /\ requests' = IF Len(requests) < MaxInFlight
                         THEN Append(requests, r(p)) ELSE requests
  BY DEF SendAttempt
<1>2. /\ call[c] \in Call /\ call[c].pc = "send"
      /\ UNCHANGED <<mapping, dropped>>
  BY DEF PInv, Base, TypeOK, SendAttempt
<1>3. /\ call'[c].pc = "wait" /\ call'[c].key = call[c].key
      /\ call'[c].op = call[c].op
      /\ \A d \in Callers \ {c} : call'[d] = call[d]
  BY <1>1, <1>2 DEF PInv, Base, TypeOK, Call
<1>4. \A q \in InFlight' : q \in InFlight \/ q = r(p)
  <2>1. requests \in Seq(Request)
    BY DEF PInv, Base, TypeOK
  <2> HIDE DEF r
  <2>2. QED
    BY <1>1, <2>1 DEF InFlight
<1>5. \A q \in InFlight' :
        q \in InFlight \/ (q.op = call[c].op /\ q.key = call[c].key)
  <2>1. r(p).op = call[c].op /\ r(p).key = call[c].key
    OBVIOUS
  <2> HIDE DEF r
  <2>2. QED
    BY <1>4, <2>1
<1>6. QED
  BY <1>2, <1>3, <1>5, ExchangeQuiet

\* The caller returns with an error: Promise!Fails.
LEMMA ReturnFails ==
    ASSUME PInv, NEW c \in Callers, call[c].pc # "idle", Return(c),
           UNCHANGED <<requests, mapping, dropped>>
    PROVE  Promise!Fails(c)
<1>1. /\ call'[c] = Idle
      /\ \A d \in Callers \ {c} : call'[d] = call[d]
  BY DEF PInv, Base, TypeOK, Return
<1>2. Pending' = [Pending EXCEPT ![c] = Promise!NoCall]
  <2>1. PendingCall(c)' = Promise!NoCall
    BY <1>1 DEF PendingCall, Idle, Fresh, Promise!NoCall
  <2>2. \A d \in Callers \ {c} : PendingCall(d)' = PendingCall(d)
    BY <1>1 DEF PendingCall
  <2>3. QED
    BY <2>1, <2>2 DEF Pending
<1>3. Pending[c] # Promise!NoCall
  <2>1. call[c].op \in Op
    BY DEF PInv, Base, TypeOK, Call
  <2>2. QED
    BY <2>1 DEF Pending, PendingCall, Promise!NoCall, Op
<1>4. \A k \in Keys : AskedFor(k)' \subseteq AskedFor(k)
  BY <1>1 DEF AskedFor, InFlight, Idle, Fresh
<1>5. UNCHANGED <<Mapped, Gone>>
  BY DEF Mapped, Gone
<1>6. QED
  BY <1>2, <1>3, <1>4, <1>5
     DEF Promise!Fails, Promise!OnlyFewer, Promise!MayDoubt, Pending, Mapped,
         Gone

\* An attempt fails: another one will follow, or the call fails.
LEMMA BackoffFails ==
    ASSUME PInv, NEW c \in Callers, AttemptFails(c) \/ RetryTimer(c)
    PROVE  Promise!Quiet \/ Promise!Fails(c)
<1>1. CASE AttemptFails(c) /\ LastAttempt(c)
  BY <1>1, ReturnFails DEF AttemptFails
<1>2. CASE AttemptFails(c) /\ ~LastAttempt(c)
  <2>1. /\ call' = [call EXCEPT ![c].pc = "backoff", ![c].port = NoPort]
        /\ call[c] \in Call /\ call[c].pc # "idle"
        /\ UNCHANGED <<requests, mapping, dropped>>
    BY <1>2 DEF PInv, Base, TypeOK, AttemptFails
  <2>2. /\ call'[c].pc = "backoff" /\ call'[c].key = call[c].key
        /\ call'[c].op = call[c].op
        /\ \A d \in Callers \ {c} : call'[d] = call[d]
    BY <2>1 DEF PInv, Base, TypeOK, Call
  <2>3. InFlight' = InFlight
    BY <2>1 DEF InFlight
  <2>4. QED
    BY <2>1, <2>2, <2>3, ExchangeQuiet
<1>3. CASE RetryTimer(c)
  <2>1. /\ call[c] \in Call /\ call[c].pc # "idle"
        /\ UNCHANGED <<requests, mapping, dropped>>
    BY <1>3 DEF PInv, Base, TypeOK, RetryTimer
  <2>2. /\ call'[c].pc = "send" /\ call'[c].key = call[c].key
        /\ call'[c].op = call[c].op
        /\ \A d \in Callers \ {c} : call'[d] = call[d]
    BY <1>3, <2>1 DEF PInv, Base, TypeOK, Call, RetryTimer
  <2>3. InFlight' = InFlight
    BY <2>1 DEF InFlight
  <2>4. QED
    BY <2>1, <2>2, <2>3, ExchangeQuiet
<1>4. QED
  BY <1>1, <1>2, <1>3

\* Success is Promise!Succeeds: this is where the order of requests and the
\* nonce table matter, through AnswerStands.
LEMMA CompleteSucceeds ==
    ASSUME PInv, NEW c \in Callers, Complete(c)
    PROVE  Promise!Succeeds(c)
<1>0. PICK k \in Keys, op \in Op : k = call[c].key /\ op = call[c].op
  BY DEF PInv, Base, TypeOK, Complete, Call
<1>1. /\ call[c] \in Call /\ Active(c) /\ call[c].pc = "wait"
      /\ call[c].nonce \in Nonces
      /\ [to |-> call[c].port, ok |-> TRUE] \in responses
      /\ UNCHANGED <<requests, mapping, dropped>>
  BY DEF PInv, Base, TypeOK, Complete, Answered, Call, Active
<1>2. /\ call'[c] \in {Idle, Fresh("lock", k, "delete", TRUE)}
      /\ \A d \in Callers \ {c} : call'[d] = call[d]
  BY <1>0 DEF PInv, Base, TypeOK, Complete, Start
<1>3. Pending[c] = [op |-> op, key |-> k]
  BY <1>0, <1>1 DEF Pending, PendingCall
<1>4. \/ Pending' = [Pending EXCEPT ![c] = Promise!NoCall]
      \/ Pending' = [Pending EXCEPT ![c] = [op |-> "delete", key |-> k]]
  <2>1. PendingCall(c)' \in {Promise!NoCall, [op |-> "delete", key |-> k]}
    BY <1>0, <1>2 DEF PendingCall, Idle, Fresh, Promise!NoCall
  <2>2. \A d \in Callers \ {c} : PendingCall(d)' = PendingCall(d)
    BY <1>2 DEF PendingCall
  <2>3. QED
    BY <2>1, <2>2 DEF Pending
<1>5. IF op = "create" THEN k \in Mapped \cup Gone ELSE k \notin Mapped
  <2>1. IF op = "delete" THEN mapping[k] \notin Nonces
                         ELSE dropped[k] \/ mapping[k] = call[c].nonce
    BY <1>0, <1>1 DEF PInv, NetInv, AnswerStands
  <2>2. QED
    BY <1>1, <2>1, SentinelAssumption DEF Mapped, Gone, Op
<1>6. InFlight' = InFlight
  BY <1>1 DEF InFlight
<1>7. \A j \in Keys \ {k} : AskedFor(j)' \subseteq AskedFor(j)
  BY <1>0, <1>2, <1>6 DEF AskedFor, Idle, Fresh
<1>8. AskedFor(k)' \subseteq {op} \cup {Pending'[c].op}
                              \cup {Pending[d].op :
                                     d \in {e \in Callers \ {c} : Pending[e].key = k}}
  <2>1. ASSUME NEW r \in InFlight, r.key = k
        PROVE  r.op = op
    BY <1>0, <1>1, <2>1 DEF PInv, NetInv, AnswerStands, Alike, InFlight
  <2>2. ASSUME NEW d \in Callers, call'[d].pc # "idle", call'[d].key = k
        PROVE  \/ call'[d].op = Pending'[c].op
               \/ /\ d \in {e \in Callers \ {c} : Pending[e].key = k}
                  /\ call'[d].op = Pending[d].op
    <3>1. CASE d = c
      BY <2>2, <3>1 DEF Pending, PendingCall
    <3>2. CASE d # c
      BY <1>0, <1>2, <2>2, <3>2 DEF Pending, PendingCall
    <3>3. QED
      BY <3>1, <3>2
  <2>3. ASSUME NEW x \in AskedFor(k)'
        PROVE  \/ \E d \in Callers : /\ call'[d].pc # "idle" /\ call'[d].key = k
                                     /\ x = call'[d].op
               \/ \E r \in InFlight : r.key = k /\ x = r.op
    BY <1>6 DEF AskedFor
  <2>4. QED
    BY <2>1, <2>2, <2>3
<1>9. UNCHANGED <<Mapped, Gone>>
  BY <1>1 DEF Mapped, Gone
<1>10. QED
  <2>1. Pending[c] # Promise!NoCall
    BY <1>1, <1>3 DEF Promise!NoCall, Op
  <2>2. k \in {} \/ Promise!Done(op, k)
    BY <1>5 DEF Promise!Done, Mapped, Gone
  <2>3. Asked' = [j \in Keys |-> AskedFor(j)'] /\ Asked = [j \in Keys |-> AskedFor(j)]
    BY DEF Asked
  <2>4. \A j \in Keys \ {k} : Asked'[j] \subseteq Asked[j]
    BY <1>7, <2>3
  <2>5. Asked'[k] \subseteq {op, Pending'[c].op} \cup Promise!OthersAsk(c, k)
    BY <1>0, <1>1, <1>8, <2>3 DEF Promise!OthersAsk, Pending
  <2>6. QED
    <3>1. Pending[c].key = k /\ Pending[c].op = op
      BY <1>3
    <3>2. QED
      BY <1>4, <1>9, <2>1, <2>2, <2>4, <2>5, <3>1
         DEF Promise!Succeeds, Promise!MayDoubt, Pending, Asked, Mapped, Gone

-----------------------------------------------------------------------------
(* The server, the network, and the end of the process.                    *)

\* Taking a request from the network asks for nothing new.
LEMMA DeliverAsks ==
    ASSUME PInv, NEW i \in DOMAIN requests, Deliver(i), UNCHANGED call
    PROVE  \A k \in Keys : AskedFor(k)' \subseteq AskedFor(k)
<1>1. InFlight' \subseteq InFlight
  <2>1. \A j \in DOMAIN requests' : requests'[j] \in InFlight
    BY DeliverLemma DEF PInv, Base
  <2>2. QED
    BY <2>1 DEF InFlight
<1>2. QED
  BY <1>1 DEF AskedFor

\* The server carries out a request: on a mapping of this process, which is
\* Promise!CarriesOut, or on one of an earlier process, which is no concern.
LEMMA AcceptCarriesOut ==
    ASSUME PInv, NEW i \in DOMAIN requests, ServerAccepts(i)
    PROVE  Promise!Quiet \/ \E k \in Keys, op \in Op : Promise!CarriesOut(k, op)
<1>0. requests[i] \in Request
  BY DEF PInv, Base, TypeOK
<1>1. PICK k \in Keys, op \in Op, n \in Nonces \cup {Foreign} :
        /\ k = requests[i].key /\ op = requests[i].op /\ n = requests[i].nonce
  BY <1>0 DEF Request
<1>2. /\ mapping[k] \in {NoNonce, n}
      /\ mapping' = [mapping EXCEPT ![k] = IF op = "create" THEN n ELSE NoNonce]
      /\ dropped' = IF op = "create" THEN [dropped EXCEPT ![k] = FALSE]
                                     ELSE dropped
      /\ UNCHANGED call
  BY <1>1 DEF ServerAccepts, Authorized
<1>3. mapping \in [Keys -> Nonces \cup {NoNonce, Foreign}]
      /\ dropped \in [Keys -> BOOLEAN]
  BY DEF PInv, Base, TypeOK
<1>4. \A j \in Keys : AskedFor(j)' \subseteq AskedFor(j)
  BY <1>2, DeliverAsks DEF ServerAccepts
<1>5. UNCHANGED Pending
  BY <1>2 DEF Pending, PendingCall
<1>6. CASE n = Foreign
  <2>1. UNCHANGED Mapped
    BY <1>2, <1>3, <1>6, SentinelAssumption DEF Mapped
  <2>2. Gone' \subseteq Gone
    BY <1>2, <1>3, <1>6, SentinelAssumption DEF Gone
  <2>3. QED
    BY <1>4, <1>5, <2>1, <2>2, QuietStep
<1>7. CASE n \in Nonces
  <2>1. op \in AskedFor(k)
    BY <1>1, <1>7 DEF AskedFor, InFlight
  <2>2. IF op = "create"
          THEN Mapped' = Mapped \cup {k} /\ Gone' = Gone \ {k}
          ELSE Mapped' = Mapped \ {k} /\ Gone' \subseteq Gone
    <3>1. CASE op = "create"
      BY <1>2, <1>3, <1>7, <3>1 DEF Mapped, Gone
    <3>2. CASE op = "delete"
      <4>1. Mapped' = Mapped \ {k}
        BY <1>2, <1>3, <3>2, SentinelAssumption DEF Mapped
      <4>2. Gone' \subseteq Gone
        BY <1>2, <1>3, <3>2 DEF Gone, PInv, MappedNotDropped
      <4>3. QED
        BY <3>2, <4>1, <4>2
    <3>3. QED
      BY <3>1, <3>2 DEF Op
  <2>3. Promise!CarriesOut(k, op)
    BY <1>4, <1>5, <2>1, <2>2
       DEF Promise!CarriesOut, Promise!Surely, Promise!OnlyFewer, Pending,
           Mapped, Gone
  <2>4. QED
    BY <2>3
<1>8. QED
  BY <1>6, <1>7

\* A mapping ends of its own accord.
LEMMA ExpireDrops ==
    ASSUME PInv, NEW k \in Keys, Expire(k)
    PROVE  Promise!Quiet \/ Promise!Drops(k)
<1>1. /\ mapping \in [Keys -> Nonces \cup {NoNonce, Foreign}]
      /\ dropped \in [Keys -> BOOLEAN]
      /\ mapping' = [mapping EXCEPT ![k] = NoNonce]
      /\ dropped' = [dropped EXCEPT ![k] = @ \/ mapping[k] \in Nonces]
      /\ UNCHANGED <<call, requests>>
  BY DEF PInv, Base, TypeOK, Expire
<1>2. UNCHANGED Pending /\ UNCHANGED InFlight
  BY <1>1 DEF Pending, PendingCall, InFlight
<1>3. \A j \in Keys : AskedFor(j)' = AskedFor(j)
  BY <1>1, <1>2 DEF AskedFor
<1>4. CASE mapping[k] \in Nonces
  <2>1. k \in Mapped /\ Mapped' = Mapped \ {k} /\ Gone' = Gone \cup {k}
    BY <1>1, <1>4, SentinelAssumption DEF Mapped, Gone
  <2>2. UNCHANGED Asked
    BY <1>3 DEF Asked
  <2>3. QED
    BY <1>2, <2>1, <2>2 DEF Promise!Drops, Pending, Asked, Mapped, Gone
<1>5. CASE mapping[k] \notin Nonces
  <2>1. Mapped' = Mapped /\ Gone' = Gone
    BY <1>1, <1>5, SentinelAssumption DEF Mapped, Gone
  <2>2. QED
    BY <1>2, <1>3, <2>1, QuietStep
<1>6. QED
  BY <1>4, <1>5

\* A new process owns no mapping, and no request on its way is its own.
LEMMA RestartDies ==
    ASSUME PInv, Restart
    PROVE  Promise!Dies
<1>1. \A c \in Callers : call'[c] = Idle
  BY DEF Restart
<1>2. Pending' = [c \in Callers |-> Promise!NoCall]
  BY <1>1 DEF Pending, PendingCall, Idle, Fresh, Promise!NoCall
<1>3. \A n : Disown(n) \notin Nonces
  BY SentinelAssumption DEF Disown
<1>4. Asked' = [k \in Keys |-> {}]
  <2>1. \A r \in InFlight' : r.nonce \notin Nonces
    BY <1>3 DEF InFlight, Restart, Orphan
  <2>2. \A k \in Keys : AskedFor(k)' = {}
    BY <1>1, <2>1 DEF AskedFor, Idle, Fresh
  <2>3. QED
    BY <2>2 DEF Asked
<1>5. Mapped' = {} /\ Gone' = {}
  BY <1>3 DEF Mapped, Gone, Restart
<1>6. QED
  BY <1>2, <1>4, <1>5 DEF Promise!Dies, Pending, Asked, Mapped, Gone

-----------------------------------------------------------------------------
LEMMA PromiseInit == Init => Promise!Init
<1> SUFFICES ASSUME Init PROVE Promise!Init
  OBVIOUS
<1>1. Pending = [c \in Callers |-> Promise!NoCall]
  BY DEF Init, Pending, PendingCall, Idle, Fresh, Promise!NoCall
<1>2. InFlight = {}
  BY DEF Init, InFlight
<1>3. \A k \in Keys : AskedFor(k) = {}
  BY <1>2 DEF Init, AskedFor, Idle, Fresh
<1>4. Asked = [k \in Keys |-> {}]
  BY <1>3 DEF Asked
<1>5. Mapped = {} /\ Gone = {}
  BY SentinelAssumption DEF Init, Mapped, Gone
<1>6. QED
  BY <1>1, <1>4, <1>5 DEF Promise!Init, Pending, Asked, Mapped, Gone

\* Every step of the client and its environment is a step of the promise or
\* changes nothing it knows of.
LEMMA PromiseStep ==
    ASSUME PInv, [Next]_vars PROVE [Promise!Next]_(Promise!vars)
<1>1. ASSUME NEW c \in Callers, NEW k \in UserKeys,
             AddPortMapping(c, k) \/ DeletePortMapping(c, k)
      PROVE  Promise!Next
  <2>1. PICK op \in Op : Promise!Begin(c, op, k)
    BY <1>1, StartBegins DEF AddPortMapping, DeletePortMapping, Keys, Op
  <2>2. QED
    BY <2>1 DEF Promise!Next, Promise!Op, Op, Keys
<1>2. ASSUME NEW c \in Callers, NEW k \in ProbeKeys, GetExternalAddress(c, k)
      PROVE  Promise!Next
  <2>1. PICK op \in Op : Promise!Begin(c, op, k)
    BY <1>2, StartBegins DEF GetExternalAddress, Keys, Op
  <2>2. QED
    BY <2>1 DEF Promise!Next, Promise!Op, Op, Keys
<1>3. ASSUME NEW c \in Callers, CallerStep(c)
      PROVE  Promise!Next
  <2>1. CASE Acquire(c)
    BY <2>1, AcquireQuiet DEF Promise!Next
  <2>2. CASE SendAttempt(c)
    BY <2>2, SendQuiet DEF Promise!Next
  <2>3. CASE AttemptFails(c) \/ RetryTimer(c)
    BY <2>3, BackoffFails DEF Promise!Next
  <2>4. CASE CtxDone(c) \/ Garbled(c) \/ Refused(c)
    BY <2>4, ReturnFails DEF CtxDone, Garbled, Refused, Active, Promise!Next
  <2>5. CASE Complete(c)
    BY <2>5, CompleteSucceeds DEF Promise!Next
  <2>6. QED
    BY <1>3, <2>1, <2>2, <2>3, <2>4, <2>5 DEF CallerStep
<1>4. ASSUME NEW i \in DOMAIN requests, ServerAccepts(i)
      PROVE  Promise!Next
  BY <1>4, AcceptCarriesOut DEF Promise!Next, Promise!Op, Op
<1>5. ASSUME NEW i \in DOMAIN requests,
             ServerRefuses(i) \/ ServerIgnores(i) \/ LoseRequest(i)
      PROVE  Promise!Next
  <2>1. Deliver(i) /\ UNCHANGED <<call, mapping, dropped>>
    BY <1>5 DEF ServerRefuses, ServerIgnores, LoseRequest, Deliver
  <2>2. \A k \in Keys : AskedFor(k)' \subseteq AskedFor(k)
    BY <2>1, DeliverAsks
  <2>3. UNCHANGED <<Pending, Mapped, Gone>>
    BY <2>1 DEF Pending, PendingCall, Mapped, Gone
  <2>4. QED
    BY <2>2, <2>3, QuietStep DEF Promise!Next
<1>6. ASSUME NEW k \in Keys, Expire(k)
      PROVE  Promise!Next
  BY <1>6, ExpireDrops DEF Promise!Next
<1>7. CASE Restart
  BY <1>7, RestartDies DEF Promise!Next
<1>8. CASE UNCHANGED vars
  <2>1. UNCHANGED <<call, requests, mapping, dropped>>
    BY <1>8 DEF vars
  <2>2. InFlight' = InFlight
    BY <2>1 DEF InFlight
  <2>3. \A k \in Keys : AskedFor(k)' = AskedFor(k)
    BY <2>1, <2>2 DEF AskedFor
  <2>4. UNCHANGED <<Pending, Asked, Mapped, Gone>>
    BY <2>1, <2>3 DEF Pending, PendingCall, Asked, Mapped, Gone
  <2>5. QED
    BY <2>4 DEF Promise!vars, Pending, Asked, Mapped, Gone
<1>9. QED
  BY <1>1, <1>2, <1>3, <1>4, <1>5, <1>6, <1>7, <1>8 DEF Next

\* On a network that keeps the order of requests, the PCP client implements
\* the promise of the NAT interface, and reports as success only what the
\* promise calls one.
THEOREM PromiseKept == ASSUME ~Reordering PROVE Spec => KeepsPromise
<1>1. Init => Promise!Init
  BY PromiseInit
<1>2. PInv /\ [Next]_vars => [Promise!Next]_(Promise!vars)
  BY PromiseStep
<1>3. PInv /\ [Next]_vars
        => [\A c \in Callers : Complete(c) => Promise!Succeeds(c)]_vars
  BY CompleteSucceeds
<1>4. QED
  BY <1>1, <1>2, <1>3, PInvariant, PTL DEF Spec, KeepsPromise, Promise!Spec

=============================================================================
