--------------------------- MODULE PCPClientProofs ---------------------------
(* Theorems about PCPClient, for all values of its constants. *)
EXTENDS PCPClient, TLAPS

-----------------------------------------------------------------------------
(* Sequences.                                                              *)

\* Taking the i-th element out of a sequence shifts those behind it.
LEMMA RemoveAtLemma ==
    ASSUME NEW S, NEW s \in Seq(S), NEW i \in DOMAIN s
    PROVE  /\ RemoveAt(s, i) \in Seq(S)
           /\ Len(RemoveAt(s, i)) = Len(s) - 1
           /\ \A j \in 1 .. Len(s) - 1 :
                RemoveAt(s, i)[j] = IF j < i THEN s[j] ELSE s[j + 1]
<1>1. i \in 1 .. Len(s) /\ Len(s) \in Nat
  OBVIOUS
<1> DEFINE a == SubSeq(s, 1, i - 1)
           b == SubSeq(s, i + 1, Len(s))
<1>2. a \in Seq(S) /\ Len(a) = i - 1 /\ \A j \in 1 .. i - 1 : a[j] = s[j]
  BY <1>1
<1>3. b \in Seq(S) /\ Len(b) = Len(s) - i
      /\ \A j \in 1 .. Len(s) - i : b[j] = s[j + i]
  BY <1>1
<1>4. RemoveAt(s, i) = a \o b
  BY DEF RemoveAt
<1> HIDE DEF a, b
<1>5. QED
  BY <1>1, <1>2, <1>3, <1>4

\* What RemoveAt leaves is a shorter sequence of the same kind.
LEMMA DeliverLemma ==
    ASSUME TypeOK, NEW i \in DOMAIN requests, Deliver(i)
    PROVE  /\ requests' \in Seq(Request)
           /\ Len(requests') <= MaxInFlight
           /\ \A j \in DOMAIN requests' : requests'[j] \in InFlight
<1>1. requests \in Seq(Request) /\ Len(requests) \in Nat
      /\ Len(requests) <= MaxInFlight /\ MaxInFlight \in Nat
      /\ DOMAIN requests = 1 .. Len(requests)
  BY BoundAssumption DEF TypeOK
<1>2. CASE requests' = requests
  BY <1>1, <1>2 DEF InFlight
<1>3. CASE requests' = RemoveAt(requests, i)
  <2>1. /\ requests' \in Seq(Request)
        /\ Len(requests') = Len(requests) - 1
        /\ \A j \in 1 .. Len(requests) - 1 :
             requests'[j] = IF j < i THEN requests[j] ELSE requests[j + 1]
    BY <1>1, <1>3, RemoveAtLemma
  <2>2. DOMAIN requests' = 1 .. Len(requests) - 1
    BY <1>1, <2>1
  <2>3. QED
    BY <1>1, <2>1, <2>2 DEF InFlight
<1>4. QED
  BY <1>2, <1>3 DEF Deliver

-----------------------------------------------------------------------------
(* Types and locks, whatever the network does.                             *)

LEMMA BaseInit == Init => Base
<1> SUFFICES ASSUME Init PROVE Base
  OBVIOUS
<1>1. call \in [Callers -> Call] /\ \A c \in Callers : call[c] = Idle
  BY BoundAssumption DEF Init, Idle, Fresh, Call, Op
<1>2. requests \in Seq(Request) /\ Len(requests) <= MaxInFlight
  BY BoundAssumption DEF Init
<1>3. QED
  BY <1>1, <1>2, SentinelAssumption
     DEF Init, Base, TypeOK, LockHeld, Active, Idle, Fresh

LEMMA BaseStart ==
    ASSUME Base, NEW c \in Callers, NEW k \in Keys, NEW op \in Op,
           NEW probe \in BOOLEAN, call[c].pc = "idle", Start(c, k, op, probe),
           UNCHANGED <<nonces, lockOwner, externalIP, requests, responses,
                       mapping, held, dropped>>
    PROVE  Base'
<1>1. call' \in [Callers -> Call]
  BY BoundAssumption DEF Base, TypeOK, Start, Fresh, Call, Op
<1>2. QED
  BY <1>1, SentinelAssumption
     DEF Base, TypeOK, LockHeld, Start, Fresh, Active

\* The nonce of an exchange is the one in the table, or a candidate.
LEMMA AcquireLemma ==
    ASSUME Base, NEW c \in Callers, Acquire(c)
    PROVE  \E n \in Nonces :
             /\ nonces[call[c].key] # NoNonce => n = nonces[call[c].key]
             /\ call' = [call EXCEPT ![c].pc = "send", ![c].nonce = n]
             /\ nonces' = IF call[c].op = "create"
                            THEN [nonces EXCEPT ![call[c].key] = n] ELSE nonces
<1> DEFINE k == call[c].key
<1>1. nonces[k] \in Nonces \cup {NoNonce}
  <2>1. k \in Keys
    BY DEF Base, TypeOK, Acquire, Call
  <2>2. QED
    BY <2>1 DEF Base, TypeOK
<1>2. PICK n \in NonceFor(k) :
        /\ call' = [call EXCEPT ![c].pc = "send", ![c].nonce = n]
        /\ nonces' = Stored(k, call[c].op, n)
  BY DEF Acquire
<1>3. n \in Nonces /\ (nonces[k] # NoNonce => n = nonces[k])
  BY <1>1 DEF NonceFor
<1>4. QED
  BY <1>2, <1>3 DEF Stored

LEMMA BaseAcquire ==
    ASSUME Base, NEW c \in Callers, Acquire(c)
    PROVE  Base'
<1> DEFINE k == call[c].key
<1>1. call[c] \in Call /\ call[c].pc = "lock" /\ k \in Keys
  BY DEF Base, TypeOK, Acquire, Unlocked, Call
<1>2. PICK n \in Nonces :
        /\ call' = [call EXCEPT ![c].pc = "send", ![c].nonce = n]
        /\ nonces' = IF call[c].op = "create" THEN [nonces EXCEPT ![k] = n]
                                              ELSE nonces
  BY AcquireLemma
<1>3. /\ call' \in [Callers -> Call]
      /\ call'[c].pc = "send" /\ call'[c].nonce = n
      /\ call'[c].key = k /\ call'[c].port = call[c].port
      /\ \A d \in Callers \ {c} : call'[d] = call[d]
  BY <1>1, <1>2 DEF Base, TypeOK, Call
<1>4. QED
  BY <1>1, <1>2, <1>3, SentinelAssumption
     DEF Base, TypeOK, LockHeld, Active, Acquire, Unlocked
LEMMA BaseReturn ==
    ASSUME Base, NEW c \in Callers, call[c].pc # "idle", call[c].pc # "lock",
           Return(c),
           UNCHANGED <<nonces, externalIP, requests, mapping, held, dropped>>
    PROVE  Base'
<1>1. Idle \in Call
  BY BoundAssumption DEF Idle, Fresh, Call, Op
<1>2. call' \in [Callers -> Call] /\ call'[c] = Idle
      /\ \A d \in Callers \ {c} : call'[d] = call[d]
  BY <1>1 DEF Base, TypeOK, Return, Unlock
<1>3. Active(c) /\ lockOwner[call[c].key] = c
  BY DEF Base, TypeOK, LockHeld, Active, Call
<1>4. LockHeld'
  BY <1>2, <1>3 DEF Base, TypeOK, LockHeld, Active, Return, Unlock, Idle, Fresh
<1>5. QED
  BY <1>2, <1>4, SentinelAssumption
     DEF Base, TypeOK, Active, Return, Unlock, Idle, Fresh

LEMMA BaseSend ==
    ASSUME Base, NEW c \in Callers, SendAttempt(c)
    PROVE  Base'
<1>1. PICK p \in Ports \ LivePorts :
        /\ call' = [call EXCEPT ![c].pc = "wait", ![c].port = p]
        /\ requests' = IF Len(requests) < MaxInFlight
                         THEN Append(requests,
                                [from |-> p, key |-> call[c].key,
                                 nonce |-> call[c].nonce,
                                 op |-> call[c].op])
                         ELSE requests
  BY DEF SendAttempt
<1>2. /\ call[c] \in Call /\ call[c].pc = "send"
      /\ call[c].key \in Keys /\ call[c].nonce \in Nonces
  BY DEF Base, TypeOK, SendAttempt, Call, Active
<1>3. /\ call' \in [Callers -> Call]
      /\ call'[c].pc = "wait" /\ call'[c].port = p
      /\ call'[c].key = call[c].key /\ call'[c].nonce = call[c].nonce
      /\ \A d \in Callers \ {c} : call'[d] = call[d]
  BY <1>1, <1>2 DEF Base, TypeOK, Call
<1>4. requests' \in Seq(Request) /\ Len(requests') <= MaxInFlight
  <2> DEFINE r == [from |-> p, key |-> call[c].key, nonce |-> call[c].nonce,
                   op |-> call[c].op]
  <2>1. r \in Request
    BY <1>1, <1>2 DEF Request, Call
  <2> HIDE DEF r
  <2>2. QED
    BY <1>1, <2>1, BoundAssumption DEF Base, TypeOK, r
<1>5. LockHeld'
  BY <1>2, <1>3 DEF Base, TypeOK, LockHeld, Active, SendAttempt
<1>6. QED
  BY <1>1, <1>2, <1>3, <1>4, <1>5, SentinelAssumption
     DEF Base, TypeOK, Active, SendAttempt

LEMMA BaseBackoff ==
    ASSUME Base, NEW c \in Callers, AttemptFails(c) \/ RetryTimer(c)
    PROVE  Base'
<1>1. CASE AttemptFails(c) /\ call[c].attempt = MaxRetries - 1
  BY <1>1, BaseReturn DEF AttemptFails, LastAttempt
<1>2. CASE AttemptFails(c) /\ call[c].attempt # MaxRetries - 1
  <2>1. /\ call' = [call EXCEPT ![c].pc = "backoff", ![c].port = NoPort]
        /\ call[c] \in Call
        /\ UNCHANGED <<lockOwner, requests>>
    BY <1>2 DEF Base, TypeOK, AttemptFails, LastAttempt
  <2>2. /\ call' \in [Callers -> Call]
        /\ call'[c].pc = "backoff" /\ call'[c].port = NoPort
        /\ call'[c].key = call[c].key /\ call'[c].nonce = call[c].nonce
        /\ call'[c].attempt = call[c].attempt
        /\ \A d \in Callers \ {c} : call'[d] = call[d]
    BY <2>1 DEF Base, TypeOK, Call
  <2>3. call[c].attempt < MaxRetries - 1
    BY <1>2, <2>1, BoundAssumption DEF Call
  <2>4. LockHeld' /\ Active(c) /\ Active(c)'
    BY <1>2, <2>1, <2>2 DEF Base, TypeOK, LockHeld, Active, AttemptFails,
                            LastAttempt
  <2>5. QED
    BY <1>2, <2>1, <2>2, <2>3, <2>4
       DEF Base, TypeOK, Active, AttemptFails, LastAttempt
<1>3. CASE RetryTimer(c)
  <2>1. call[c].attempt + 1 \in 0 .. MaxRetries - 1
    BY <1>3, BoundAssumption DEF Base, TypeOK, Call, RetryTimer
  <2>2. /\ call' \in [Callers -> Call]
        /\ call'[c].pc = "send" /\ call'[c].port = call[c].port
        /\ call'[c].key = call[c].key /\ call'[c].nonce = call[c].nonce
        /\ \A d \in Callers \ {c} : call'[d] = call[d]
    BY <1>3, <2>1 DEF Base, TypeOK, Call, RetryTimer
  <2>3. QED
    BY <1>3, <2>2 DEF Base, TypeOK, LockHeld, Active, RetryTimer
<1>4. QED
  BY <1>1, <1>2, <1>3

LEMMA BaseComplete ==
    ASSUME Base, NEW c \in Callers, Complete(c)
    PROVE  Base'
<1> DEFINE k == call[c].key
           next == IF call[c].probe /\ call[c].op = "create"
                     THEN Fresh("lock", k, "delete", TRUE)
                     ELSE Idle
<1>1. /\ call[c] \in Call /\ Active(c)
      /\ k \in Keys /\ lockOwner[k] = c
  BY DEF Base, TypeOK, LockHeld, Complete, Answered, Forgotten, Unlock, Call,
         Active
<1>2. /\ next \in Call
      /\ next.pc = "idle" <=> next.key = NoKey
      /\ next.pc \in {"idle", "lock"}
      /\ next.port = NoPort /\ next.nonce = NoNonce
  BY <1>1, BoundAssumption, SentinelAssumption DEF Idle, Fresh, Call, Op
<1>3. call' \in [Callers -> Call] /\ call'[c] = next
      /\ \A d \in Callers \ {c} : call'[d] = call[d]
  BY <1>2 DEF Base, TypeOK, Complete, Answered, Forgotten, Unlock, Start
<1> HIDE DEF next
<1>4. LockHeld'
  BY <1>1, <1>2, <1>3 DEF Base, TypeOK, LockHeld, Active, Complete, Answered,
                          Forgotten, Unlock
<1>5. /\ nonces' \in [Keys -> Nonces \cup {NoNonce}]
      /\ lockOwner' \in [Keys -> Callers \cup {Nobody}]
      /\ externalIP' \in BOOLEAN
      /\ responses' \subseteq Response
      /\ held' \in [Keys -> BOOLEAN]
  <2>1. externalIP' \in BOOLEAN
    BY DEF Base, TypeOK, Complete, Answered, Forgotten, Unlock
  <2>2. QED
    BY <1>1, <2>1 DEF Base, TypeOK, Complete, Answered, Forgotten, Unlock
<1>6. /\ \A d \in Callers :
           /\ call'[d].key = NoKey <=> call'[d].pc = "idle"
           /\ call'[d].port = NoPort <=> call'[d].pc # "wait"
           /\ call'[d].nonce = NoNonce <=> ~Active(d)'
           /\ call'[d].pc = "backoff" => call'[d].attempt < MaxRetries - 1
  BY <1>2, <1>3 DEF Base, TypeOK, Active
<1>7. QED
  BY <1>3, <1>4, <1>5, <1>6 DEF Base, TypeOK, Complete, Answered, Forgotten,
                                Unlock

\* Only open sockets are answered.
LEMMA AnswerLemma ==
    ASSUME Base, NEW p \in Ports \cup {NoPort}, NEW ok \in BOOLEAN, Answer(p, ok)
    PROVE  /\ responses' \subseteq Response
           /\ responses' \subseteq responses \cup {[to |-> p, ok |-> ok]}
           /\ responses' # responses =>
                p # NoPort /\ \E c \in Callers : call[c].port = p
BY DEF Answer, Base, TypeOK, Response

LEMMA BaseServer ==
    ASSUME Base, NEW i \in DOMAIN requests,
           \/ ServerAccepts(i) \/ ServerRefuses(i) \/ ServerIgnores(i)
           \/ LoseRequest(i)
    PROVE  Base'
<1> DEFINE r == requests[i]
<1>1. r \in Request
  BY DEF Base, TypeOK
<1>2. requests' \in Seq(Request) /\ Len(requests') <= MaxInFlight
  <2>1. Deliver(i)
    BY DEF ServerAccepts, ServerRefuses, ServerIgnores, LoseRequest, Deliver
  <2>2. QED
    BY <2>1, DeliverLemma DEF Base
<1>3. responses' \subseteq Response
  <2>1. CASE ServerAccepts(i)
    BY <2>1, <1>1, AnswerLemma DEF ServerAccepts, Request
  <2>2. CASE ServerRefuses(i)
    BY <2>2, <1>1, AnswerLemma DEF ServerRefuses, Request
  <2>3. CASE ServerIgnores(i)
    BY <2>3, <1>1, AnswerLemma DEF ServerIgnores, Request
  <2>4. CASE LoseRequest(i)
    BY <2>4 DEF LoseRequest, Base, TypeOK
  <2>5. QED
    BY <2>1, <2>2, <2>3, <2>4
<1>4. /\ mapping' \in [Keys -> Nonces \cup {NoNonce, Foreign}]
      /\ dropped' \in [Keys -> BOOLEAN]
  BY <1>1 DEF ServerAccepts, ServerRefuses, ServerIgnores, LoseRequest, Base,
              TypeOK, Request
<1>5. UNCHANGED <<call, nonces, lockOwner, externalIP, held>>
  BY DEF ServerAccepts, ServerRefuses, ServerIgnores, LoseRequest
<1>6. QED
  BY <1>2, <1>3, <1>4, <1>5 DEF Base, TypeOK, LockHeld, Active

LEMMA BaseRestart ==
    ASSUME Base, Restart
    PROVE  Base'
<1>1. call' \in [Callers -> Call] /\ \A c \in Callers : call'[c] = Idle
  <2>1. Idle \in Call
    BY BoundAssumption DEF Idle, Fresh, Call, Op
  <2>2. QED
    BY <2>1 DEF Restart
<1>2. /\ requests' \in Seq(Request)
      /\ Len(requests') <= MaxInFlight
  <2>1. \A r \in Request : Orphan(r) \in Request
    BY DEF Orphan, Disown, Request
  <2>2. DOMAIN requests = 1 .. Len(requests) /\ Len(requests) \in Nat
    BY DEF Base, TypeOK
  <2>3. requests' = [i \in 1 .. Len(requests) |-> Orphan(requests[i])]
    BY <2>2 DEF Restart
  <2>4. \A i \in 1 .. Len(requests) : Orphan(requests[i]) \in Request
    BY <2>1, <2>2 DEF Base, TypeOK
  <2>5. requests' \in Seq(Request) /\ Len(requests') = Len(requests)
    BY <2>2, <2>3, <2>4
  <2>6. QED
    BY <2>5 DEF Base, TypeOK
<1>3. mapping' \in [Keys -> Nonces \cup {NoNonce, Foreign}]
  BY DEF Restart, Disown, Base, TypeOK
<1>4. QED
  BY <1>1, <1>2, <1>3, SentinelAssumption
     DEF Restart, Base, TypeOK, LockHeld, Active, Idle, Fresh

LEMMA BaseStep == Base /\ [Next]_vars => Base'
<1> SUFFICES ASSUME Base, [Next]_vars PROVE Base'
  OBVIOUS
<1>1. ASSUME NEW c \in Callers, NEW k \in UserKeys,
             AddPortMapping(c, k) \/ DeletePortMapping(c, k)
      PROVE  Base'
  BY <1>1, BaseStart DEF AddPortMapping, DeletePortMapping, Keys, Op
<1>2. ASSUME NEW c \in Callers, NEW k \in ProbeKeys, GetExternalAddress(c, k)
      PROVE  Base'
  BY <1>2, BaseStart DEF GetExternalAddress, Keys, Op
<1>3. ASSUME NEW c \in Callers, CallerStep(c)
      PROVE  Base'
  <2>1. CASE Acquire(c)
    BY <2>1, BaseAcquire
  <2>2. CASE SendAttempt(c)
    BY <2>2, BaseSend
  <2>3. CASE AttemptFails(c) \/ RetryTimer(c)
    BY <2>3, BaseBackoff
  <2>4. CASE CtxDone(c)
    BY <2>4, BaseReturn DEF CtxDone, Active
  <2>5. CASE Garbled(c) \/ Refused(c)
    BY <2>5, BaseReturn DEF Garbled, Refused
  <2>6. CASE Complete(c)
    BY <2>6, BaseComplete
  <2>7. QED
    BY <1>3, <2>1, <2>2, <2>3, <2>4, <2>5, <2>6 DEF CallerStep
<1>4. ASSUME NEW i \in DOMAIN requests,
             \/ ServerAccepts(i) \/ ServerRefuses(i) \/ ServerIgnores(i)
             \/ LoseRequest(i)
      PROVE  Base'
  BY <1>4, BaseServer
<1>5. ASSUME NEW k \in Keys, Expire(k)
      PROVE  Base'
  BY <1>5 DEF Expire, Base, TypeOK, LockHeld, Active
<1>6. CASE Restart
  BY <1>6, BaseRestart
<1>7. CASE UNCHANGED vars
  BY <1>7 DEF vars, Base, TypeOK, LockHeld, Active
<1>8. QED
  BY <1>1, <1>2, <1>3, <1>4, <1>5, <1>6, <1>7 DEF Next

THEOREM BaseInvariant == Spec => []Base
<1>1. QED
  BY BaseInit, BaseStep, PTL DEF Spec

\* The variables keep their types and a socket is open exactly while its
\* caller waits, in every behaviour of the client and its environment.
THEOREM TypeCorrect == Spec => []TypeOK
<1>1. Base => TypeOK
  BY DEF Base
<1>2. QED
  BY <1>1, BaseInvariant, PTL

-----------------------------------------------------------------------------
(* No call waits for ever: locks are given back and exchanges end.         *)

\* An exchange that goes on keeps its key, and no lock changes hands; its next
\* step takes it nearer to its end.
LEMMA GoesOn ==
    ASSUME Base, NEW c \in Callers, Active(c), ~LastAttempt(c) \/ ~AttemptFails(c),
           SendAttempt(c) \/ AttemptFails(c) \/ RetryTimer(c)
    PROVE  /\ Active(c)' /\ call'[c].key = call[c].key
           /\ \A d \in Callers \ {c} : call'[d] = call[d]
           /\ UNCHANGED lockOwner
           /\ StepsLeft(c)' \in 0 .. StepsLeft(c) - 1
<1>1. /\ call \in [Callers -> Call] /\ call[c] \in Call
      /\ call[c].attempt \in 0 .. MaxRetries - 1 /\ MaxRetries \in Nat \ {0}
  BY BoundAssumption DEF Base, TypeOK, Call
<1>2. CASE SendAttempt(c)
  <2>1. PICK p \in Ports \ LivePorts :
          call' = [call EXCEPT ![c].pc = "wait", ![c].port = p]
    BY <1>2 DEF SendAttempt
  <2>2. /\ call[c].pc = "send" /\ call'[c].pc = "wait"
        /\ call'[c].key = call[c].key /\ call'[c].attempt = call[c].attempt
        /\ \A d \in Callers \ {c} : call'[d] = call[d]
        /\ UNCHANGED lockOwner
    BY <1>1, <1>2, <2>1 DEF SendAttempt, Call
  <2>3. QED
    BY <1>1, <2>2 DEF Active, StepsLeft
<1>3. CASE AttemptFails(c)
  <2>1. /\ call[c].pc \in {"send", "wait"} /\ call[c].attempt # MaxRetries - 1
        /\ call' = [call EXCEPT ![c].pc = "backoff", ![c].port = NoPort]
        /\ UNCHANGED lockOwner
    BY <1>3 DEF AttemptFails, LastAttempt
  <2>2. /\ call'[c].pc = "backoff"
        /\ call'[c].key = call[c].key /\ call'[c].attempt = call[c].attempt
        /\ \A d \in Callers \ {c} : call'[d] = call[d]
    BY <1>1, <2>1 DEF Call
  <2>3. StepsLeft(c)' = 3 * (MaxRetries - call[c].attempt) - 2
    BY <2>2 DEF StepsLeft
  <2>4. \/ StepsLeft(c) = 3 * (MaxRetries - call[c].attempt)
        \/ StepsLeft(c) = 3 * (MaxRetries - call[c].attempt) - 1
    BY <1>1, <2>1 DEF StepsLeft
  <2>5. QED
    BY <1>1, <2>1, <2>2, <2>3, <2>4 DEF Active
<1>4. CASE RetryTimer(c)
  <2>1. /\ call[c].pc = "backoff" /\ call[c].attempt < MaxRetries - 1
        /\ call' = [call EXCEPT ![c].pc = "send", ![c].attempt = @ + 1]
        /\ UNCHANGED lockOwner
    BY <1>4 DEF RetryTimer, Base, TypeOK
  <2>2. /\ call'[c].pc = "send"
        /\ call'[c].key = call[c].key /\ call'[c].attempt = call[c].attempt + 1
        /\ \A d \in Callers \ {c} : call'[d] = call[d]
    BY <1>1, <2>1 DEF Call
  <2>3. StepsLeft(c)' = 3 * (MaxRetries - (call[c].attempt + 1))
    BY <1>1, <2>2 DEF StepsLeft
  <2>4. StepsLeft(c) = 3 * (MaxRetries - call[c].attempt) - 2
    BY <2>1 DEF StepsLeft
  <2>5. QED
    BY <1>1, <2>1, <2>2, <2>3, <2>4 DEF Active
<1>5. QED
  BY <1>2, <1>3, <1>4

\* An exchange that ends gives back the lock of its mapping, and no other.
LEMMA EndsUnlocked ==
    ASSUME Base, NEW c \in Callers,
           \/ AttemptFails(c) /\ LastAttempt(c)
           \/ CtxDone(c) \/ Garbled(c) \/ Refused(c) \/ Complete(c)
    PROVE  /\ Active(c) /\ ~Active(c)'
           /\ \A d \in Callers \ {c} : call'[d] = call[d]
           /\ lockOwner' = [lockOwner EXCEPT ![call[c].key] = Nobody]
<1>1. CASE ~Complete(c)
  <2>1. call' = [call EXCEPT ![c] = Idle] /\ Unlock(call[c].key) /\ Active(c)
    BY <1>1 DEF AttemptFails, CtxDone, Garbled, Refused, Return, Active
  <2>2. QED
    BY <2>1 DEF Base, TypeOK, Unlock, Active, Idle, Fresh
<1>2. CASE Complete(c)
  <2>1. /\ \/ call' = [call EXCEPT ![c] = Idle]
           \/ call' = [call EXCEPT ![c] = Fresh("lock", call[c].key, "delete", TRUE)]
        /\ Unlock(call[c].key) /\ call[c].pc = "wait"
    BY <1>2 DEF Complete, Start
  <2>2. QED
    BY <2>1 DEF Base, TypeOK, Unlock, Active, Idle, Fresh
<1>3. QED
  BY <1>1, <1>2

\* A caller that is not in an exchange begins to wait for a lock.
LEMMA StartsWaiting ==
    ASSUME Base, NEW c \in Callers,
           \/ \E k \in UserKeys : AddPortMapping(c, k) \/ DeletePortMapping(c, k)
           \/ \E k \in ProbeKeys : GetExternalAddress(c, k)
    PROVE  /\ ~Active(c) /\ ~Active(c)'
           /\ \A d \in Callers \ {c} : call'[d] = call[d]
           /\ UNCHANGED lockOwner
<1>1. PICK k \in Keys, op \in Op, probe \in BOOLEAN :
        /\ call[c].pc = "idle"
        /\ Start(c, k, op, probe)
        /\ UNCHANGED lockOwner
  BY DEF AddPortMapping, DeletePortMapping, GetExternalAddress, Keys, Op
<1>2. QED
  BY <1>1 DEF Base, TypeOK, Start, Fresh, Active

\* What a step of the client or its environment does to an exchange: it opens
\* with the lock, goes on, or ends and gives the lock back.
LEMMA ExchangeStep ==
    ASSUME Base, Next
    PROVE  \/ \E c \in Callers :
                /\ \A d \in Callers \ {c} : call'[d] = call[d]
                /\ \/ /\ ~Active(c) /\ ~Active(c)'
                      /\ UNCHANGED lockOwner
                   \/ /\ ~Active(c) /\ Active(c)'
                      /\ lockOwner' = [lockOwner EXCEPT ![call'[c].key] = c]
                   \/ /\ Active(c) /\ Active(c)'
                      /\ call'[c].key = call[c].key
                      /\ StepsLeft(c)' \in 0 .. StepsLeft(c) - 1
                      /\ UNCHANGED lockOwner
                   \/ /\ Active(c) /\ ~Active(c)'
                      /\ lockOwner' = [lockOwner EXCEPT ![call[c].key] = Nobody]
           \/ UNCHANGED <<call, lockOwner>>
           \/ Restart
<1>1. ASSUME NEW c \in Callers, Acquire(c)
      PROVE  /\ ~Active(c) /\ Active(c)'
             /\ \A d \in Callers \ {c} : call'[d] = call[d]
             /\ lockOwner' = [lockOwner EXCEPT ![call'[c].key] = c]
  <2>1. PICK n \in Nonces :
          call' = [call EXCEPT ![c].pc = "send", ![c].nonce = n]
    BY <1>1, AcquireLemma
  <2>2. call[c] \in Call /\ call[c].pc = "lock"
        /\ lockOwner' = [lockOwner EXCEPT ![call[c].key] = c]
    BY <1>1 DEF Acquire, Base, TypeOK
  <2>3. call'[c].pc = "send" /\ call'[c].key = call[c].key
        /\ \A d \in Callers \ {c} : call'[d] = call[d]
    BY <2>1, <2>2 DEF Base, TypeOK, Call
  <2>4. QED
    BY <2>2, <2>3 DEF Active
<1>2. ASSUME NEW c \in Callers,
             SendAttempt(c) \/ AttemptFails(c) \/ RetryTimer(c),
             ~(AttemptFails(c) /\ LastAttempt(c))
      PROVE  /\ Active(c) /\ Active(c)'
             /\ \A d \in Callers \ {c} : call'[d] = call[d]
             /\ call'[c].key = call[c].key
             /\ StepsLeft(c)' \in 0 .. StepsLeft(c) - 1
             /\ UNCHANGED lockOwner
  <2>1. Active(c)
    BY <1>2 DEF SendAttempt, AttemptFails, RetryTimer, Active
  <2>2. QED
    BY <1>2, <2>1, GoesOn
<1>3. ASSUME NEW i \in DOMAIN requests,
             \/ ServerAccepts(i) \/ ServerRefuses(i) \/ ServerIgnores(i)
             \/ LoseRequest(i)
      PROVE  UNCHANGED <<call, lockOwner>>
  BY <1>3 DEF ServerAccepts, ServerRefuses, ServerIgnores, LoseRequest
<1>4. ASSUME NEW k \in Keys, Expire(k)
      PROVE  UNCHANGED <<call, lockOwner>>
  BY <1>4 DEF Expire
<1>5. ASSUME NEW c \in Callers, CallerStep(c)
      PROVE  \/ Acquire(c)
             \/ /\ SendAttempt(c) \/ AttemptFails(c) \/ RetryTimer(c)
                /\ ~(AttemptFails(c) /\ LastAttempt(c))
             \/ AttemptFails(c) /\ LastAttempt(c)
             \/ CtxDone(c) \/ Garbled(c) \/ Refused(c) \/ Complete(c)
  BY <1>5 DEF CallerStep
<1>6. QED
  BY <1>1, <1>2, <1>3, <1>4, <1>5, StartsWaiting, EndsUnlocked DEF Next

LEMMA LocksStep ==
    Base /\ LocksGivenBack /\ [Next]_vars => LocksGivenBack'
<1> SUFFICES ASSUME Base, LocksGivenBack, [Next]_vars, NEW k \in Keys,
                    NEW o, lockOwner'[k] = o, o # Nobody
             PROVE  Active(o)' /\ call'[o].key = k
  BY DEF LocksGivenBack, Active
<1>1. CASE Next
  <2>1. CASE Restart
    BY <2>1 DEF Restart
  <2>2. CASE UNCHANGED <<call, lockOwner>>
    BY <2>2 DEF LocksGivenBack, Active
  <2>3. CASE ~Restart /\ ~UNCHANGED <<call, lockOwner>>
    <3>1. PICK c \in Callers :
            /\ \A d \in Callers \ {c} : call'[d] = call[d]
            /\ \/ /\ ~Active(c) /\ ~Active(c)'
                  /\ UNCHANGED lockOwner
               \/ /\ ~Active(c) /\ Active(c)'
                  /\ lockOwner' = [lockOwner EXCEPT ![call'[c].key] = c]
               \/ /\ Active(c) /\ Active(c)'
                  /\ call'[c].key = call[c].key
                  /\ UNCHANGED lockOwner
               \/ /\ Active(c) /\ ~Active(c)'
                  /\ lockOwner' = [lockOwner EXCEPT ![call[c].key] = Nobody]
      BY <1>1, <2>3, ExchangeStep
    <3>2. lockOwner \in [Keys -> Callers \cup {Nobody}] /\ Nobody \notin Callers
      BY SentinelAssumption DEF Base, TypeOK
    <3>3. lockOwner[k] # Nobody =>
            Active(lockOwner[k]) /\ call[lockOwner[k]].key = k
      BY DEF LocksGivenBack
    <3>4. QED
      BY <3>1, <3>2, <3>3 DEF Active
  <2>4. QED
    BY <2>1, <2>2, <2>3
<1>2. CASE UNCHANGED vars
  BY <1>2 DEF vars, LocksGivenBack, Active
<1>3. QED
  BY <1>1, <1>2

\* Nobody owns a lock past its own exchange.
THEOREM NoLockLeaks == Spec => []LocksGivenBack
<1>1. Init => LocksGivenBack
  BY DEF Init, LocksGivenBack
<1>2. QED
  BY <1>1, LocksStep, BaseInvariant, PTL DEF Spec

\* On any network, the lock of a mapping is with the caller whose exchange for it
\* is open, and with nobody when there is none: two exchanges for one mapping are
\* never open at once, and every return of addPortMappingWithHint gives it back.
THEOREM RequestsSerialized == Spec => []Serialized
<1>1. Base /\ LocksGivenBack => Serialized
  BY SentinelAssumption DEF Base, TypeOK, LockHeld, LocksGivenBack, Serialized
<1>2. QED
  BY <1>1, NoLockLeaks, BaseInvariant, PTL

\* On any network, whatever happens to an exchange takes it nearer to its end,
\* which it reaches after at most three steps for each of its attempts.
THEOREM ExchangesAreBounded == Spec => ExchangesEnd
<1>1. Base /\ [Next]_vars =>
        [\A c \in Callers :
           Active(c) /\ call'[c] # call[c]
             => ~Active(c)' \/ StepsLeft(c)' \in 0 .. StepsLeft(c) - 1]_vars
  <2> SUFFICES ASSUME Base, Next, NEW c \in Callers,
                      Active(c), call'[c] # call[c]
               PROVE  ~Active(c)' \/ StepsLeft(c)' \in 0 .. StepsLeft(c) - 1
    OBVIOUS
  <2>1. CASE Restart
    BY <2>1 DEF Restart, Active, Idle, Fresh
  <2>2. CASE ~Restart
    BY <2>2, ExchangeStep
  <2>3. QED
    BY <2>1, <2>2
<1>2. QED
  BY <1>1, BaseInvariant, PTL DEF Spec, ExchangesEnd

-----------------------------------------------------------------------------
(* The network in order: what is on its way agrees with the nonce table.   *)

\* What is left of the queue is what it was, in the order it was.
LEMMA DeliverOrder ==
    ASSUME TypeOK, NEW i \in DOMAIN requests, Deliver(i)
    PROVE  \A a, b \in DOMAIN requests' : a <= b =>
             \E x, y \in DOMAIN requests :
                 x <= y /\ requests'[a] = requests[x] /\ requests'[b] = requests[y]
<1>1. requests \in Seq(Request) /\ Len(requests) \in Nat
      /\ DOMAIN requests = 1 .. Len(requests)
  BY DEF TypeOK
<1>2. CASE requests' = requests
  BY <1>2
<1>3. CASE requests' = RemoveAt(requests, i)
  <2>1. /\ Len(requests') = Len(requests) - 1
        /\ \A j \in 1 .. Len(requests) - 1 :
             requests'[j] = IF j < i THEN requests[j] ELSE requests[j + 1]
    BY <1>1, <1>3, RemoveAtLemma
  <2>2. DOMAIN requests' = 1 .. Len(requests) - 1
    BY <1>1, <1>3, <2>1, RemoveAtLemma
  <2> SUFFICES ASSUME NEW a \in DOMAIN requests', NEW b \in DOMAIN requests',
                      a <= b
               PROVE  \E x, y \in DOMAIN requests :
                        /\ x <= y
                        /\ requests'[a] = requests[x]
                        /\ requests'[b] = requests[y]
    OBVIOUS
  <2> DEFINE X(j) == IF j < i THEN j ELSE j + 1
  <2>3. /\ X(a) \in DOMAIN requests /\ X(b) \in DOMAIN requests /\ X(a) <= X(b)
        /\ requests'[a] = requests[X(a)] /\ requests'[b] = requests[X(b)]
    BY <1>1, <2>1, <2>2
  <2>4. QED
    BY <2>3
<1>4. QED
  BY <1>2, <1>3 DEF Deliver

\* Taking a request from the queue leaves every fact about the queue true.
LEMMA DeliverKeeps ==
    ASSUME Base, NetInv, NEW i \in DOMAIN requests, Deliver(i),
           UNCHANGED <<call, nonces>>
    PROVE  CreatesKnown' /\ DeletesKnown' /\ NothingBehind'
<1>1. \A a, b \in DOMAIN requests' : a <= b =>
        \E x, y \in DOMAIN requests :
          x <= y /\ requests'[a] = requests[x] /\ requests'[b] = requests[y]
  BY DeliverOrder DEF Base
<1>2. \A a \in DOMAIN requests' : a <= a
  <2>1. requests' \in Seq(Request)
    BY DeliverLemma DEF Base
  <2>2. QED
    BY <2>1
<1>3. CreatesKnown'
  BY <1>1, <1>2 DEF NetInv, CreatesKnown, Active
<1>4. NothingBehind'
  <2> SUFFICES ASSUME NEW c \in Callers, NEW a \in DOMAIN requests',
                      call[c].pc = "wait", requests'[a].from = call[c].port
               PROVE  /\ requests'[a].key = call[c].key
                      /\ requests'[a].nonce = call[c].nonce
                      /\ \A b \in DOMAIN requests' :
                           a <= b => Alike(requests'[b], c)
    BY DEF NothingBehind, Alike
  <2>1. requests'[a].key = call[c].key /\ requests'[a].nonce = call[c].nonce
    BY <1>1, <1>2 DEF NetInv, NothingBehind
  <2>2. ASSUME NEW b \in DOMAIN requests', a <= b
        PROVE  Alike(requests'[b], c)
    BY <1>1, <2>2 DEF NetInv, NothingBehind
  <2>3. QED
    BY <2>1, <2>2
<1>5. DeletesKnown'
  BY DEF NetInv, DeletesKnown, Active
<1>6. QED
  BY <1>3, <1>4, <1>5

\* A caller that stops waiting, or never did, and closes its socket.
LEMMA NetLeave ==
    ASSUME Base, Base', NetInv, NEW c \in Callers, call'[c].pc # "wait",
           \A d \in Callers \ {c} : call'[d] = call[d],
           UNCHANGED <<requests, mapping, dropped>>,
           responses' = {r \in responses : r.to # call[c].port}
    PROVE  SocketsOwned' /\ NothingBehind' /\ AnswerStands'
<1>1. call'[c].port = NoPort
  BY DEF Base, TypeOK
<1>2. SocketsOwned'
  BY <1>1 DEF NetInv, SocketsOwned
<1>3. NothingBehind'
  BY DEF NetInv, NothingBehind, Alike
<1>4. AnswerStands'
  BY DEF NetInv, AnswerStands, Alike
<1>5. QED
  BY <1>2, <1>3, <1>4

\* The same where the table is left alone and no exchange is opened.
LEMMA NetIdle ==
    ASSUME Base, Base', NetInv, NEW c \in Callers, call'[c].pc # "wait",
           \A d \in Callers \ {c} : call'[d] = call[d],
           UNCHANGED <<nonces, requests, mapping, dropped>>,
           responses' = {r \in responses : r.to # call[c].port},
           Active(c)' => /\ Active(c)
                         /\ call'[c].key = call[c].key
                         /\ call'[c].op = call[c].op
                         /\ call'[c].nonce = call[c].nonce
    PROVE  NetInv'
<1>1. SocketsOwned' /\ NothingBehind' /\ AnswerStands'
  BY NetLeave
<1>2. CreatesKnown' /\ DeletesKnown'
  BY DEF NetInv, CreatesKnown, DeletesKnown, Active
<1>3. QED
  BY <1>1, <1>2 DEF NetInv, NoStranded

\* No answer is ever on its way to an absent socket.
LEMMA NoPortUnanswered ==
    ASSUME Base PROVE responses = {r \in responses : r.to # NoPort}
BY SentinelAssumption DEF Base, TypeOK, Response

LEMMA NetAcquire ==
    ASSUME Base, Base', NetInv, NEW c \in Callers, Acquire(c)
    PROVE  NetInv'
<1> DEFINE k == call[c].key
<1>1. /\ call[c] \in Call /\ call[c].pc = "lock" /\ k \in Keys
      /\ call[c].port = NoPort /\ lockOwner[k] = Nobody
  BY DEF Base, TypeOK, Acquire, Unlocked, Call
<1>2. PICK n \in Nonces :
        /\ nonces[k] # NoNonce => n = nonces[k]
        /\ call' = [call EXCEPT ![c].pc = "send", ![c].nonce = n]
        /\ nonces' = IF call[c].op = "create" THEN [nonces EXCEPT ![k] = n]
                                              ELSE nonces
  BY AcquireLemma
<1>3. /\ call'[c].pc = "send" /\ call'[c].nonce = n /\ call'[c].key = k
      /\ call'[c].op = call[c].op
      /\ \A d \in Callers \ {c} : call'[d] = call[d]
  BY <1>1, <1>2 DEF Base, TypeOK, Call
<1>4. SocketsOwned' /\ NothingBehind' /\ AnswerStands'
  BY <1>1, <1>3, NetLeave, NoPortUnanswered DEF Acquire, Unlocked
<1>5. \A j \in Keys : nonces'[j] = nonces[j] \/ (j = k /\ nonces[j] = NoNonce)
  BY <1>1, <1>2 DEF Base, TypeOK
<1>6. NoStranded'
  BY <1>5, SentinelAssumption DEF NetInv, NoStranded, Acquire, Unlocked
<1>7. CreatesKnown'
  <2>1. ASSUME NEW d \in Callers, Active(d)', call'[d].op = "create"
        PROVE  nonces'[call'[d].key] = call'[d].nonce
    <3>1. CASE d = c
      BY <1>1, <1>2, <1>3, <2>1, <3>1 DEF Base, TypeOK
    <3>2. CASE d # c
      <4>1. /\ Active(d) /\ call[d].op = "create"
            /\ call[d].key \in Keys /\ call[d].nonce # NoNonce
        BY <1>3, <2>1, <3>2 DEF Active, Base, TypeOK, Call
      <4>2. nonces[call[d].key] = call[d].nonce
        BY <4>1 DEF NetInv, CreatesKnown
      <4>3. QED
        BY <1>3, <1>5, <3>2, <4>1, <4>2
    <3>3. QED
      BY <3>1, <3>2
  <2>2. ASSUME NEW i \in DOMAIN requests, requests[i].op = "create",
               requests[i].nonce \in Nonces
        PROVE  nonces'[requests[i].key] = requests[i].nonce
    <3>1. nonces[requests[i].key] = requests[i].nonce
          /\ requests[i] \in Request
      BY <2>2 DEF NetInv, CreatesKnown, Base, TypeOK
    <3>2. QED
      BY <1>5, <2>2, <3>1, SentinelAssumption DEF Request
  <2>3. QED
    BY <2>1, <2>2 DEF CreatesKnown, Acquire, Unlocked
<1>8. DeletesKnown'
  <2> SUFFICES ASSUME NEW d \in Callers, Active(d)', call'[d].op = "delete"
               PROVE  nonces'[call'[d].key] \in {NoNonce, call'[d].nonce}
    BY DEF DeletesKnown, Active
  <2>1. CASE d = c
    BY <1>2, <1>3, <2>1
  <2>2. CASE d # c
    <3>1. Active(d) /\ call'[d] = call[d] /\ call[d].key # k
      BY <1>1, <1>3, <2>2, SentinelAssumption DEF Base, LockHeld, Active
    <3>2. QED
      BY <1>5, <3>1 DEF NetInv, DeletesKnown, Base, TypeOK, Call, Active
  <2>3. QED
    BY <2>1, <2>2
<1>9. QED
  BY <1>4, <1>6, <1>7, <1>8 DEF NetInv

LEMMA NetSend ==
    ASSUME Base, Base', NetInv, NEW c \in Callers, SendAttempt(c)
    PROVE  NetInv'
<1> DEFINE new(p) == [from |-> p, key |-> call[c].key,
                      nonce |-> call[c].nonce, op |-> call[c].op]
<1>1. PICK p \in Ports \ LivePorts :
        /\ call' = [call EXCEPT ![c].pc = "wait", ![c].port = p]
        /\ requests' = IF Len(requests) < MaxInFlight
                         THEN Append(requests, new(p)) ELSE requests
  BY DEF SendAttempt
<1>2. /\ call[c] \in Call /\ Active(c) /\ call[c].pc = "send"
      /\ call[c].nonce \in Nonces /\ p # NoPort
      /\ \A d \in Callers : call[d].port # p
      /\ \A i \in DOMAIN requests : requests[i].from # p
  BY SentinelAssumption DEF Base, TypeOK, SendAttempt, Active, Call, LivePorts,
     InFlight
<1>3. /\ call'[c].pc = "wait" /\ call'[c].port = p
      /\ call'[c].key = call[c].key /\ call'[c].nonce = call[c].nonce
      /\ call'[c].op = call[c].op
      /\ \A d \in Callers \ {c} : call'[d] = call[d]
  BY <1>1, <1>2 DEF Base, TypeOK, Call
<1>4. /\ DOMAIN requests \subseteq DOMAIN requests'
      /\ \A i \in DOMAIN requests : requests'[i] = requests[i]
      /\ \A i \in DOMAIN requests' \ DOMAIN requests :
           /\ requests'[i] = new(p)
           /\ \A j \in DOMAIN requests' : i <= j => j = i
  <2>1. requests \in Seq(Request) /\ Len(requests) \in Nat
    BY DEF Base, TypeOK
  <2>2. CASE requests' = requests
    BY <2>2
  <2>3. CASE requests' = Append(requests, new(p))
    <3> HIDE DEF new
    <3>1. QED
      BY <2>1, <2>3
  <2>4. QED
    BY <1>1, <2>2, <2>3
<1>5. \A d \in Callers \ {c} : Active(d) => call[d].key # call[c].key
  BY <1>2 DEF Base, LockHeld
<1>6. UNCHANGED <<nonces, responses, mapping, dropped>>
  BY DEF SendAttempt
<1>7. SocketsOwned'
  <2>1. \A d, e \in Callers :
          call'[d].port = call'[e].port /\ call'[d].port # NoPort => d = e
    BY <1>2, <1>3 DEF NetInv, SocketsOwned
  <2>2. ASSUME NEW r \in responses
        PROVE  \E d \in Callers : call'[d].port = r.to
    <3>1. PICK d \in Callers : call[d].port = r.to
      BY DEF NetInv, SocketsOwned
    <3>2. d # c
      BY <1>2, <3>1, SentinelAssumption DEF Base, TypeOK, Response
    <3>3. QED
      BY <1>3, <3>1, <3>2
  <2>3. QED
    BY <1>6, <2>1, <2>2 DEF SocketsOwned
<1>8. CreatesKnown'
  <2>1. \A d \in Callers :
          Active(d)' /\ call'[d].op = "create"
            => nonces[call'[d].key] = call'[d].nonce
    BY <1>2, <1>3 DEF NetInv, CreatesKnown, Active
  <2>2. \A i \in DOMAIN requests' :
          requests'[i].op = "create" /\ requests'[i].nonce \in Nonces
            => nonces[requests'[i].key] = requests'[i].nonce
    BY <1>2, <1>4 DEF NetInv, CreatesKnown
  <2>3. QED
    BY <1>6, <2>1, <2>2 DEF CreatesKnown
<1>9. NothingBehind'
  <2> SUFFICES ASSUME NEW d \in Callers, NEW i \in DOMAIN requests',
                      call'[d].pc = "wait", requests'[i].from = call'[d].port
               PROVE  /\ requests'[i].key = call'[d].key
                      /\ requests'[i].nonce = call'[d].nonce
                      /\ \A j \in DOMAIN requests' :
                           i <= j => Alike(requests[j], d)'
    BY DEF NothingBehind, Alike
  <2>1. CASE i \in DOMAIN requests
    <3>1. d # c /\ call'[d] = call[d] /\ Active(d)
      BY <1>2, <1>3, <1>4, <2>1 DEF Active
    <3>2. /\ requests[i].key = call[d].key
          /\ requests[i].nonce = call[d].nonce
          /\ \A j \in DOMAIN requests : i <= j => Alike(requests[j], d)
      BY <1>4, <2>1, <3>1 DEF NetInv, NothingBehind
    <3>3. \A j \in DOMAIN requests' :
            j \in DOMAIN requests \/ requests'[j].key # call[d].key
      BY <1>4, <1>5, <3>1
    <3>4. QED
      BY <1>4, <2>1, <3>1, <3>2, <3>3 DEF Alike
  <2>2. CASE i \notin DOMAIN requests
    <3>1. d = c
      <4>1. call'[d].port = p
        BY <1>4, <2>2
      <4>2. QED
        BY <1>2, <1>3, <4>1
    <3>2. QED
      BY <1>2, <1>3, <1>4, <2>2, <3>1 DEF Alike
  <2>3. QED
    BY <2>1, <2>2
<1>10. AnswerStands'
  <2> SUFFICES ASSUME NEW d \in Callers, call'[d].pc = "wait",
                      [to |-> call'[d].port, ok |-> TRUE] \in responses
               PROVE  /\ \A i \in DOMAIN requests' : Alike(requests[i], d)'
                      /\ IF call'[d].op = "delete"
                           THEN mapping[call'[d].key] \notin Nonces
                           ELSE \/ dropped[call'[d].key]
                                \/ mapping[call'[d].key] = call'[d].nonce
    BY <1>6 DEF AnswerStands
  <2>1. d # c
    BY <1>2, <1>3 DEF NetInv, SocketsOwned
  <2>2. call'[d] = call[d] /\ Active(d)
    BY <1>3, <2>1 DEF Active
  <2>3. \A i \in DOMAIN requests' :
          i \in DOMAIN requests \/ requests'[i].key # call[d].key
    BY <1>4, <1>5, <2>1, <2>2
  <2>4. QED
    BY <1>4, <2>2, <2>3 DEF NetInv, AnswerStands, Alike
<1>11. DeletesKnown'
  BY <1>2, <1>3, <1>6 DEF NetInv, DeletesKnown, Active
<1>12. QED
  BY <1>6, <1>7, <1>8, <1>9, <1>10, <1>11 DEF NetInv, NoStranded

LEMMA NetComplete ==
    ASSUME Base, Base', NetInv, NEW c \in Callers, Complete(c)
    PROVE  NetInv'
<1> DEFINE k == call[c].key
<1>1. /\ Active(c) /\ lockOwner[k] = c /\ k \in Keys
      /\ call[c].pc = "wait"
      /\ [to |-> call[c].port, ok |-> TRUE] \in responses
  BY DEF Base, TypeOK, LockHeld, Complete, Answered, Forgotten, Unlock, Call,
         Active
<1>2. /\ call'[c].pc \in {"idle", "lock"}
      /\ \A d \in Callers \ {c} : call'[d] = call[d]
      /\ ~Active(c)'
  BY DEF Complete, Answered, Forgotten, Unlock, Start, Fresh, Idle, Active,
         Base, TypeOK
<1>3. SocketsOwned' /\ NothingBehind' /\ AnswerStands'
  BY <1>2, NetLeave DEF Complete, Answered, Forgotten, Unlock
<1>4. CASE call[c].op # "delete"
  BY <1>2, <1>3, <1>4 DEF Complete, Answered, Forgotten, Unlock, NetInv,
                          NoStranded, CreatesKnown, DeletesKnown, Active
<1>5. CASE call[c].op = "delete"
  <2>1. nonces' = [nonces EXCEPT ![k] = NoNonce]
    BY <1>5 DEF Complete, Answered, Forgotten, Unlock
  <2>2. mapping[k] \notin Nonces /\ UNCHANGED <<mapping, requests>>
    BY <1>1, <1>5 DEF NetInv, AnswerStands, Complete, Answered, Forgotten,
                      Unlock
  <2>3. NoStranded'
    BY <2>1, <2>2, SentinelAssumption DEF NetInv, NoStranded, Base, TypeOK
  <2>4. \A d \in Callers :
          Active(d)' => d # c /\ Active(d) /\ call[d].key # k
    BY <1>1, <1>2 DEF Base, LockHeld, Active
  <2>5. \A i \in DOMAIN requests : requests[i].key = k => requests[i].op = "delete"
    BY <1>1, <1>5 DEF NetInv, AnswerStands, Alike
  <2>6. CreatesKnown'
    <3>1. ASSUME NEW d \in Callers, Active(d)', call'[d].op = "create"
          PROVE  nonces'[call'[d].key] = call'[d].nonce
      <4>1. call'[d] = call[d] /\ call[d].key # k /\ call[d].key \in Keys
        BY <1>2, <2>4, <3>1 DEF Base, TypeOK, Call, Active
      <4>2. nonces[call[d].key] = call[d].nonce
        BY <2>4, <3>1, <4>1 DEF NetInv, CreatesKnown
      <4>3. QED
        BY <2>1, <4>1, <4>2 DEF Base, TypeOK
    <3>2. ASSUME NEW i \in DOMAIN requests, requests[i].op = "create",
                 requests[i].nonce \in Nonces
          PROVE  nonces'[requests[i].key] = requests[i].nonce
      <4>1. requests[i].key \in Keys /\ requests[i].key # k
        <5>1. requests[i] \in Request
          BY DEF Base, TypeOK
        <5>2. requests[i].key # k
          BY <2>5, <3>2
        <5>3. QED
          BY <5>1, <5>2 DEF Request
      <4>2. nonces[requests[i].key] = requests[i].nonce
        BY <3>2 DEF NetInv, CreatesKnown
      <4>3. QED
        BY <2>1, <4>1, <4>2 DEF Base, TypeOK
    <3>3. QED
      BY <2>2, <3>1, <3>2 DEF CreatesKnown
  <2>7. DeletesKnown'
    <3> SUFFICES ASSUME NEW d \in Callers, Active(d)', call'[d].op = "delete"
                 PROVE  nonces'[call'[d].key] \in {NoNonce, call'[d].nonce}
      BY DEF DeletesKnown, Active
    <3>1. call'[d] = call[d] /\ Active(d) /\ call[d].key # k /\ call[d].key \in Keys
      BY <1>2, <2>4 DEF Base, TypeOK, Call, Active
    <3>2. QED
      BY <2>1, <3>1 DEF NetInv, DeletesKnown, Base, TypeOK
  <2>8. QED
    BY <1>3, <2>3, <2>6, <2>7 DEF NetInv
<1>6. QED
  BY <1>4, <1>5

\* Whatever the server accepts for a mapping, it then has what the requests
\* like it wanted.
LEMMA AcceptedAlike ==
    ASSUME Base, NetInv, NEW i \in DOMAIN requests, ServerAccepts(i),
           NEW c \in Callers, call[c].pc = "wait",
           requests[i].key = call[c].key, Alike(requests[i], c)
    PROVE  IF call[c].op = "delete" THEN mapping'[call[c].key] = NoNonce
                                   ELSE mapping'[call[c].key] = call[c].nonce
<1>1. requests[i].op = call[c].op /\ requests[i].nonce \in Nonces
  BY DEF Alike
<1>2. /\ call[c].key \in Keys
      /\ mapping'[call[c].key] =
           IF call[c].op = "create" THEN requests[i].nonce ELSE NoNonce
  <2>1. requests[i] \in Request
    BY DEF Base, TypeOK
  <2>2. requests[i].key \in Keys
    BY <2>1 DEF Request
  <2>3. mapping \in [Keys -> Nonces \cup {NoNonce, Foreign}]
    BY DEF Base, TypeOK
  <2>4. QED
    BY <1>1, <2>2, <2>3 DEF ServerAccepts
<1>3. call[c].op \in {"create", "delete"}
  BY DEF Base, TypeOK, Call, Op
<1>4. call[c].op = "create" => requests[i].nonce = call[c].nonce
  BY <1>1 DEF NetInv, CreatesKnown, Active
<1>5. QED
  BY <1>2, <1>3, <1>4

LEMMA NetAccepts ==
    ASSUME Base, Base', NetInv, ~Reordering,
           NEW i \in DOMAIN requests, ServerAccepts(i)
    PROVE  NetInv'
<1> DEFINE r == requests[i]
<1>1. /\ i = 1 /\ r \in Request /\ Deliver(i) /\ Answer(r.from, TRUE)
      /\ UNCHANGED <<call, nonces>>
  <2>1. r \in Request
    BY DEF Base, TypeOK
  <2>2. QED
    BY <2>1 DEF ServerAccepts, Position
<1>2. CreatesKnown' /\ DeletesKnown' /\ NothingBehind'
  BY <1>1, DeliverKeeps
<1>3. /\ responses' \subseteq responses \cup {[to |-> r.from, ok |-> TRUE]}
      /\ responses' # responses =>
           r.from # NoPort /\ \E c \in Callers : call[c].port = r.from
  BY <1>1, AnswerLemma DEF Request
<1>4. SocketsOwned'
  BY <1>1, <1>3 DEF NetInv, SocketsOwned
<1>5. NoStranded'
  <2>1. \A k \in Keys \ {r.key} : mapping'[k] = mapping[k]
    BY DEF ServerAccepts, Base, TypeOK
  <2>2. mapping'[r.key] = IF r.op = "create" THEN r.nonce ELSE NoNonce
    BY <1>1 DEF ServerAccepts, Base, TypeOK, Request
  <2>3. r.op = "create" /\ r.nonce \in Nonces => nonces[r.key] = r.nonce
    BY DEF NetInv, CreatesKnown
  <2>4. QED
    BY <1>1, <2>1, <2>2, <2>3, SentinelAssumption DEF NetInv, NoStranded
<1>6. \A a \in DOMAIN requests' : \E x \in DOMAIN requests :
        1 <= x /\ requests'[a] = requests[x]
  <2>1. requests \in Seq(Request) /\ requests' \in Seq(Request)
    BY <1>1, DeliverLemma DEF Base, TypeOK
  <2>2. \A a \in DOMAIN requests' : a <= a
    BY <2>1
  <2>3. \A x \in DOMAIN requests : 1 <= x
    BY <2>1
  <2>4. QED
    BY <1>1, <2>2, <2>3, DeliverOrder DEF Base
<1>7. AnswerStands'
  <2> SUFFICES ASSUME NEW c \in Callers, call[c].pc = "wait",
                      [to |-> call[c].port, ok |-> TRUE] \in responses'
               PROVE  /\ \A a \in DOMAIN requests' : Alike(requests'[a], c)
                      /\ IF call[c].op = "delete"
                           THEN mapping'[call[c].key] \notin Nonces
                           ELSE \/ dropped'[call[c].key]
                                \/ mapping'[call[c].key] = call[c].nonce
    BY <1>1 DEF AnswerStands, Alike
  <2>1. CASE [to |-> call[c].port, ok |-> TRUE] \in responses
    <3>1. /\ \A a \in DOMAIN requests : Alike(requests[a], c)
          /\ IF call[c].op = "delete"
               THEN mapping[call[c].key] \notin Nonces
               ELSE \/ dropped[call[c].key]
                    \/ mapping[call[c].key] = call[c].nonce
      BY <2>1 DEF NetInv, AnswerStands
    <3>2. \A a \in DOMAIN requests' : Alike(requests'[a], c)
      BY <1>6, <3>1
    <3>3. CASE r.key = call[c].key
      BY <1>1, <3>1, <3>2, <3>3, AcceptedAlike, SentinelAssumption
    <3>4. CASE r.key # call[c].key
      <4>1. /\ call[c].key \in Keys
            /\ mapping'[call[c].key] = mapping[call[c].key]
            /\ dropped'[call[c].key] = dropped[call[c].key]
        BY <3>4 DEF ServerAccepts, Base, TypeOK, Call
      <4>2. QED
        BY <3>1, <3>2, <4>1
    <3>5. QED
      BY <3>3, <3>4
  <2>2. CASE [to |-> call[c].port, ok |-> TRUE] \notin responses
    <3>1. r.from = call[c].port
      BY <1>3, <2>2
    <3>2. /\ r.key = call[c].key
          /\ \A a \in DOMAIN requests : 1 <= a => Alike(requests[a], c)
      BY <1>1, <3>1 DEF NetInv, NothingBehind
    <3>3. Alike(r, c)
      BY <1>1, <3>2
    <3>4. QED
      BY <1>1, <1>6, <3>2, <3>3, AcceptedAlike, SentinelAssumption
  <2>3. QED
    BY <2>1, <2>2
<1>8. QED
  BY <1>2, <1>4, <1>5, <1>7 DEF NetInv

LEMMA NetRefuses ==
    ASSUME Base, Base', NetInv, NEW i \in DOMAIN requests,
           ServerRefuses(i) \/ LoseRequest(i)
    PROVE  NetInv'
<1> DEFINE r == requests[i]
<1>1. /\ r \in Request /\ Deliver(i)
      /\ UNCHANGED <<call, nonces, mapping, dropped>>
  <2>1. r \in Request
    BY DEF Base, TypeOK
  <2>2. QED
    BY <2>1 DEF ServerRefuses, LoseRequest, Deliver
<1>2. CreatesKnown' /\ DeletesKnown' /\ NothingBehind'
  BY <1>1, DeliverKeeps
<1>3. /\ responses' \subseteq responses \cup {[to |-> r.from, ok |-> FALSE]}
      /\ responses' # responses =>
           r.from # NoPort /\ \E c \in Callers : call[c].port = r.from
  <2>1. CASE ServerRefuses(i)
    BY <1>1, <2>1, AnswerLemma DEF ServerRefuses, Request
  <2>2. CASE LoseRequest(i)
    BY <2>2 DEF LoseRequest
  <2>3. QED
    BY <2>1, <2>2
<1>4. SocketsOwned'
  BY <1>1, <1>3 DEF NetInv, SocketsOwned
<1>5. NoStranded'
  BY <1>1 DEF NetInv, NoStranded
<1>6. \A a \in DOMAIN requests' : \E x \in DOMAIN requests :
        requests'[a] = requests[x]
  <2>1. requests' \in Seq(Request)
    BY <1>1, DeliverLemma DEF Base
  <2>2. \A a \in DOMAIN requests' : a <= a
    BY <2>1
  <2>3. QED
    BY <1>1, <2>2, DeliverOrder DEF Base
<1>7. AnswerStands'
  <2>1. \A p \in Ports : [to |-> p, ok |-> TRUE] \in responses'
          => [to |-> p, ok |-> TRUE] \in responses
    BY <1>3
  <2>2. \A c \in Callers : call[c].pc = "wait" => call[c].port \in Ports
    BY DEF Base, TypeOK, Call
  <2>3. QED
    BY <1>1, <1>6, <2>1, <2>2 DEF NetInv, AnswerStands, Alike
<1>8. QED
  BY <1>2, <1>4, <1>5, <1>7 DEF NetInv

\* A delete the server takes for one of a mapping that does not exist does not
\* carry the nonce of the mapping it has, so that mapping is not this process's.
LEMMA NetIgnores ==
    ASSUME Base, Base', NetInv, ~Reordering,
           NEW i \in DOMAIN requests, ServerIgnores(i)
    PROVE  NetInv'
<1> DEFINE r == requests[i]
<1>1. /\ i = 1 /\ r \in Request /\ Deliver(i) /\ Answer(r.from, TRUE)
      /\ mapping[r.key] # r.nonce
      /\ UNCHANGED <<call, nonces, mapping, dropped>>
  <2>1. r \in Request
    BY DEF Base, TypeOK
  <2>2. QED
    BY <2>1 DEF ServerIgnores, Position, Authorized
<1>2. CreatesKnown' /\ DeletesKnown' /\ NothingBehind'
  BY <1>1, DeliverKeeps
<1>3. /\ responses' \subseteq responses \cup {[to |-> r.from, ok |-> TRUE]}
      /\ responses' # responses =>
           r.from # NoPort /\ \E c \in Callers : call[c].port = r.from
  BY <1>1, AnswerLemma DEF Request
<1>4. SocketsOwned'
  BY <1>1, <1>3 DEF NetInv, SocketsOwned
<1>5. NoStranded'
  BY <1>1 DEF NetInv, NoStranded
<1>6. \A a \in DOMAIN requests' : \E x \in DOMAIN requests :
        1 <= x /\ requests'[a] = requests[x]
  <2>1. requests \in Seq(Request) /\ requests' \in Seq(Request)
    BY <1>1, DeliverLemma DEF Base, TypeOK
  <2>2. /\ \A a \in DOMAIN requests' : a <= a
        /\ \A x \in DOMAIN requests : 1 <= x
    BY <2>1
  <2>3. QED
    BY <1>1, <2>2, DeliverOrder DEF Base
<1>7. AnswerStands'
  <2> SUFFICES ASSUME NEW c \in Callers, call[c].pc = "wait",
                      [to |-> call[c].port, ok |-> TRUE] \in responses'
               PROVE  /\ \A a \in DOMAIN requests' : Alike(requests'[a], c)
                      /\ IF call[c].op = "delete"
                           THEN mapping[call[c].key] \notin Nonces
                           ELSE \/ dropped[call[c].key]
                                \/ mapping[call[c].key] = call[c].nonce
    BY <1>1 DEF AnswerStands, Alike
  <2>1. CASE [to |-> call[c].port, ok |-> TRUE] \in responses
    BY <1>6, <2>1 DEF NetInv, AnswerStands
  <2>2. CASE [to |-> call[c].port, ok |-> TRUE] \notin responses
    <3>1. r.from = call[c].port
      BY <1>3, <2>2
    <3>2. /\ r.key = call[c].key /\ r.nonce = call[c].nonce
          /\ \A a \in DOMAIN requests : 1 <= a => Alike(requests[a], c)
      BY <1>1, <3>1 DEF NetInv, NothingBehind
    <3>3. call[c].op = "delete"
      BY <1>1, <3>2 DEF Alike, ServerIgnores
    <3>4. nonces[call[c].key] \in {NoNonce, call[c].nonce}
      BY <3>3 DEF NetInv, DeletesKnown, Active
    <3>5. call[c].key \in Keys
      BY <1>1, <3>2 DEF Request
    <3>6. mapping[call[c].key] \notin Nonces
      BY <1>1, <3>2, <3>4, <3>5, SentinelAssumption DEF NetInv, NoStranded
    <3>7. QED
      BY <1>6, <3>2, <3>3, <3>6
  <2>3. QED
    BY <2>1, <2>2
<1>8. QED
  BY <1>2, <1>4, <1>5, <1>7 DEF NetInv

LEMMA NetExpire ==
    ASSUME Base, NetInv, NEW k \in Keys, Expire(k)
    PROVE  NetInv'
<1>1. UNCHANGED <<call, nonces, requests, responses>>
  BY DEF Expire
<1>2. /\ mapping'[k] = NoNonce
      /\ dropped'[k] = (dropped[k] \/ mapping[k] \in Nonces)
      /\ \A j \in Keys \ {k} : mapping'[j] = mapping[j]
                              /\ dropped'[j] = dropped[j]
  BY DEF Expire, Base, TypeOK
<1>3. SocketsOwned' /\ CreatesKnown' /\ DeletesKnown' /\ NothingBehind'
  BY <1>1 DEF NetInv, SocketsOwned, CreatesKnown, DeletesKnown, NothingBehind,
              Alike, Active
<1>4. NoStranded'
  BY <1>1, <1>2, SentinelAssumption DEF NetInv, NoStranded
<1>5. \A c \in Callers :
        call[c].pc = "wait" => call[c].key \in Keys /\ call[c].nonce \in Nonces
  BY DEF Base, TypeOK, Call, Active
<1>6. AnswerStands'
  <2> SUFFICES ASSUME NEW c \in Callers, call[c].pc = "wait",
                      [to |-> call[c].port, ok |-> TRUE] \in responses
               PROVE  /\ \A i \in DOMAIN requests : Alike(requests[i], c)'
                      /\ IF call[c].op = "delete"
                           THEN mapping'[call[c].key] \notin Nonces
                           ELSE \/ dropped'[call[c].key]
                                \/ mapping'[call[c].key] = call[c].nonce
    BY <1>1 DEF AnswerStands
  <2>1. /\ \A i \in DOMAIN requests : Alike(requests[i], c)
        /\ IF call[c].op = "delete"
             THEN mapping[call[c].key] \notin Nonces
             ELSE \/ dropped[call[c].key]
                  \/ mapping[call[c].key] = call[c].nonce
    BY DEF NetInv, AnswerStands
  <2>2. \A i \in DOMAIN requests : Alike(requests[i], c)'
    BY <1>1, <2>1 DEF Alike
  <2>3. CASE call[c].key = k
    BY <1>2, <1>5, <2>1, <2>2, <2>3, SentinelAssumption
  <2>4. CASE call[c].key # k
    BY <1>2, <1>5, <2>1, <2>2, <2>4
  <2>5. QED
    BY <2>3, <2>4
<1>7. QED
  BY <1>3, <1>4, <1>6 DEF NetInv

LEMMA NetRestart ==
    ASSUME Base, Restart
    PROVE  NetInv'
<1>1. \A c \in Callers : /\ call'[c].pc = "idle" /\ call'[c].port = NoPort
  BY DEF Restart, Idle, Fresh
<1>2. \A i \in DOMAIN requests' : requests'[i].nonce \notin Nonces
  BY SentinelAssumption DEF Restart, Orphan, Disown, Base, TypeOK, Request
<1>3. \A k \in Keys : mapping'[k] \notin Nonces
  BY SentinelAssumption DEF Restart, Disown
<1>4. responses' = {}
  BY DEF Restart
<1>5. QED
  BY <1>1, <1>2, <1>3, <1>4
     DEF NetInv, SocketsOwned, CreatesKnown, DeletesKnown, NothingBehind,
         AnswerStands, NoStranded, Active

LEMMA NetStart ==
    ASSUME Base, Base', NetInv, NEW c \in Callers, NEW k \in Keys, NEW op \in Op,
           NEW probe \in BOOLEAN, call[c].pc = "idle", Start(c, k, op, probe),
           UNCHANGED <<nonces, lockOwner, externalIP, requests, responses,
                       mapping, held, dropped>>
    PROVE  NetInv'
<1>1. /\ call'[c].pc = "lock"
      /\ \A d \in Callers \ {c} : call'[d] = call[d]
  BY DEF Base, TypeOK, Start, Fresh
<1>2. call[c].port = NoPort
  BY DEF Base, TypeOK
<1>3. QED
  BY <1>1, <1>2, NetIdle, NoPortUnanswered DEF Active

LEMMA NetReturn ==
    ASSUME Base, Base', NetInv, NEW c \in Callers, Return(c),
           UNCHANGED <<nonces, externalIP, requests, mapping, held, dropped>>
    PROVE  NetInv'
<1>1. /\ call'[c].pc = "idle"
      /\ \A d \in Callers \ {c} : call'[d] = call[d]
  BY DEF Base, TypeOK, Return, Unlock, Idle, Fresh
<1>2. QED
  BY <1>1, NetIdle DEF Active, Return, Unlock

LEMMA NetBackoff ==
    ASSUME Base, Base', NetInv, NEW c \in Callers,
           AttemptFails(c) \/ RetryTimer(c)
    PROVE  NetInv'
<1>1. call[c] \in Call
  BY DEF Base, TypeOK
<1>2. CASE AttemptFails(c) /\ call[c].attempt = MaxRetries - 1
  BY <1>2, NetReturn DEF AttemptFails, LastAttempt
<1>3. CASE AttemptFails(c) /\ call[c].attempt # MaxRetries - 1
  <2>1. /\ call' = [call EXCEPT ![c].pc = "backoff", ![c].port = NoPort]
        /\ responses' = {r \in responses : r.to # call[c].port}
        /\ UNCHANGED <<nonces, requests, mapping, dropped>>
        /\ Active(c)
    BY <1>3 DEF AttemptFails, LastAttempt, Active
  <2>2. /\ call'[c].pc = "backoff" /\ call'[c].key = call[c].key
        /\ call'[c].op = call[c].op /\ call'[c].nonce = call[c].nonce
        /\ \A d \in Callers \ {c} : call'[d] = call[d]
    BY <1>1, <2>1 DEF Base, TypeOK, Call
  <2>3. QED
    BY <2>1, <2>2, NetIdle
<1>4. CASE RetryTimer(c)
  <2>1. /\ call'[c].pc = "send" /\ call'[c].key = call[c].key
        /\ call'[c].op = call[c].op /\ call'[c].nonce = call[c].nonce
        /\ \A d \in Callers \ {c} : call'[d] = call[d]
    BY <1>1, <1>4 DEF RetryTimer, Base, TypeOK, Call
  <2>2. Active(c) /\ call[c].port = NoPort
        /\ UNCHANGED <<nonces, requests, responses, mapping, dropped>>
    BY <1>4 DEF RetryTimer, Active, Base, TypeOK
  <2>3. QED
    BY <2>1, <2>2, NetIdle, NoPortUnanswered
<1>5. QED
  BY <1>2, <1>3, <1>4

LEMMA NetInit == Init => NetInv
BY SentinelAssumption
   DEF Init, Idle, Fresh, NetInv, SocketsOwned, CreatesKnown, DeletesKnown,
       NothingBehind, AnswerStands, NoStranded, Active

LEMMA NetStep == ~Reordering /\ Base /\ NetInv /\ [Next]_vars => NetInv'
<1> SUFFICES ASSUME ~Reordering, Base, NetInv, [Next]_vars PROVE NetInv'
  OBVIOUS
<1>0. Base'
  BY BaseStep
<1>1. ASSUME NEW c \in Callers, NEW k \in UserKeys,
             AddPortMapping(c, k) \/ DeletePortMapping(c, k)
      PROVE  NetInv'
  BY <1>0, <1>1, NetStart DEF AddPortMapping, DeletePortMapping, Keys, Op
<1>2. ASSUME NEW c \in Callers, NEW k \in ProbeKeys, GetExternalAddress(c, k)
      PROVE  NetInv'
  BY <1>0, <1>2, NetStart DEF GetExternalAddress, Keys, Op
<1>3. ASSUME NEW c \in Callers, CallerStep(c)
      PROVE  NetInv'
  <2>1. CASE Acquire(c)
    BY <1>0, <2>1, NetAcquire
  <2>2. CASE SendAttempt(c)
    BY <1>0, <2>2, NetSend
  <2>3. CASE AttemptFails(c) \/ RetryTimer(c)
    BY <1>0, <2>3, NetBackoff
  <2>4. CASE CtxDone(c) \/ Garbled(c) \/ Refused(c)
    BY <1>0, <2>4, NetReturn DEF CtxDone, Garbled, Refused
  <2>5. CASE Complete(c)
    BY <1>0, <2>5, NetComplete
  <2>6. QED
    BY <1>3, <2>1, <2>2, <2>3, <2>4, <2>5 DEF CallerStep
<1>4. ASSUME NEW i \in DOMAIN requests,
             \/ ServerAccepts(i) \/ ServerRefuses(i) \/ ServerIgnores(i)
             \/ LoseRequest(i)
      PROVE  NetInv'
  BY <1>0, <1>4, NetAccepts, NetRefuses, NetIgnores
<1>5. ASSUME NEW k \in Keys, Expire(k)
      PROVE  NetInv'
  BY <1>5, NetExpire
<1>6. CASE Restart
  BY <1>6, NetRestart
<1>7. CASE UNCHANGED vars
  BY <1>7 DEF vars, NetInv, SocketsOwned, CreatesKnown, DeletesKnown,
              NothingBehind, AnswerStands, NoStranded, Alike, Active
<1>8. QED
  BY <1>1, <1>2, <1>3, <1>4, <1>5, <1>6, <1>7 DEF Next

THEOREM NetInvariant == ASSUME ~Reordering PROVE Spec => [](Base /\ NetInv)
<1>1. Init => Base /\ NetInv
  BY BaseInit, NetInit
<1>2. (Base /\ NetInv) /\ [Next]_vars => (Base /\ NetInv)'
  BY BaseStep, NetStep
<1>3. QED
  BY <1>1, <1>2, PTL DEF Spec

\* On a network that keeps the order of requests, no mapping this process
\* created ever outlives the client's knowledge of its nonce.
THEOREM NothingStranded == ASSUME ~Reordering PROVE Spec => []NoStranded
<1>1. Base /\ NetInv => NoStranded
  BY DEF NetInv
<1>2. QED
  BY <1>1, NetInvariant, PTL

\* On such a network a delete reports success only when the server has no
\* mapping of this process left for the key, also when the server answers the
\* delete of a mapping it does not find with success.
THEOREM DeletesTruthful == ASSUME ~Reordering PROVE Spec => DeleteIsTruthful
<1>1. Base /\ NetInv /\ [Next]_vars =>
        [\A c \in Callers :
           Complete(c) /\ call[c].op = "delete"
             => mapping[call[c].key] \notin Nonces]_vars
  BY DEF NetInv, AnswerStands, Complete, Answered, Forgotten, Unlock
<1>2. QED
  BY <1>1, NetInvariant, PTL DEF Spec, DeleteIsTruthful

-----------------------------------------------------------------------------
(* Held mappings, where no address probe draws a key of the program.       *)

Disjoint == UserKeys \cap ProbeKeys = {}

LEMMA HeldInit == Init => HeldInv
BY DEF Init, HeldInv, KeyKinds, HeldQuiet, HeldIsMapped, Idle, Fresh

\* A step that opens no exchange and leaves table, queue, server and history.
LEMMA HeldFrame ==
    ASSUME Base, Base', HeldInv, NEW c \in Callers,
           \A d \in Callers \ {c} : call'[d] = call[d],
           UNCHANGED <<nonces, requests, mapping, held, dropped>>,
           Active(c)' => Active(c) /\ call'[c].op = call[c].op
                                   /\ call'[c].key = call[c].key,
           call'[c].pc # "idle" =>
             call'[c].key \in (IF call'[c].probe THEN ProbeKeys ELSE UserKeys)
    PROVE  HeldInv'
<1>1. KeyKinds'
  BY DEF HeldInv, KeyKinds
<1>2. HeldQuiet'
  BY DEF HeldInv, HeldQuiet, Active
<1>3. QED
  BY <1>1, <1>2 DEF HeldInv, HeldIsMapped

LEMMA HeldAcquire ==
    ASSUME Disjoint, Base, Base', HeldInv, NEW c \in Callers, Acquire(c)
    PROVE  HeldInv'
<1> DEFINE k == call[c].key
<1>1. /\ call[c] \in Call /\ call[c].pc = "lock" /\ k \in Keys
      /\ k \in (IF call[c].probe THEN ProbeKeys ELSE UserKeys)
  BY DEF Base, TypeOK, Acquire, Unlocked, Call, HeldInv, KeyKinds
<1>2. PICK n \in Nonces :
        /\ nonces[k] # NoNonce => n = nonces[k]
        /\ call' = [call EXCEPT ![c].pc = "send", ![c].nonce = n]
        /\ nonces' = IF call[c].op = "create" THEN [nonces EXCEPT ![k] = n]
                                              ELSE nonces
  BY AcquireLemma
<1>3. /\ call'[c].pc = "send" /\ call'[c].key = k
      /\ call'[c].op = call[c].op /\ call'[c].probe = call[c].probe
      /\ \A d \in Callers \ {c} : call'[d] = call[d]
  BY <1>1, <1>2 DEF Base, TypeOK, Call
<1>4. /\ \A j \in Keys : held'[j] => held[j]
      /\ held'[k] => call[c].op = "create"
  <2>1. CASE call[c].op = "delete" /\ ~call[c].probe
    BY <1>1, <2>1 DEF Acquire, Unlocked, Base, TypeOK
  <2>2. CASE call[c].op = "create" \/ call[c].probe
    <3>1. held' = held
      BY <2>2 DEF Acquire, Unlocked
    <3>2. call[c].probe => ~held[k]
      BY <1>1 DEF HeldInv, KeyKinds, Disjoint
    <3>3. QED
      BY <2>2, <3>1, <3>2
  <2>3. QED
    BY <1>1, <2>1, <2>2 DEF Call, Op
<1>5. \A j \in Keys : nonces'[j] = nonces[j] \/ nonces[j] = NoNonce
  BY <1>1, <1>2 DEF Base, TypeOK
<1>6. UNCHANGED <<requests, mapping, dropped>>
  BY DEF Acquire, Unlocked
<1>7. KeyKinds'
  BY <1>1, <1>3, <1>4 DEF HeldInv, KeyKinds
<1>8. HeldQuiet'
  <2>1. \A j \in Keys : held'[j] => nonces'[j] # NoNonce
    BY <1>4, <1>5 DEF HeldInv, HeldQuiet
  <2>2. \A j \in Keys, d \in Callers :
          held'[j] /\ Active(d)' /\ call'[d].key = j => call'[d].op = "create"
    BY <1>3, <1>4 DEF HeldInv, HeldQuiet, Active
  <2>3. QED
    BY <1>4, <1>6, <2>1, <2>2 DEF HeldInv, HeldQuiet
<1>9. HeldIsMapped'
  BY <1>4, <1>5, <1>6 DEF HeldInv, HeldQuiet, HeldIsMapped
<1>10. QED
  BY <1>7, <1>8, <1>9 DEF HeldInv

LEMMA HeldSend ==
    ASSUME Base, Base', HeldInv, NEW c \in Callers, SendAttempt(c)
    PROVE  HeldInv'
<1> DEFINE new(p) == [from |-> p, key |-> call[c].key,
                      nonce |-> call[c].nonce, op |-> call[c].op]
<1>1. PICK p \in Ports :
        /\ call' = [call EXCEPT ![c].pc = "wait", ![c].port = p]
        /\ requests' = IF Len(requests) < MaxInFlight
                         THEN Append(requests, new(p)) ELSE requests
  BY DEF SendAttempt
<1>2. call[c] \in Call /\ Active(c) /\ call[c].nonce \in Nonces
  BY DEF Base, TypeOK, SendAttempt, Active, Call
<1>3. /\ call'[c].key = call[c].key /\ call'[c].op = call[c].op
      /\ call'[c].probe = call[c].probe /\ call'[c].pc = "wait"
      /\ \A d \in Callers \ {c} : call'[d] = call[d]
  BY <1>1, <1>2 DEF Base, TypeOK, Call
<1>4. \A i \in DOMAIN requests' :
        \/ i \in DOMAIN requests /\ requests'[i] = requests[i]
        \/ requests'[i] = new(p)
  <2>1. requests \in Seq(Request)
    BY DEF Base, TypeOK
  <2>2. CASE requests' = requests
    BY <2>2
  <2>3. CASE requests' = Append(requests, new(p))
    <3> HIDE DEF new
    <3>1. QED
      BY <2>1, <2>3
  <2>4. QED
    BY <1>1, <2>2, <2>3
<1>5. UNCHANGED <<nonces, mapping, held, dropped>>
  BY DEF SendAttempt
<1>6. KeyKinds'
  BY <1>3, <1>5 DEF HeldInv, KeyKinds, SendAttempt
<1>7. HeldQuiet'
  <2>1. ASSUME NEW k \in Keys, held[k]
        PROVE  /\ \A d \in Callers :
                    Active(d)' /\ call'[d].key = k => call'[d].op = "create"
               /\ \A i \in DOMAIN requests' :
                    requests'[i].key = k => /\ requests'[i].op = "create"
                                            /\ requests'[i].nonce \in Nonces
    <3>1. call[c].key = k => call[c].op = "create"
      BY <1>2, <2>1 DEF HeldInv, HeldQuiet
    <3>2. \A d \in Callers :
            Active(d)' /\ call'[d].key = k => call'[d].op = "create"
      BY <1>3, <2>1, <3>1 DEF HeldInv, HeldQuiet, Active
    <3>3. QED
      BY <1>2, <1>4, <2>1, <3>1, <3>2 DEF HeldInv, HeldQuiet
  <2>2. QED
    BY <1>5, <2>1 DEF HeldInv, HeldQuiet
<1>8. QED
  BY <1>5, <1>6, <1>7 DEF HeldInv, HeldIsMapped

LEMMA HeldComplete ==
    ASSUME Base, Base', NetInv, HeldInv, NEW c \in Callers, Complete(c)
    PROVE  HeldInv'
<1> DEFINE k == call[c].key
<1>1. /\ Active(c) /\ lockOwner[k] = c /\ k \in Keys
      /\ call[c].nonce \in Nonces /\ call[c].op \in Op
      /\ call[c].pc = "wait"
      /\ [to |-> call[c].port, ok |-> TRUE] \in responses
      /\ k \in (IF call[c].probe THEN ProbeKeys ELSE UserKeys)
  BY DEF Base, TypeOK, LockHeld, Complete, Answered, Forgotten, Unlock, Call,
         Active, HeldInv, KeyKinds
<1>2. UNCHANGED <<requests, mapping, dropped>>
  BY DEF Complete, Answered, Forgotten, Unlock
<1>3. /\ ~Active(c)'
      /\ call'[c].pc # "idle" => call'[c].probe /\ call[c].probe
                                 /\ call'[c].key = k
      /\ \A d \in Callers \ {c} : call'[d] = call[d]
  BY DEF Complete, Answered, Forgotten, Unlock, Start, Fresh, Idle, Active,
         Base, TypeOK
<1>4. \A d \in Callers : Active(d)' => Active(d) /\ call[d].key # k
  BY <1>1, <1>3 DEF Base, LockHeld, Active
<1>5. CASE call[c].op = "create" /\ ~call[c].probe
  <2>1. UNCHANGED nonces
    BY <1>5 DEF Complete, Answered, Forgotten, Unlock
  <2>2. \A j \in Keys : held'[j] => held[j] \/ j = k
    BY <1>1, <1>5 DEF Complete, Answered, Forgotten, Unlock, Base, TypeOK
  <2>3. /\ \A i \in DOMAIN requests : requests[i].key = k =>
            requests[i].op = "create" /\ requests[i].nonce \in Nonces
        /\ dropped[k] \/ mapping[k] = call[c].nonce
    BY <1>1, <1>5 DEF NetInv, AnswerStands, Alike
  <2>4. nonces[k] = call[c].nonce
    BY <1>1, <1>5 DEF NetInv, CreatesKnown
  <2>5. KeyKinds'
    BY <1>1, <1>3, <1>5, <2>2 DEF HeldInv, KeyKinds
  <2>6. HeldQuiet'
    <3>1. \A d \in Callers, j \in Keys : held'[j] /\ Active(d)' /\ call'[d].key = j
            => call'[d].op = "create"
      BY <1>3, <1>4, <2>2 DEF HeldInv, HeldQuiet
    <3>2. QED
      BY <1>1, <1>2, <2>1, <2>2, <2>3, <2>4, <3>1, SentinelAssumption
         DEF HeldInv, HeldQuiet
  <2>7. HeldIsMapped'
    BY <1>1, <1>2, <2>1, <2>2, <2>3, <2>4, SentinelAssumption
       DEF HeldInv, HeldIsMapped
  <2>8. QED
    BY <2>5, <2>6, <2>7 DEF HeldInv
<1>6. CASE call[c].op = "delete" \/ call[c].probe
  <2>1. UNCHANGED held
    BY <1>6 DEF Complete, Answered, Forgotten, Unlock
  <2>2. held[k] => call[c].op = "create"
    BY <1>1 DEF HeldInv, HeldQuiet
  <2>3. \A j \in Keys : held[j] => nonces'[j] = nonces[j]
    BY <1>1, <2>2 DEF Complete, Answered, Forgotten, Unlock, Base, TypeOK
  <2>4. KeyKinds'
    BY <1>1, <1>3, <2>1 DEF HeldInv, KeyKinds
  <2>5. HeldQuiet'
    <3>1. \A d \in Callers, j \in Keys : held[j] /\ Active(d)' /\ call'[d].key = j
            => call'[d].op = "create"
      BY <1>3, <1>4 DEF HeldInv, HeldQuiet
    <3>2. QED
      BY <1>2, <2>1, <2>3, <3>1 DEF HeldInv, HeldQuiet
  <2>6. QED
    BY <1>2, <2>1, <2>3, <2>4, <2>5 DEF HeldInv, HeldIsMapped
<1>7. QED
  BY <1>1, <1>5, <1>6 DEF Op

LEMMA HeldServer ==
    ASSUME Base, NetInv, HeldInv, NEW i \in DOMAIN requests,
           \/ ServerAccepts(i) \/ ServerRefuses(i) \/ ServerIgnores(i)
           \/ LoseRequest(i)
    PROVE  HeldInv'
<1> DEFINE r == requests[i]
<1>1. /\ r \in Request /\ r.key \in Keys /\ Deliver(i)
      /\ UNCHANGED <<call, nonces, held>>
  <2>1. r \in Request
    BY DEF Base, TypeOK
  <2>2. QED
    BY <2>1 DEF ServerAccepts, ServerRefuses, ServerIgnores, LoseRequest,
                Deliver, Request
<1>2. KeyKinds'
  BY <1>1 DEF HeldInv, KeyKinds
<1>3. HeldQuiet'
  <2>1. \A a \in DOMAIN requests' : \E x \in DOMAIN requests :
          requests'[a] = requests[x]
    <3>1. \A a \in DOMAIN requests' : requests'[a] \in InFlight
      BY <1>1, DeliverLemma DEF Base
    <3>2. QED
      BY <3>1 DEF InFlight
  <2>2. QED
    BY <1>1, <2>1 DEF HeldInv, HeldQuiet, Active
<1>4. HeldIsMapped'
  <2>1. CASE ServerAccepts(i)
    <3>1. \A k \in Keys \ {r.key} : /\ mapping'[k] = mapping[k]
                                   /\ dropped'[k] = dropped[k]
      BY <2>1 DEF ServerAccepts, Base, TypeOK
    <3>2. held[r.key] =>
            mapping'[r.key] = nonces[r.key] /\ nonces[r.key] # NoNonce
      <4>1. SUFFICES ASSUME held[r.key]
                     PROVE  mapping'[r.key] = nonces[r.key]
                            /\ nonces[r.key] # NoNonce
        OBVIOUS
      <4>2. /\ r.op = "create" /\ r.nonce \in Nonces
            /\ nonces[r.key] # NoNonce
        BY <1>1, <4>1 DEF HeldInv, HeldQuiet
      <4>3. nonces[r.key] = r.nonce
        BY <4>2 DEF NetInv, CreatesKnown
      <4>4. QED
        BY <1>1, <2>1, <4>2, <4>3 DEF ServerAccepts, Base, TypeOK
    <3>3. QED
      BY <1>1, <3>1, <3>2 DEF HeldInv, HeldIsMapped
  <2>2. CASE ~ServerAccepts(i)
    <3>1. UNCHANGED <<mapping, dropped>>
      BY <2>2 DEF ServerRefuses, ServerIgnores, LoseRequest
    <3>2. QED
      BY <1>1, <3>1 DEF HeldInv, HeldIsMapped
  <2>3. QED
    BY <2>1, <2>2
<1>5. QED
  BY <1>2, <1>3, <1>4 DEF HeldInv

LEMMA HeldReturn ==
    ASSUME Base, Base', HeldInv, NEW c \in Callers, Return(c),
           UNCHANGED <<nonces, externalIP, requests, mapping, held, dropped>>
    PROVE  HeldInv'
<1>1. /\ call'[c].pc = "idle"
      /\ \A d \in Callers \ {c} : call'[d] = call[d]
  BY DEF Base, TypeOK, Return, Unlock, Idle, Fresh
<1>2. QED
  BY <1>1, HeldFrame DEF Active

LEMMA HeldBackoff ==
    ASSUME Base, Base', HeldInv, NEW c \in Callers,
           AttemptFails(c) \/ RetryTimer(c)
    PROVE  HeldInv'
<1>1. /\ call[c] \in Call /\ Active(c)
      /\ call[c].key \in (IF call[c].probe THEN ProbeKeys ELSE UserKeys)
  BY DEF Base, TypeOK, AttemptFails, LastAttempt, RetryTimer, Active,
         HeldInv, KeyKinds
<1>2. CASE AttemptFails(c) /\ call[c].attempt = MaxRetries - 1
  BY <1>2, HeldReturn DEF AttemptFails, LastAttempt
<1>3. CASE AttemptFails(c) /\ call[c].attempt # MaxRetries - 1
  <2>1. /\ call' = [call EXCEPT ![c].pc = "backoff", ![c].port = NoPort]
        /\ UNCHANGED <<nonces, requests, mapping, held, dropped>>
    BY <1>3 DEF AttemptFails, LastAttempt
  <2>2. /\ call'[c].pc = "backoff" /\ call'[c].key = call[c].key
        /\ call'[c].op = call[c].op /\ call'[c].probe = call[c].probe
        /\ \A d \in Callers \ {c} : call'[d] = call[d]
    BY <1>1, <2>1 DEF Base, TypeOK, Call
  <2>3. QED
    BY <1>1, <2>1, <2>2, HeldFrame
<1>4. CASE RetryTimer(c)
  <2>1. /\ call'[c].pc = "send" /\ call'[c].key = call[c].key
        /\ call'[c].op = call[c].op /\ call'[c].probe = call[c].probe
        /\ \A d \in Callers \ {c} : call'[d] = call[d]
    BY <1>1, <1>4 DEF RetryTimer, Base, TypeOK, Call
  <2>2. UNCHANGED <<nonces, requests, mapping, held, dropped>>
    BY <1>4 DEF RetryTimer
  <2>3. QED
    BY <1>1, <2>1, <2>2, HeldFrame
<1>5. QED
  BY <1>2, <1>3, <1>4

LEMMA HeldStart ==
    ASSUME Base, Base', HeldInv, NEW c \in Callers, NEW k \in Keys, NEW op \in Op,
           NEW probe \in BOOLEAN, Start(c, k, op, probe),
           k \in (IF probe THEN ProbeKeys ELSE UserKeys),
           UNCHANGED <<nonces, lockOwner, externalIP, requests, responses,
                       mapping, held, dropped>>
    PROVE  HeldInv'
<1>1. /\ call'[c].pc = "lock" /\ call'[c].key = k /\ call'[c].probe = probe
      /\ \A d \in Callers \ {c} : call'[d] = call[d]
  BY DEF Base, TypeOK, Start, Fresh
<1>2. QED
  BY <1>1, HeldFrame DEF Active

LEMMA HeldStep ==
    Disjoint /\ Base /\ NetInv /\ HeldInv /\ [Next]_vars => HeldInv'
<1> SUFFICES ASSUME Disjoint, Base, NetInv, HeldInv, [Next]_vars PROVE HeldInv'
  OBVIOUS
<1>0. Base'
  BY BaseStep
<1>1. ASSUME NEW c \in Callers, NEW k \in UserKeys,
             AddPortMapping(c, k) \/ DeletePortMapping(c, k)
      PROVE  HeldInv'
  BY <1>0, <1>1, HeldStart DEF AddPortMapping, DeletePortMapping, Keys, Op
<1>2. ASSUME NEW c \in Callers, NEW k \in ProbeKeys, GetExternalAddress(c, k)
      PROVE  HeldInv'
  BY <1>0, <1>2, HeldStart DEF GetExternalAddress, Keys, Op
<1>3. ASSUME NEW c \in Callers, CallerStep(c)
      PROVE  HeldInv'
  <2>1. CASE Acquire(c)
    BY <1>0, <2>1, HeldAcquire
  <2>2. CASE SendAttempt(c)
    BY <1>0, <2>2, HeldSend
  <2>3. CASE AttemptFails(c) \/ RetryTimer(c)
    BY <1>0, <2>3, HeldBackoff
  <2>4. CASE CtxDone(c) \/ Garbled(c) \/ Refused(c)
    BY <1>0, <2>4, HeldReturn DEF CtxDone, Garbled, Refused
  <2>5. CASE Complete(c)
    BY <1>0, <2>5, HeldComplete
  <2>6. QED
    BY <1>3, <2>1, <2>2, <2>3, <2>4, <2>5 DEF CallerStep
<1>4. ASSUME NEW i \in DOMAIN requests,
             \/ ServerAccepts(i) \/ ServerRefuses(i) \/ ServerIgnores(i)
             \/ LoseRequest(i)
      PROVE  HeldInv'
  BY <1>4, HeldServer
<1>5. ASSUME NEW k \in Keys, Expire(k)
      PROVE  HeldInv'
  BY <1>5 DEF Expire, Base, TypeOK, HeldInv, KeyKinds, HeldQuiet, HeldIsMapped,
              Active
<1>6. CASE Restart
  BY <1>6 DEF Restart, Idle, Fresh, HeldInv, KeyKinds, HeldQuiet, HeldIsMapped
<1>7. CASE UNCHANGED vars
  BY <1>7 DEF vars, HeldInv, KeyKinds, HeldQuiet, HeldIsMapped, Active
<1>8. QED
  BY <1>1, <1>2, <1>3, <1>4, <1>5, <1>6, <1>7 DEF Next

\* The inductive invariant itself.
THEOREM Invariant == ASSUME ~Reordering, Disjoint PROVE Spec => []IInv
<1>1. Init => IInv
  BY BaseInit, NetInit, HeldInit DEF IInv
<1>2. IInv /\ [Next]_vars => IInv'
  BY BaseStep, NetStep, HeldStep DEF IInv
<1>3. QED
  BY <1>1, <1>2, PTL DEF Spec

\* On a network that keeps the order of requests, with probes apart from the
\* program's own keys, what a caller was told is mapped is mapped.
THEOREM HeldAreMapped == ASSUME ~Reordering, Disjoint PROVE Spec => []HeldIsMapped
<1>1. IInv => HeldIsMapped
  BY DEF IInv, HeldInv
<1>2. QED
  BY <1>1, Invariant, PTL

=============================================================================
