------------------------------ MODULE PCPClient ------------------------------
(***************************************************************************)
(* The PCP client of pcp/client.go: concurrent callers that create, renew  *)
(* and delete port mappings over UDP, with one lock per mapping, a table   *)
(* of the nonces the mappings were created with, and retransmission.       *)
(*                                                                         *)
(* The server is external.  A mapping is identified by the nonce it was    *)
(* created with, and a zero lifetime deletes.  Of a delete with another    *)
(* nonce the code says two things: that it is answered NOT_AUTHORIZED      *)
(* (client.go:204-206, and fakePCPServer of pcp/client_test.go), and that  *)
(* it is a no-op on a mapping that does not exist, which is a success      *)
(* (client.go:254-261).  The server here may do either.                    *)
(*                                                                         *)
(* Abstracted: a mappingKey (protocol, internal port) is a model value; a  *)
(* lifetime is its sign ("create" or "delete"); an external address is     *)
(* only known or not; the twelve result codes other than SUCCESS are one.  *)
(* A UDP socket is a port, opened per attempt and closed with it, and its  *)
(* port is not taken again while a datagram to or from it is on its way.   *)
(*                                                                         *)
(* A definition whose name ends in Mutant is used by no specification: it  *)
(* is a plausible bug of the definition that follows it.                   *)
(***************************************************************************)
EXTENDS Naturals, SequencesExt

CONSTANTS
    Callers,        \* goroutines that call the client
    UserKeys,       \* mappings the program asks for
    ProbeKeys,      \* mappings GetExternalAddress may draw
    Nonces,         \* what rand.Read can return to this process
    Ports,          \* local UDP ports ListenUDP can return
    MaxRetries,     \* maxRetries, the transmissions of one request
    MaxInFlight,    \* bound: requests the network holds at once
    Reordering,     \* may the network deliver requests out of order?
    NoKey, NoNonce, NoPort, Nobody,  \* absent values
    Foreign         \* any nonce of an earlier process

Keys == UserKeys \cup ProbeKeys

ASSUME SentinelAssumption ==
    /\ NoKey \notin Keys
    /\ NoNonce \notin Nonces /\ Foreign \notin Nonces /\ NoNonce # Foreign
    /\ NoPort \notin Ports
    /\ Nobody \notin Callers

ASSUME BoundAssumption ==
    /\ MaxRetries \in Nat \ {0}
    /\ MaxInFlight \in Nat
    /\ Reordering \in BOOLEAN

VARIABLES
    call,        \* what each caller is doing
    nonces,      \* Client.nonces, NoNonce where the key is absent
    lockOwner,   \* Client.mappingLocks: who holds the lock of a key
    externalIP,  \* is Client.externalIP valid?
    requests,    \* request datagrams on their way, oldest first
    responses,   \* response datagrams on their way to open sockets
    mapping,     \* the server: the nonce of each mapping it has
    held,        \* history: a user create returned nil, no user delete began
    dropped      \* history: the server had a mapping of this process and
                 \* itself dropped it (lifetime over, or server reboot)

vars == <<call, nonces, lockOwner, externalIP, requests, responses, mapping,
          held, dropped>>

Op == {"create", "delete"}

Call == [pc: {"idle", "lock", "send", "wait", "backoff"},
         key: Keys \cup {NoKey},
         op: Op,
         probe: BOOLEAN,
         nonce: Nonces \cup {NoNonce},
         attempt: 0 .. MaxRetries - 1,
         port: Ports \cup {NoPort}]

Request == [from: Ports \cup {NoPort},
            key: Keys,
            nonce: Nonces \cup {Foreign},
            op: Op]

Response == [to: Ports, ok: BOOLEAN]

Fresh(pc, k, op, probe) ==
    [pc |-> pc, key |-> k, op |-> op, probe |-> probe,
     nonce |-> NoNonce, attempt |-> 0, port |-> NoPort]

Idle == Fresh("idle", NoKey, "create", FALSE)

Init ==
    /\ call = [c \in Callers |-> Idle]
    /\ nonces = [k \in Keys |-> NoNonce]
    /\ lockOwner = [k \in Keys |-> Nobody]
    /\ externalIP = FALSE
    /\ requests = <<>>
    /\ responses = {}
    /\ mapping \in [Keys -> {NoNonce, Foreign}]
    /\ held = [k \in Keys |-> FALSE]
    /\ dropped = [k \in Keys |-> FALSE]

-----------------------------------------------------------------------------
(* Derived sets.                                                           *)

InFlight == {requests[i] : i \in DOMAIN requests}

LiveNonces ==
    {nonces[k] : k \in Keys} \cup {mapping[k] : k \in Keys}
      \cup {call[c].nonce : c \in Callers} \cup {r.nonce : r \in InFlight}

LivePorts == {call[c].port : c \in Callers} \cup {r.from : r \in InFlight}

\* The exchange of a caller is open: it is between lock and unlock.
Active(c) == call[c].pc \in {"send", "wait", "backoff"}

-----------------------------------------------------------------------------
(* The calls of the API, up to the wait for the lock of the mapping.       *)

\* A fresh candidate nonce is drawn here and used only if the table has none.
Start(c, k, op, probe) ==
    call' = [call EXCEPT ![c] = Fresh("lock", k, op, probe)]

AddPortMapping(c, k) ==
    /\ call[c].pc = "idle"
    /\ Start(c, k, "create", FALSE)
    /\ UNCHANGED <<nonces, lockOwner, externalIP, requests, responses,
                   mapping, held, dropped>>

DeletePortMapping(c, k) ==
    /\ call[c].pc = "idle"
    /\ Start(c, k, "delete", FALSE)
    /\ UNCHANGED <<nonces, lockOwner, externalIP, requests, responses,
                   mapping, held, dropped>>

\* With a cached address the call returns without a step of its own.
GetExternalAddress(c, k) ==
    /\ call[c].pc = "idle"
    /\ ~externalIP
    /\ Start(c, k, "create", TRUE)
    /\ UNCHANGED <<nonces, lockOwner, externalIP, requests, responses,
                   mapping, held, dropped>>

UnlockedMutant(k) == TRUE

\* The lock of a mapping is free.
Unlocked(k) == lockOwner[k] = Nobody

NonceForMutant(k) == Nonces \ LiveNonces

\* The nonce a request must carry: the one in the table, else the fresh one.
NonceFor(k) == IF nonces[k] = NoNonce THEN Nonces \ LiveNonces ELSE {nonces[k]}

StoredMutant(k, op, n) == nonces

\* A create stores its nonce before anything is sent.
Stored(k, op, n) ==
    IF op = "create" THEN [nonces EXCEPT ![k] = n] ELSE nonces

\* lockMapping, then the first section under c.mu.
Acquire(c) ==
    LET k == call[c].key
        op == call[c].op
    IN
    /\ call[c].pc = "lock"
    /\ Unlocked(k)
    /\ \E n \in NonceFor(k) :
         /\ call' = [call EXCEPT ![c].pc = "send", ![c].nonce = n]
         /\ nonces' = Stored(k, op, n)
    /\ lockOwner' = [lockOwner EXCEPT ![k] = c]
    /\ held' = IF op = "delete" /\ ~call[c].probe
                 THEN [held EXCEPT ![k] = FALSE] ELSE held
    /\ UNCHANGED <<externalIP, requests, responses, mapping, dropped>>

-----------------------------------------------------------------------------
(* One exchange: sendRequest and sendOnce.                                 *)

UnlockMutant(k) == UNCHANGED lockOwner

Unlock(k) == lockOwner' = [lockOwner EXCEPT ![k] = Nobody]

\* The caller returns: the deferred unlock runs and its socket is closed.
Return(c) ==
    /\ call' = [call EXCEPT ![c] = Idle]
    /\ Unlock(call[c].key)
    /\ responses' = {r \in responses : r.to # call[c].port}

\* A socket is opened and the request written.  A full network drops it.
SendAttempt(c) ==
    /\ call[c].pc = "send"
    /\ \E p \in Ports \ LivePorts :
         /\ call' = [call EXCEPT ![c].pc = "wait", ![c].port = p]
         /\ requests' = IF Len(requests) < MaxInFlight
                          THEN Append(requests,
                                 [from |-> p, key |-> call[c].key,
                                  nonce |-> call[c].nonce,
                                  op |-> call[c].op])
                          ELSE requests
    /\ UNCHANGED <<nonces, lockOwner, externalIP, responses, mapping, held,
                   dropped>>

LastAttemptMutant(c) == call[c].attempt = MaxRetries

LastAttempt(c) == call[c].attempt = MaxRetries - 1

\* The read deadline passes, a local error, or a datagram from elsewhere
\* first: the socket is closed, and the last attempt ends the call.
AttemptFails(c) ==
    /\ call[c].pc \in {"send", "wait"}
    /\ IF LastAttempt(c)
         THEN Return(c)
         ELSE /\ call' = [call EXCEPT ![c].pc = "backoff",
                                      ![c].port = NoPort]
              /\ responses' = {r \in responses : r.to # call[c].port}
              /\ UNCHANGED lockOwner
    /\ UNCHANGED <<nonces, externalIP, requests, mapping, held, dropped>>

RetryTimer(c) ==
    /\ call[c].pc = "backoff"
    /\ call' = [call EXCEPT ![c].pc = "send", ![c].attempt = @ + 1]
    /\ UNCHANGED <<nonces, lockOwner, externalIP, requests, responses,
                   mapping, held, dropped>>

\* The context ends: before an attempt, during a read, or between attempts.
\* Waiting for the lock does not look at it.
CtxDone(c) ==
    /\ Active(c)
    /\ Return(c)
    /\ UNCHANGED <<nonces, externalIP, requests, mapping, held, dropped>>

\* A datagram of the gateway that does not parse, or whose nonce, protocol or
\* internal port differ: the call fails at once, without another attempt.
Garbled(c) ==
    /\ call[c].pc = "wait"
    /\ Return(c)
    /\ UNCHANGED <<nonces, externalIP, requests, mapping, held, dropped>>

\* A result code other than SUCCESS: an error, and the nonce stays.
Refused(c) ==
    /\ call[c].pc = "wait"
    /\ [to |-> call[c].port, ok |-> FALSE] \in responses
    /\ Return(c)
    /\ UNCHANGED <<nonces, externalIP, requests, mapping, held, dropped>>

AnsweredMutant(c) == \E r \in responses : r.to = call[c].port

Answered(c) == [to |-> call[c].port, ok |-> TRUE] \in responses

ForgottenMutant(k, op) == [nonces EXCEPT ![k] = NoNonce]

\* A successful delete drops the nonce, and only that.
Forgotten(k, op) == IF op = "delete" THEN [nonces EXCEPT ![k] = NoNonce]
                                     ELSE nonces

\* SUCCESS: the second section under c.mu, then the return.  The create of a
\* GetExternalAddress goes on with its delete instead.
Complete(c) ==
    LET k == call[c].key
        op == call[c].op
        probe == call[c].probe
    IN
    /\ call[c].pc = "wait"
    /\ Answered(c)
    /\ \E valid \in BOOLEAN : externalIP' = (externalIP \/ valid)
    /\ nonces' = Forgotten(k, op)
    /\ held' = IF op = "create" /\ ~probe THEN [held EXCEPT ![k] = TRUE]
                                          ELSE held
    /\ IF probe /\ op = "create"
         THEN Start(c, k, "delete", TRUE)
         ELSE call' = [call EXCEPT ![c] = Idle]
    /\ Unlock(k)
    /\ responses' = {r \in responses : r.to # call[c].port}
    /\ UNCHANGED <<requests, mapping, dropped>>

-----------------------------------------------------------------------------
(* The environment: network, server, and the end of the process.           *)

\* An answer to a closed socket reaches nobody.
Answer(p, ok) ==
    responses' = IF \E c \in Callers : call[c].port = p /\ p # NoPort
                   THEN responses \cup {[to |-> p, ok |-> ok]}
                   ELSE responses

Position(i) == i \in DOMAIN requests /\ (i = 1 \/ Reordering)

\* The network hands the i-th request to the server; a duplicate may stay.
Deliver(i) ==
    \E duplicated \in BOOLEAN :
        requests' = IF duplicated THEN requests ELSE RemoveAt(requests, i)

\* The nonce of the request is that of the mapping, or there is no mapping.
\* Nonces of two earlier processes may be equal or not.
Authorized(r) == mapping[r.key] \in {NoNonce, r.nonce}

ServerAccepts(i) ==
    LET r == requests[i] IN
    /\ Position(i)
    /\ Authorized(r)
    /\ Deliver(i)
    /\ mapping' = [mapping EXCEPT ![r.key] =
                     IF r.op = "create" THEN r.nonce ELSE NoNonce]
    /\ dropped' = IF r.op = "create" THEN [dropped EXCEPT ![r.key] = FALSE]
                                     ELSE dropped
    /\ Answer(r.from, TRUE)
    /\ UNCHANGED <<call, nonces, lockOwner, externalIP, held>>

\* NOT_AUTHORIZED, or a refusal for the server's own reasons.
ServerRefuses(i) ==
    /\ Position(i)
    /\ Deliver(i)
    /\ Answer(requests[i].from, FALSE)
    /\ UNCHANGED <<call, nonces, lockOwner, externalIP, mapping, held, dropped>>

\* A delete with an unknown nonce is of a mapping that does not exist, whatever
\* mapping the port has: nothing is done, and that is a success.
ServerIgnores(i) ==
    /\ Position(i)
    /\ requests[i].op = "delete"
    /\ ~Authorized(requests[i])
    /\ Deliver(i)
    /\ Answer(requests[i].from, TRUE)
    /\ UNCHANGED <<call, nonces, lockOwner, externalIP, mapping, held, dropped>>

LoseRequest(i) ==
    /\ requests' = RemoveAt(requests, i)
    /\ UNCHANGED <<call, nonces, lockOwner, externalIP, responses, mapping,
                   held, dropped>>

\* The lifetime of a mapping ends, or the server restarts and forgets it.
Expire(k) ==
    /\ mapping[k] # NoNonce
    /\ mapping' = [mapping EXCEPT ![k] = NoNonce]
    /\ dropped' = [dropped EXCEPT ![k] = @ \/ mapping[k] \in Nonces]
    /\ UNCHANGED <<call, nonces, lockOwner, externalIP, requests, responses,
                   held>>

Disown(n) == IF n \in Nonces THEN Foreign ELSE n

\* A request on its way when the process dies: its socket is closed.
Orphan(r) == [from |-> NoPort, key |-> r.key, nonce |-> Disown(r.nonce),
              op |-> r.op]

\* The process dies and a new one starts: the nonces lived in memory only.
Restart ==
    /\ call' = [c \in Callers |-> Idle]
    /\ nonces' = [k \in Keys |-> NoNonce]
    /\ lockOwner' = [k \in Keys |-> Nobody]
    /\ externalIP' = FALSE
    /\ requests' = [i \in DOMAIN requests |-> Orphan(requests[i])]
    /\ responses' = {}
    /\ mapping' = [k \in Keys |-> Disown(mapping[k])]
    /\ held' = [k \in Keys |-> FALSE]
    /\ dropped' = [k \in Keys |-> FALSE]

-----------------------------------------------------------------------------
CallerStep(c) ==
    \/ Acquire(c)
    \/ SendAttempt(c)
    \/ AttemptFails(c)
    \/ RetryTimer(c)
    \/ CtxDone(c)
    \/ Garbled(c)
    \/ Refused(c)
    \/ Complete(c)

Next ==
    \/ \E c \in Callers :
         \/ \E k \in UserKeys : AddPortMapping(c, k) \/ DeletePortMapping(c, k)
         \/ \E k \in ProbeKeys : GetExternalAddress(c, k)
         \/ CallerStep(c)
    \/ \E i \in DOMAIN requests :
         \/ ServerAccepts(i) \/ ServerRefuses(i) \/ ServerIgnores(i)
         \/ LoseRequest(i)
    \/ \E k \in Keys : Expire(k)
    \/ Restart

Spec == Init /\ [][Next]_vars

(* A goroutine that can run runs: reads have a deadline and retries a      *)
(* timer.  A sync.Mutex hands itself to a waiter that has waited too long, *)
(* so one that is free again and again is acquired.                        *)
Fairness ==
    \A c \in Callers :
        /\ SF_vars(Acquire(c))
        /\ WF_vars(SendAttempt(c) \/ AttemptFails(c) \/ RetryTimer(c))

FairSpec == Spec /\ Fairness
-----------------------------------------------------------------------------
(* Properties.                                                             *)

\* Every variable has its type, and a socket is open exactly while its caller
\* waits for an answer (the defer conn.Close() of sendOnce).
TypeOK ==
    /\ call \in [Callers -> Call]
    /\ \A c \in Callers :
         /\ call[c].key = NoKey <=> call[c].pc = "idle"
         /\ call[c].port = NoPort <=> call[c].pc # "wait"
         /\ call[c].nonce = NoNonce <=> ~Active(c)
         /\ call[c].pc = "backoff" => call[c].attempt < MaxRetries - 1
    /\ nonces \in [Keys -> Nonces \cup {NoNonce}]
    /\ lockOwner \in [Keys -> Callers \cup {Nobody}]
    /\ externalIP \in BOOLEAN
    /\ requests \in Seq(Request) /\ Len(requests) <= MaxInFlight
    /\ responses \subseteq Response
    /\ mapping \in [Keys -> Nonces \cup {NoNonce, Foreign}]
    /\ held \in [Keys -> BOOLEAN]
    /\ dropped \in [Keys -> BOOLEAN]

\* The lock of a mapping is with the caller whose exchange for it is open, and
\* with nobody when there is none.  So two callers never have exchanges open for
\* one mapping, and no call that failed, was refused, cancelled or garbled takes
\* the lock with it and blocks every later one, which does not look at its
\* context while it waits (mappingLocks, client.go:44-68; the deferred unlock of
\* client.go:196 on every return).
Serialized ==
    \A c \in Callers, k \in Keys :
        Active(c) /\ call[c].key = k <=> lockOwner[k] = c

\* How many steps an exchange has left: three for each attempt.
StepsLeft(c) ==
    3 * (MaxRetries - call[c].attempt)
      - (CASE call[c].pc = "wait" -> 1 [] call[c].pc = "backoff" -> 2
           [] OTHER -> 0)

\* Whatever happens to an open exchange brings it nearer to its end: no answer,
\* timer or error sends it back, so it holds its lock for a bounded number of
\* steps (the loop of sendRequest, client.go:364-386).
ExchangesEnd ==
    [][\A c \in Callers :
         Active(c) /\ call'[c] # call[c]
           => ~Active(c)' \/ StepsLeft(c)' \in 0 .. StepsLeft(c) - 1]_vars

\* A mapping this process created is never stranded: as long as the server has
\* it, the client still knows the nonce that deletes it (client.go:44-47 and
\* 204-206).
NoStranded ==
    \A k \in Keys : mapping[k] \in Nonces => nonces[k] = mapping[k]

\* A mapping whose create returned success, and that no caller began to delete
\* and the server did not let go, is there and is the client's own: no late,
\* repeated or duplicated datagram and no address probe takes it away
\* (AddPortMapping, client.go:143; GetExternalAddress, client.go:274).
HeldIsMapped ==
    \A k \in Keys :
        held[k] /\ ~dropped[k] => mapping[k] # NoNonce /\ mapping[k] = nonces[k]

\* A delete that reports success has deleted: when the answer is taken the server
\* has no mapping of this process for the key, whichever of its calls created it
\* and whether the nonce is one the server knew or took for another mapping's
\* (DeletePortMapping, client.go:253-261: "Deleting a nonexistent mapping
\* succeeds", "only deletes mappings that this Client created").  A mapping of an
\* earlier process may well remain.
DeleteIsTruthful ==
    [][\A c \in Callers :
         Complete(c) /\ call[c].op = "delete"
           => mapping[call[c].key] \notin Nonces]_vars

\* Every call returns, whatever the network does: attempts are bounded and the
\* lock of a mapping is not held for ever (client.go:54-68 and 354-389).
CallReturns ==
    \A c \in Callers : call[c].pc # "idle" ~> call[c].pc = "idle"
-----------------------------------------------------------------------------
(* The promise of the NAT interface, and the refinement mapping.           *)

\* What a caller waits to be told.
PendingCall(c) ==
    IF call[c].pc = "idle"
      THEN [op |-> "none", key |-> NoKey]
      ELSE [op |-> call[c].op, key |-> call[c].key]

\* What may still be carried out: what is pending, and the datagrams of this
\* process that are still on their way.
AskedFor(k) ==
    {call[c].op : c \in {d \in Callers : call[d].pc # "idle" /\ call[d].key = k}}
      \cup {r.op : r \in {q \in InFlight : q.key = k /\ q.nonce \in Nonces}}

Promise ==
    INSTANCE MappingPromise
      WITH pending <- [c \in Callers |-> PendingCall(c)],
           asked <- [k \in Keys |-> AskedFor(k)],
           mapped <- {k \in Keys : mapping[k] \in Nonces},
           gone <- {k \in Keys : mapping[k] \notin Nonces /\ dropped[k]},
           doubted <- {}

\* The client keeps the whole promise, with no mapping ever in doubt: what it
\* reports as created was created, as deleted is gone, and no request of a
\* call that failed, timed out or was cancelled comes through later to undo it
\* (nat.go:36-39; client.go:44-47 and 204-206).
KeepsPromise ==
    /\ Promise!Spec
    /\ [][\A c \in Callers : Complete(c) => Promise!Succeeds(c)]_vars
-----------------------------------------------------------------------------
(* The inductive invariant: what makes the properties above hold when the  *)
(* network keeps the order of requests.                                    *)

\* A caller whose exchange is open owns the lock of its mapping.
LockHeld == \A c \in Callers : Active(c) => lockOwner[call[c].key] = c

\* A lock that somebody owns is that of its owner's open exchange.
LocksGivenBack ==
    \A k \in Keys :
        lockOwner[k] # Nobody =>
            Active(lockOwner[k]) /\ call[lockOwner[k]].key = k

\* A call is about a key of its kind, and only user mappings are held.
KeyKinds ==
    /\ \A c \in Callers :
         call[c].pc # "idle" =>
             call[c].key \in (IF call[c].probe THEN ProbeKeys ELSE UserKeys)
    /\ \A k \in Keys : held[k] => k \in UserKeys

\* Open sockets have owners: one each.
SocketsOwned ==
    /\ \A c, d \in Callers :
         call[c].port = call[d].port /\ call[c].port # NoPort => c = d
    /\ \A r \in responses : \E c \in Callers : call[c].port = r.to

\* The table holds the nonce of every create that is open, and of every create
\* of this process the network still holds.
CreatesKnown ==
    /\ \A c \in Callers :
         Active(c) /\ call[c].op = "create"
           => nonces[call[c].key] = call[c].nonce
    /\ \A i \in DOMAIN requests :
         requests[i].op = "create" /\ requests[i].nonce \in Nonces
           => nonces[requests[i].key] = requests[i].nonce

\* A delete that is open carries the nonce of the table, if that has one.
DeletesKnown ==
    \A c \in Callers :
        Active(c) /\ call[c].op = "delete"
          => nonces[call[c].key] \in {NoNonce, call[c].nonce}

\* A request on the mapping of c is of the same process and kind as c's own.
Alike(r, c) ==
    r.key = call[c].key => r.op = call[c].op /\ r.nonce \in Nonces

\* Behind the request of an open socket there is none for the same mapping
\* that would undo it, and that request is what its owner asked for.
NothingBehind ==
    \A c \in Callers, i \in DOMAIN requests :
        call[c].pc = "wait" /\ requests[i].from = call[c].port
          => /\ requests[i].key = call[c].key
             /\ requests[i].nonce = call[c].nonce
             /\ \A j \in DOMAIN requests : i <= j => Alike(requests[j], c)

\* Once the server has said that it is done, nothing on its way can undo it at all.
AnswerStands ==
    \A c \in Callers :
        call[c].pc = "wait" /\ [to |-> call[c].port, ok |-> TRUE] \in responses
          => /\ \A i \in DOMAIN requests : Alike(requests[i], c)
             /\ IF call[c].op = "delete"
                  THEN mapping[call[c].key] \notin Nonces
                  ELSE \/ dropped[call[c].key]
                       \/ mapping[call[c].key] = call[c].nonce

\* While a mapping is held, all that is on its way for it are creates.
HeldQuiet ==
    \A k \in Keys : held[k] =>
        /\ \A c \in Callers :
             Active(c) /\ call[c].key = k => call[c].op = "create"
        /\ \A i \in DOMAIN requests :
             requests[i].key = k => /\ requests[i].op = "create"
                                    /\ requests[i].nonce \in Nonces
        /\ nonces[k] # NoNonce

Base == TypeOK /\ LockHeld

NetInv ==
    /\ SocketsOwned
    /\ CreatesKnown
    /\ DeletesKnown
    /\ NothingBehind
    /\ AnswerStands
    /\ NoStranded

HeldInv ==
    /\ KeyKinds
    /\ HeldQuiet
    /\ HeldIsMapped

IInv == Base /\ NetInv /\ HeldInv
=============================================================================
