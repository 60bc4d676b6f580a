------------------------------ MODULE UPnPMapping -----------------------------
(***************************************************************************)
(* Port mappings on a UPnP device: AddPortMapping and DeletePortMapping of *)
(* upnp_NAT (upnp.go), called by any number of goroutines.  The object     *)
(* remembers the external port of each mapping, under a mutex that it      *)
(* holds across the calls to the device.                                   *)
(*                                                                         *)
(* The device is external.  It answers one SOAP request at a time, in the  *)
(* order they reach it, and may refuse any; a create replaces what it has  *)
(* at an external port, a delete of nothing is refused, TCP and UDP are    *)
(* apart.  Other hosts use its ports too.  A request whose sender has      *)
(* given up may be answered to nobody, or still wait to be carried out.    *)
(*                                                                         *)
(* Abstracted: ports are model values, random ones any of them; a lease    *)
(* ends at any time; the reasons of a refusal are one.                     *)
(*                                                                         *)
(* A definition whose name ends in Mutant is used by no specification: it  *)
(* is a plausible bug of the definition that follows it.                   *)
(***************************************************************************)
EXTENDS Naturals, Sequences

CONSTANTS
    Callers,        \* goroutines that call the object
    Protocols,      \* "TCP" and "UDP"
    InternalPorts,  \* local ports the program asks to map
    ExtPorts,       \* what randomPort can return
    RandomTries,    \* random ports a create tries
    MaxQueue,       \* bound: requests waiting at the device
    NoKey, NoPort, Nobody,  \* absent values
    Other           \* mapped for another host, or for an earlier process

ASSUME ConstantAssumption ==
    /\ RandomTries \in Nat \ {0} /\ MaxQueue \in Nat
    /\ NoPort \notin ExtPorts \cup InternalPorts
    /\ Other \notin InternalPorts /\ Other # NoPort
    /\ Nobody \notin Callers

\* upnpMappingKey.
Keys == [protocol: Protocols, port: InternalPorts]

VARIABLES
    call,     \* what each caller is doing
    ports,    \* upnp_NAT.ports, NoPort where the key is absent
    mu,       \* upnp_NAT.mu: who holds it
    queue,    \* requests at the device, the next to be handled first
    device,   \* the device: the internal port each external port leads to
    lapsed,   \* history: keys whose mapping the device itself dropped
    doubt     \* history: keys whose mapping the object may have lost track of

mappingVars == <<call, ports, mu, queue, device, lapsed, doubt>>

Slots == Protocols \X ExtPorts

Slot(k, e) == <<k.protocol, e>>

Call == [pc: {"idle", "lock", "send", "wait"},
         op: {"create", "delete"},
         key: Keys \cup {NoKey},
         attempt: 0 .. RandomTries,       \* 0 is the cached port
         renews: BOOLEAN,                 \* history: did it start with that?
         port: ExtPorts \cup {NoPort},    \* the external port asked for
         reply: {"none", "ok", "refused"}]

Request == [from: Callers \cup {Nobody}, op: {"create", "delete"},
            key: Keys, port: ExtPorts]

Asks(op, k) == [pc |-> "lock", op |-> op, key |-> k,
                attempt |-> 0, renews |-> FALSE,
                port |-> NoPort, reply |-> "none"]

Idle == [Asks("create", NoKey) EXCEPT !.pc = "idle"]

\* newUPNPNAT.
MappingInit ==
    /\ call = [c \in Callers |-> Idle]
    /\ ports = [k \in Keys |-> NoPort]
    /\ mu = Nobody
    /\ queue = <<>>
    /\ device \in [Slots -> {NoPort, Other}]
    /\ lapsed = {} /\ doubt = {}

-----------------------------------------------------------------------------
(* The calls, up to the mutex.                                             *)

AddPortMapping(c, k) ==
    /\ call[c] = Idle
    /\ call' = [call EXCEPT ![c] = Asks("create", k)]
    /\ UNCHANGED <<ports, mu, queue, device, lapsed, doubt>>

DeletePortMapping(c, k) ==
    /\ call[c] = Idle
    /\ call' = [call EXCEPT ![c] = Asks("delete", k)]
    /\ UNCHANGED <<ports, mu, queue, device, lapsed, doubt>>

MuFreeMutant == TRUE

MuFree == mu = Nobody

\* Nothing to delete: success without asking the device.
DeletesNothing(c) ==
    /\ call[c].pc = "lock" /\ MuFree
    /\ call[c].op = "delete" /\ ports[call[c].key] = NoPort
    /\ call' = [call EXCEPT ![c] = Idle]
    /\ UNCHANGED <<ports, mu, queue, device, lapsed, doubt>>

\* A create without a cached port starts with a random one.
Locks(c) ==
    LET known == ports[call[c].key] # NoPort IN
    /\ call[c].pc = "lock" /\ MuFree
    /\ known \/ call[c].op = "create"
    /\ mu' = c
    /\ call' = [call EXCEPT ![c].pc = "send", ![c].renews = known,
                            ![c].attempt = IF known THEN 0 ELSE 1]
    /\ UNCHANGED <<ports, queue, device, lapsed, doubt>>

-----------------------------------------------------------------------------
(* One request to the device.                                              *)

UnlockMutant == UNCHANGED mu

Unlock == mu' = Nobody

\* The external ports this attempt may ask for.
PortsToTry(c) ==
    IF call[c].attempt = 0 THEN {ports[call[c].key]} ELSE ExtPorts

\* Asking for an external port that is cached for another key as well: the
\* device will let the one mapping replace the other.
Clash(c, e) ==
    LET k == call[c].key
        same == {j \in Keys \ {k} :
                   j.protocol = k.protocol /\ ports[j] = e}
    IN IF call[c].op = "delete" \/ same = {} THEN {} ELSE {k} \cup same

Sends(c) ==
    /\ call[c].pc = "send" /\ Len(queue) < MaxQueue
    /\ \E e \in PortsToTry(c) :
         /\ call' = [call EXCEPT ![c].pc = "wait", ![c].port = e]
         /\ queue' = Append(queue, [from |-> c, op |-> call[c].op,
                                    key |-> call[c].key, port |-> e])
         /\ doubt' = doubt \cup Clash(c, e)
    /\ UNCHANGED <<ports, mu, device, lapsed>>

RememberedMutant(k, e) ==
    IF ports[k] = NoPort THEN [ports EXCEPT ![k] = e] ELSE ports

\* The port of a create that succeeded: the cached one, or the random one in
\* its place.
Remembered(k, e) == [ports EXCEPT ![k] = e]

\* A create whose cached port was refused, or not answered for, succeeds with
\* another one, while the device still has the mapping at the cached one.
Replaces(c) ==
    LET k == call[c].key IN
    /\ call[c].op = "create" /\ call[c].renews
    /\ ports[k] # call[c].port /\ device[Slot(k, ports[k])] = k.port

\* Success, and the return: a create remembers its port, a delete forgets it.
Accepted(c) ==
    LET k == call[c].key
        e == call[c].port
        create == call[c].op = "create" IN
    /\ call[c].pc = "wait" /\ call[c].reply = "ok"
    /\ ports' = IF create THEN Remembered(k, e)
                          ELSE [ports EXCEPT ![k] = NoPort]
    /\ doubt' = IF Replaces(c) THEN doubt \cup {k} ELSE doubt
    /\ call' = [call EXCEPT ![c] = Idle]
    /\ Unlock
    /\ UNCHANGED <<queue, device, lapsed>>

ForgottenMutant(k, op) == IF op = "delete" THEN [ports EXCEPT ![k] = NoPort]
                                           ELSE ports

\* The cache after a failure: a failed delete keeps its entry.
Forgotten(k, op) == ports

Unanswered(c) == call[c].pc = "wait" /\ call[c].reply # "refused"

LastAttemptMutant(c) == call[c].op = "delete"

LastAttempt(c) == call[c].op = "delete" \/ call[c].attempt = RandomTries

\* Refused, not sent at all, or not answered (the context, the connection): on
\* to the next random port, and after the last the call fails.
AttemptFails(c) ==
    LET k == call[c].key IN
    /\ call[c].pc \in {"send", "wait"}
    /\ ports' = Forgotten(k, call[c].op)
    /\ doubt' = IF Unanswered(c) /\ call[c].port # ports[k]
                  THEN doubt \cup {k} ELSE doubt
    /\ IF LastAttempt(c)
         THEN call' = [call EXCEPT ![c] = Idle] /\ Unlock
         ELSE /\ call' = [call EXCEPT ![c].pc = "send",
                                      ![c].attempt = @ + 1,
                                      ![c].port = NoPort,
                                      ![c].reply = "none"]
              /\ UNCHANGED mu
    /\ queue' = [i \in DOMAIN queue |->
                   IF queue[i].from = c THEN [queue[i] EXCEPT !.from = Nobody]
                                        ELSE queue[i]]
    /\ UNCHANGED <<device, lapsed>>

-----------------------------------------------------------------------------
(* The device, the other hosts, and the end of the process.                *)

\* The device answers the request it has handled; nobody may listen any more.
Answers(r, reply) ==
    /\ queue' = Tail(queue)
    /\ call' = IF r.from \in Callers
                 THEN [call EXCEPT ![r.from].reply = reply] ELSE call

DeviceAccepts ==
    /\ queue # <<>>
    /\ LET r == Head(queue)
           slot == Slot(r.key, r.port)
       IN /\ r.op = "delete" => device[slot] # NoPort
          /\ device' = [device EXCEPT ![slot] =
                          IF r.op = "create" THEN r.key.port ELSE NoPort]
          /\ lapsed' = lapsed \ {r.key}
          /\ Answers(r, "ok")
    /\ UNCHANGED <<ports, mu, doubt>>

DeviceRefuses ==
    /\ queue # <<>>
    /\ Answers(Head(queue), "refused")
    /\ UNCHANGED <<ports, mu, device, lapsed, doubt>>

\* A lease ends, or the device restarts.
Expire(s) ==
    /\ device[s] \in InternalPorts
    /\ device' = [device EXCEPT ![s] = NoPort]
    /\ lapsed' = lapsed \cup {[protocol |-> s[1], port |-> device[s]]}
    /\ UNCHANGED <<call, ports, mu, queue, doubt>>

\* Other hosts' mappings come and go.
OthersUse(s) ==
    /\ device[s] \in {NoPort, Other}
    /\ device' = [device EXCEPT ![s] = IF @ = NoPort THEN Other ELSE NoPort]
    /\ UNCHANGED <<call, ports, mu, queue, lapsed, doubt>>

\* A new object takes over, in a new process or because the program discovers
\* the gateway again: the cache lived in the old one.
Restart ==
    /\ call' = [c \in Callers |-> Idle]
    /\ ports' = [k \in Keys |-> NoPort]
    /\ mu' = Nobody
    /\ queue' = <<>>
    /\ device' = [s \in Slots |->
                    IF device[s] \in InternalPorts THEN Other ELSE device[s]]
    /\ lapsed' = {} /\ doubt' = {}

-----------------------------------------------------------------------------
CallerStep(c) ==
    \/ DeletesNothing(c) \/ Locks(c)
    \/ Sends(c) \/ Accepted(c) \/ AttemptFails(c)

MappingNext ==
    \/ \E c \in Callers :
         \/ \E k \in Keys : AddPortMapping(c, k) \/ DeletePortMapping(c, k)
         \/ CallerStep(c)
    \/ DeviceAccepts \/ DeviceRefuses
    \/ \E s \in Slots : Expire(s) \/ OthersUse(s)

-----------------------------------------------------------------------------
(* Properties.                                                             *)

\* Every variable has its type, and the mutex is held exactly while its owner
\* talks to the device: one call at a time (upnp.go:467-471).
MappingTypeOK ==
    /\ call \in [Callers -> Call]
    /\ ports \in [Keys -> ExtPorts \cup {NoPort}]
    /\ mu \in Callers \cup {Nobody}
    /\ \A c \in Callers : call[c].pc \in {"send", "wait"} <=> mu = c
    /\ queue \in Seq(Request) /\ Len(queue) <= MaxQueue
    /\ device \in [Slots -> InternalPorts \cup {NoPort, Other}]
    /\ lapsed \subseteq Keys /\ doubt \subseteq Keys

\* No mapping is orphaned: what the device has for a key, or is yet to be told
\* about it by a call that gave up, is at the external port the cache names,
\* where a later delete finds it, or is being asked for by the call that holds
\* the mutex.  Neither two callers of one key nor a failed delete change that
\* (upnp.go:467-471 and 567-568); an answer that never came does.
Addressable ==
    \A k \in Keys \ doubt, e \in ExtPorts :
        \/ device[Slot(k, e)] = k.port
        \/ \E i \in DOMAIN queue :
             queue[i].key = k /\ queue[i].port = e /\ queue[i].op = "create"
        => \/ ports[k] = e
           \/ \E c \in Callers :
                call[c].pc = "wait" /\ call[c].key = k /\ call[c].port = e

\* The port that a create reports, and the cache keeps, is the one at which the
\* device has the mapping, unless its lease has already ended: also when the
\* cached port was refused and another one taken (upnp.go:529-542).
PortIsTrue ==
    [][\A c \in Callers :
         Accepted(c) /\ call[c].op = "create" =>
           LET k == call[c].key IN
           \/ k \in lapsed
           \/ /\ ports'[k] = call[c].port
              /\ device[Slot(k, call[c].port)] = k.port]_mappingVars
-----------------------------------------------------------------------------
(* The promise of the NAT interface, and the refinement mapping.           *)

PendingCall(c) ==
    IF call[c].pc = "idle"
      THEN [op |-> "none", key |-> NoKey]
      ELSE [op |-> call[c].op, key |-> call[c].key]

\* What may still be carried out: by the calls, and by requests at the device.
AskedFor(k) ==
    {call[c].op : c \in {d \in Callers : call[d].pc # "idle" /\ call[d].key = k}}
      \cup {queue[i].op : i \in {j \in DOMAIN queue : queue[j].key = k}}

Mapped == {k \in Keys : \E e \in ExtPorts : device[Slot(k, e)] = k.port}

Promise ==
    INSTANCE MappingPromise
      WITH pending <- [c \in Callers |-> PendingCall(c)],
           asked <- [k \in Keys |-> AskedFor(k)],
           mapped <- Mapped,
           gone <- lapsed \ Mapped,
           doubted <- doubt

\* The object keeps the promise for every mapping it has not lost track of: a
\* create that succeeded has mapped, a delete has removed, and no request of an
\* earlier call, failed or cancelled, comes through afterwards (nat.go:36-39).
KeepsPromise ==
    /\ Promise!Spec
    /\ [][\A c \in Callers :
            Accepted(c) \/ DeletesNothing(c) => Promise!Succeeds(c)]_mappingVars
=============================================================================
