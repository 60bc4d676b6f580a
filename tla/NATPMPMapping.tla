----------------------------- MODULE NATPMPMapping ----------------------------
(***************************************************************************)
(* Port mappings on a NAT-PMP gateway: AddPortMapping and                  *)
(* DeletePortMapping of natpmpNAT (natpmp.go), called by any number of     *)
(* goroutines.  The object remembers an external port per internal port,   *)
(* whatever the protocol, in a map without a lock; a delete only forgets.  *)
(*                                                                         *)
(* The gateway is external, and what RFC 6886 section 3.3 asks for: it     *)
(* renews the mapping that it has for a protocol and internal port where   *)
(* it is, gives a new one the suggested external port or another one, and  *)
(* says which.  The library repeats a request until it gives up.           *)
(*                                                                         *)
(* Two goroutines in the map at once, one of them writing, is a data race. *)
(* It has one of two outcomes: the accesses happen in some order, or the   *)
(* Go runtime notices and ends the process.                                *)
(*                                                                         *)
(* Abstracted: ports are model values, random ones any of them; lifetimes  *)
(* are long, and end at any time.                                          *)
(*                                                                         *)
(* A definition whose name ends in Mutant is used by no specification: it  *)
(* is a plausible bug of the definition that follows it.                   *)
(***************************************************************************)
EXTENDS Naturals

CONSTANTS
    Callers,        \* goroutines that call the object
    Protocols,      \* "tcp" and "udp"
    InternalPorts,  \* local ports the program asks to map
    ExtPorts,       \* what randomPort and the gateway can choose
    RandomTries,    \* random ports a create tries: three
    NoKey, NoPort   \* absent values

ASSUME ConstantAssumption ==
    /\ RandomTries \in Nat \ {0}
    /\ ExtPorts \cap {NoPort, "none", "refused"} = {}

Keys == [protocol: Protocols, port: InternalPorts]

ASSUME KeyAssumption == NoKey \notin Keys

VARIABLES
    call,       \* what each caller is doing
    ports,      \* natpmpNAT.ports, NoPort where the internal port is absent
    table,      \* the gateway: the external port of each mapping
    ours,       \* history: mappings the gateway made or renewed for us
    lapsed,     \* history: those of them it dropped
    forgotten,  \* history: keys that a delete was reported for
    disturbed   \* history: internal ports whose cached port may be wrong

vars == <<call, ports, table, ours, lapsed, forgotten, disturbed>>

Call == [pc: {"idle", "look", "send", "wait", "forget"},
         key: Keys \cup {NoKey},
         attempt: 0 .. RandomTries,     \* 0 is the cached port
         port: ExtPorts \cup {NoPort},  \* the port suggested, and returned
         reply: {"none", "refused"} \cup ExtPorts]

Asks(pc, k) == [pc |-> pc, key |-> k, attempt |-> 0, port |-> NoPort,
                reply |-> "none"]

Idle == Asks("idle", NoKey)

\* External ports the gateway has not given to another mapping.
Free(k) ==
    ExtPorts \ {table[j] : j \in {i \in Keys \ {k} : i.protocol = k.protocol}}

\* Mappings of an earlier process.
Inherited == {k.port : k \in {j \in Keys : table[j] # NoPort}}

Init ==
    /\ call = [c \in Callers |-> Idle]
    /\ ports = [p \in InternalPorts |-> NoPort]
    /\ table \in [Keys -> ExtPorts \cup {NoPort}]
    /\ \A k \in Keys : table[k] \in Free(k) \cup {NoPort}
    /\ ours = {} /\ lapsed = {} /\ forgotten = {}
    /\ disturbed = Inherited

-----------------------------------------------------------------------------
\* Another caller is busy with the same internal port.
Overlaps(c, k) ==
    \E d \in Callers \ {c} : call[d] # Idle /\ call[d].key.port = k.port

DisturbedIf(condition, k) ==
    disturbed' = IF condition THEN disturbed \cup {k.port} ELSE disturbed

AddPortMapping(c, k) ==
    /\ call[c] = Idle
    /\ call' = [call EXCEPT ![c] = Asks("look", k)]
    /\ DisturbedIf(Overlaps(c, k), k)
    /\ UNCHANGED <<ports, table, ours, lapsed, forgotten>>

DeletePortMapping(c, k) ==
    /\ call[c] = Idle
    /\ call' = [call EXCEPT ![c] = Asks("forget", k)]
    /\ DisturbedIf(TRUE, k)
    /\ UNCHANGED <<ports, table, ours, lapsed, forgotten>>

\* delete(n.ports, internalPort), and success.
Forgets(c) ==
    LET k == call[c].key IN
    /\ call[c].pc = "forget"
    /\ ports' = [ports EXCEPT ![k.port] = NoPort]
    /\ forgotten' = forgotten \cup {k}
    /\ call' = [call EXCEPT ![c] = Idle]
    /\ UNCHANGED <<table, ours, lapsed, disturbed>>

CachedMutant(p) == NoPort

\* n.ports[internalPort], read before the request and not again.
Cached(p) == ports[p]

Looks(c) ==
    LET cached == Cached(call[c].key.port) IN
    /\ call[c].pc = "look"
    /\ call' = [call EXCEPT ![c].pc = "send", ![c].port = cached,
                            ![c].attempt = IF cached = NoPort THEN 1 ELSE 0]
    /\ UNCHANGED <<ports, table, ours, lapsed, forgotten, disturbed>>

Suggestions(c) == IF call[c].attempt = 0 THEN {call[c].port} ELSE ExtPorts

Sends(c) ==
    /\ call[c].pc = "send"
    /\ \E e \in Suggestions(c) :
         call' = [call EXCEPT ![c].pc = "wait", ![c].port = e]
    /\ UNCHANGED <<ports, table, ours, lapsed, forgotten, disturbed>>

GrantedMutant(c) == call[c].pc = "wait" /\ call[c].reply # "refused"

\* The gateway said yes.
Granted(c) == call[c].pc = "wait" /\ call[c].reply \in ExtPorts

\* The suggested port is stored and returned, not the one in the reply.
Succeeds(c) ==
    LET k == call[c].key IN
    /\ Granted(c)
    /\ ports' = [ports EXCEPT ![k.port] = call[c].port]
    /\ call' = [call EXCEPT ![c] = Idle]
    /\ UNCHANGED <<table, ours, lapsed, forgotten, disturbed>>

LastAttemptMutant(c) == call[c].attempt > RandomTries

LastAttempt(c) == call[c].attempt = RandomTries

\* Refused, or the library gave up waiting: the next suggestion, if any.  After
\* a renewal that failed, the mapping may be at the cached port or not.
AttemptFails(c) ==
    /\ call[c].pc = "wait"
    /\ call' = IF LastAttempt(c) THEN [call EXCEPT ![c] = Idle]
               ELSE [call EXCEPT ![c].pc = "send", ![c].attempt = @ + 1,
                                 ![c].port = NoPort, ![c].reply = "none"]
    /\ DisturbedIf(Granted(c) \/ call[c].attempt = 0, call[c].key)
    /\ UNCHANGED <<ports, table, ours, lapsed, forgotten>>

-----------------------------------------------------------------------------
(* The gateway, and the data race.                                         *)

GatewayGrants(c) ==
    LET k == call[c].key IN
    /\ call[c].pc = "wait" /\ call[c].reply = "none"
    /\ \E e \in IF table[k] # NoPort THEN {table[k]} ELSE Free(k) :
         /\ table' = [table EXCEPT ![k] = e]
         /\ call' = [call EXCEPT ![c].reply = e]
         /\ DisturbedIf(table[k] = NoPort /\ e # call[c].port, k)
    /\ ours' = ours \cup {k} /\ lapsed' = lapsed \ {k}
    /\ UNCHANGED <<ports, forgotten>>

GatewayRefuses(c) ==
    /\ call[c].pc = "wait" /\ call[c].reply = "none"
    /\ call' = [call EXCEPT ![c].reply = "refused"]
    /\ UNCHANGED <<ports, table, ours, lapsed, forgotten, disturbed>>

\* A lifetime ends, or the gateway restarts.
Expire(k) ==
    /\ table[k] # NoPort
    /\ table' = [table EXCEPT ![k] = NoPort]
    /\ lapsed' = lapsed \cup ({k} \cap ours)
    /\ UNCHANGED <<call, ports, ours, forgotten, disturbed>>

Writes(c) == call[c].pc = "forget" \/ Granted(c)

\* Of two callers that are in the map at once at least one writes.
Races == \E c, d \in Callers :
    c # d /\ Writes(c) /\ (Writes(d) \/ call[d].pc = "look")

\* The process ends there, and another starts.
Crash ==
    /\ Races
    /\ call' = [c \in Callers |-> Idle]
    /\ ports' = [p \in InternalPorts |-> NoPort]
    /\ ours' = {} /\ lapsed' = {} /\ forgotten' = {}
    /\ disturbed' = Inherited
    /\ UNCHANGED table

-----------------------------------------------------------------------------
Next ==
    \/ \E c \in Callers :
         \/ \E k \in Keys : AddPortMapping(c, k) \/ DeletePortMapping(c, k)
         \/ Forgets(c) \/ Looks(c) \/ Sends(c)
         \/ Succeeds(c) \/ AttemptFails(c)
         \/ GatewayGrants(c) \/ GatewayRefuses(c)
    \/ \E k \in Keys : Expire(k)
    \/ Crash

Spec == Init /\ [][Next]_vars
-----------------------------------------------------------------------------
(* Properties.                                                             *)

\* Every variable has its type, and the gateway never gives one external port
\* to two mappings of a protocol.
TypeOK ==
    /\ call \in [Callers -> Call]
    /\ ports \in [InternalPorts -> ExtPorts \cup {NoPort}]
    /\ table \in [Keys -> ExtPorts \cup {NoPort}]
    /\ \A k \in Keys : table[k] \in Free(k) \cup {NoPort}
    /\ ours \subseteq Keys /\ lapsed \subseteq ours /\ forgotten \subseteq Keys
    /\ disturbed \subseteq InternalPorts

\* The port a create reports is where its mapping is, if the lifetime has not
\* ended, as long as nothing came between the cache and the gateway: no delete,
\* no mapping of an earlier process, no overlapping call, no lost answer, no
\* substituted port, no failed renewal.  That TCP and UDP share an entry, and
\* that the gateway drops mappings, do no harm by themselves (natpmp.go:105-119).
PortIsTrueUndisturbed ==
    [][\A c \in Callers :
         Succeeds(c) /\ call[c].key.port \notin disturbed =>
           table[call[c].key] \in {call[c].port, NoPort}]_vars

\* "AddPortMapping maps a port on the local host to an external port" and
\* returns "mappedExternalPort" (nat.go:33-34): the port reported is the one the
\* gateway has mapped, unless the mapping has already ended.
PortIsTrue ==
    [][\A c \in Callers :
         Succeeds(c) => table[call[c].key] \in {call[c].port, NoPort}]_vars
-----------------------------------------------------------------------------
(* The promise of the NAT interface, and the refinement mapping.           *)

PendingCall(c) ==
    CASE call[c].pc = "idle" -> [op |-> "none", key |-> NoKey]
      [] call[c].pc = "forget" -> [op |-> "delete", key |-> call[c].key]
      [] OTHER -> [op |-> "create", key |-> call[c].key]

AskedFor(k) ==
    {PendingCall(c).op : c \in {d \in Callers : call[d].key = k}}

Promise ==
    INSTANCE MappingPromise
      WITH pending <- [c \in Callers |-> PendingCall(c)],
           asked <- [k \in Keys |-> AskedFor(k)],
           mapped <- {k \in ours : table[k] # NoPort},
           gone <- lapsed,
           doubted <- forgotten

\* The object keeps the promise for every mapping it was never asked to delete:
\* a create that succeeded has mapped, on behalf of this process, whatever the
\* interleaving with other callers and a crash in the unguarded map leave of
\* the cache (nat.go:36-39; natpmp.go:98-128).
KeepsPromise ==
    /\ Promise!Spec
    /\ [][\A c \in Callers :
            Succeeds(c) \/ Forgets(c) => Promise!Succeeds(c)]_vars
=============================================================================
