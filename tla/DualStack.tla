------------------------------- MODULE DualStack ------------------------------
(***************************************************************************)
(* A gateway with an IPv4 NAT and an IPv6 PCP server: NAT of pcp/nat.go    *)
(* and natWithPCPIPv6 of pcp_ipv6.go, which do the same.  Each call runs   *)
(* an IPv4 leg itself and an IPv6 leg in a goroutine, waits for both, and  *)
(* undoes the pinhole when only IPv6 succeeded.  Calls are concurrent.     *)
(*                                                                         *)
(* A leg is an operation of a client: pcp.Client for IPv6, as PCPClient    *)
(* models it on a network that keeps order (one exchange per mapping at a  *)
(* time, a success only after the server carried the request out, a        *)
(* failure before or after it), and any of the NATs for IPv4, of which     *)
(* only the outcome is kept.  Epochs are those of PCPEpoch: a success      *)
(* after a restart of the server raises the client's flag.                 *)
(*                                                                         *)
(* A definition whose name ends in Mutant is used by no specification: it  *)
(* is a plausible bug of the definition that follows it.                   *)
(***************************************************************************)
EXTENDS Naturals, FiniteSets

CONSTANTS
    Callers,        \* goroutines that call the gateway
    Keys,           \* mappings: protocol and internal port
    MaxRestarts,    \* bound: servers whose restart is not reported yet
    NoKey, Nobody   \* absent values

Families == {"v4", "v6"}

\* The gateways these methods serve: the families they were found on, and
\* those whose client keeps an epoch.  There is none before DiscoverPCP ends.
Gateways ==
    [none     |-> [stacks |-> {}, checkers |-> {}],
     pcp      |-> [stacks |-> Families, checkers |-> Families],
     pcp4     |-> [stacks |-> {"v4"}, checkers |-> {"v4"}],
     pcp6     |-> [stacks |-> {"v6"}, checkers |-> {"v6"}],
     upnpPcp6 |-> [stacks |-> Families, checkers |-> {"v6"}]]

ASSUME ConstantAssumption ==
    /\ MaxRestarts \in Nat
    /\ NoKey \notin Keys
    /\ Nobody \notin Callers

VARIABLES
    gateway,     \* which of them DiscoverGateway or DiscoverPCP returned
    call,        \* the calls in progress and their local variables
    owner,       \* client6.mappingLocks: who holds the lock of a key
    pinhole,     \* IPv6 server: the pinhole of each key
    pinholeErr,  \* NAT.pinholeErr, natWithPCPIPv6.pinholeErr
    restarted,   \* server restarted, and its client has not heard it since
    stateLost,   \* Client.epochStateLost
    untold,      \* history: a restart seen by the client and not yet reported
    probe        \* DiscoverPCP: what each family has answered so far

epochVars == <<restarted, stateLost, untold>>

vars == <<gateway, call, owner, pinhole, pinholeErr, epochVars, probe>>

(* A leg waits for the mapping's lock, runs, may be carried out by the      *)
(* server, and ends; "none" is a leg the call does not have.                *)
LegState == {"none", "wait", "run", "applied", "ok", "err"}
Probe == {"none", "asking", "found", "failed"}
PinholeErr == {"nil", "failed", "rolledBack", "leftOpen"}

\* Does the IPv4 leg end by itself?  An exchange of pcp.Client has a deadline;
\* a SOAP call of upnp_NAT has only that of the caller's context, if any.
Timed4 == gateway # "upnpPcp6"

Stacks == Gateways[gateway].stacks
Checkers == Gateways[gateway].checkers

Call == [op: {"idle", "add", "delete", "health"}, key: Keys \cup {NoKey},
         leg: [Families -> LegState], rollback: BOOLEAN,
         alone: BOOLEAN,  \* history: has no other call overlapped with it?
         flag4: {"unread", "raised", "clear"}]

\* Every variable has its type, and only one exchange per key holds the lock.
TypeOK ==
    /\ gateway \in DOMAIN Gateways
    /\ call \in [Callers -> Call]
    /\ owner \in [Keys -> Callers \cup {Nobody}]
    /\ pinhole \in [Keys -> {"closed", "open", "dropped"}]
    /\ pinholeErr \in PinholeErr
    /\ restarted \in [Families -> BOOLEAN]
    /\ stateLost \in [Families -> BOOLEAN]
    /\ untold \in [Families -> BOOLEAN]
    /\ probe \in [Families -> Probe]
    /\ \A c \in Callers :
         call[c].leg["v6"] \in {"run", "applied"} /\ call[c].key # NoKey
           => owner[call[c].key] = c

Never == [f \in Families |-> FALSE]

Idle == [op |-> "idle", key |-> NoKey, leg |-> [f \in Families |-> "none"],
         rollback |-> FALSE, alone |-> FALSE, flag4 |-> "unread"]

Init ==
    /\ gateway \in {"none", "upnpPcp6"}
    /\ call = [c \in Callers |-> Idle]
    /\ owner = [k \in Keys |-> Nobody]
    /\ pinhole = [k \in Keys |-> "closed"]
    /\ pinholeErr = "nil"
    /\ restarted = Never /\ stateLost = Never /\ untold = Never
    /\ probe = [f \in Families |-> IF gateway = "none" THEN "asking" ELSE "none"]

-----------------------------------------------------------------------------
(* DiscoverPCP.                                                            *)

\* A family's gateway is looked up and answers an ANNOUNCE, or does not.
Probes(f) ==
    /\ probe[f] = "asking"
    /\ \E outcome \in {"found", "failed"} :
         probe' = [probe EXCEPT ![f] = outcome]
    /\ UNCHANGED <<gateway, call, owner, pinhole, pinholeErr, epochVars>>

ResultMutant ==
    CASE probe["v4"] = "failed" -> "none"
      [] probe["v6"] = "failed" -> "pcp4"
      [] OTHER -> "pcp"

\* What there is to return: a NAT with the clients of the families found.
Result ==
    CASE probe = [v4 |-> "found", v6 |-> "found"] -> "pcp"
      [] probe = [v4 |-> "found", v6 |-> "failed"] -> "pcp4"
      [] probe = [v4 |-> "failed", v6 |-> "found"] -> "pcp6"
      [] OTHER -> "none"

\* Both have ended.  After an error the caller can only try again.
DiscoverPCP ==
    /\ gateway = "none"
    /\ \A f \in Families : probe[f] \in {"found", "failed"}
    /\ gateway' = Result
    /\ probe' = IF Result = "none" THEN [f \in Families |-> "asking"] ELSE probe
    /\ UNCHANGED <<call, owner, pinhole, pinholeErr, epochVars>>

-----------------------------------------------------------------------------
(* Starting a call.                                                        *)

Starts(c, new) ==
    call' = [d \in Callers |->
               IF d = c
                 THEN [new EXCEPT !.alone =
                         \A e \in Callers : call[e] = Idle]
               ELSE IF call[d] = Idle THEN Idle
               ELSE [call[d] EXCEPT !.alone = FALSE]]

\* AddPortMapping and DeletePortMapping: the IPv6 leg first takes the lock.
MappingCall(c, op, k) ==
    /\ gateway # "none" /\ call[c] = Idle
    /\ Starts(c, [Idle EXCEPT
                     !.op = op, !.key = k,
                     !.leg = [f \in Families |->
                                IF f \notin Stacks THEN "none"
                                ELSE IF f = "v4" THEN "run" ELSE "wait"]])
    /\ UNCHANGED <<gateway, owner, pinhole, pinholeErr, epochVars, probe>>

\* CheckServerHealth: one ANNOUNCE to each server that keeps an epoch.
CheckServerHealth(c) ==
    /\ gateway # "none" /\ call[c] = Idle
    /\ Starts(c, [Idle EXCEPT
                     !.op = "health",
                     !.leg = [f \in Families |->
                                IF f \in Checkers THEN "run" ELSE "none"]])
    /\ UNCHANGED <<gateway, owner, pinhole, pinholeErr, epochVars, probe>>

-----------------------------------------------------------------------------
(* The legs.                                                               *)

\* A success brings the server's epoch.
Hears(f) ==
    /\ restarted' = [restarted EXCEPT ![f] = FALSE]
    /\ stateLost' = [stateLost EXCEPT ![f] = @ \/ restarted[f]]
    /\ untold' = [untold EXCEPT ![f] = @ \/ restarted[f]]

HeardOf(f, ok) ==
    IF ok /\ f \in Checkers
      THEN Hears(f)
      ELSE UNCHANGED epochVars

EndsLeg4(c) ==
    /\ call[c].leg["v4"] = "run"
    /\ \E ok \in BOOLEAN :
         /\ call' = [call EXCEPT ![c].leg["v4"] = IF ok THEN "ok" ELSE "err"]
         /\ HeardOf("v4", ok)
    /\ UNCHANGED <<gateway, owner, pinhole, pinholeErr, probe>>

LockFree6Mutant(k) == TRUE

LockFree6(k) == owner[k] = Nobody

\* lockMapping in the IPv6 client; it does not look at the context.
Locks6(c) ==
    /\ call[c].leg["v6"] = "wait" /\ LockFree6(call[c].key)
    /\ owner' = [owner EXCEPT ![call[c].key] = c]
    /\ call' = [call EXCEPT ![c].leg["v6"] = "run"]
    /\ UNCHANGED <<gateway, pinhole, pinholeErr, epochVars, probe>>

\* What the IPv6 leg is asking for.
Asks6(c) == IF call[c].rollback THEN "delete" ELSE call[c].op

\* The server carries the request out.
Applies6(c) ==
    /\ call[c].leg["v6"] = "run" /\ call[c].key # NoKey
    /\ pinhole' = [pinhole EXCEPT ![call[c].key] =
                     IF Asks6(c) = "add" THEN "open" ELSE "closed"]
    /\ call' = [call EXCEPT ![c].leg["v6"] = "applied"]
    /\ UNCHANGED <<gateway, owner, pinholeErr, epochVars, probe>>

\* The deferred unlock, on every return.
Unlocked6(k, leg) == [j \in Keys |-> IF j = k THEN Nobody ELSE owner[j]]

\* The answer arrives, or a refusal, the pinholeTimeout or an error ends it.
EndsLeg6(c) ==
    LET k == call[c].key
        leg == call[c].leg["v6"] IN
    /\ leg \in {"run", "applied"}
    /\ \E ok \in {FALSE} \cup {leg = "applied" \/ k = NoKey} :
         /\ call' = [call EXCEPT ![c].leg["v6"] = IF ok THEN "ok" ELSE "err"]
         /\ HeardOf("v6", ok)
    /\ owner' = Unlocked6(k, leg)
    /\ UNCHANGED <<gateway, pinhole, pinholeErr, probe>>

-----------------------------------------------------------------------------
(* Joining the legs of AddPortMapping and DeletePortMapping.               *)

JoinedMutant(c) == \A f \in Families : call[c].leg[f] \in {"ok", "err"}

\* Both legs have ended; a leg that was never started is not waited for.
Joined(c) == \A f \in Families : call[c].leg[f] \in {"none", "ok", "err"}

MustRollBackMutant(c) == FALSE

RollBackAgainMutant(c) ==
    call[c].op = "add" /\ call[c].leg["v4"] = "err" /\ call[c].leg["v6"] = "ok"

\* The IPv4 mapping failed and the pinhole was opened.
MustRollBack(c) ==
    /\ call[c].op = "add" /\ ~call[c].rollback
    /\ call[c].leg["v4"] = "err" /\ call[c].leg["v6"] = "ok"

\* rollbackPinhole: a delete detached from the caller's context.
RollsBack(c) ==
    /\ Joined(c) /\ MustRollBack(c)
    /\ call' = [call EXCEPT ![c].rollback = TRUE, ![c].leg["v6"] = "wait"]
    /\ UNCHANGED <<gateway, owner, pinhole, pinholeErr, epochVars, probe>>

OutcomeMutant(c) ==
    IF call[c].rollback THEN "rolledBack"
    ELSE IF call[c].leg["v6"] = "err" THEN "failed"
    ELSE "nil"

\* The error a call leaves for IPv6PinholeError.
Outcome(c) ==
    CASE call[c].rollback /\ call[c].leg["v6"] = "ok" -> "rolledBack"
      [] call[c].rollback /\ call[c].leg["v6"] # "ok" -> "leftOpen"
      [] ~call[c].rollback /\ call[c].leg["v6"] = "err" -> "failed"
      [] OTHER -> "nil"

\* setPinholeErr, and the return.
MappingReturns(c) ==
    /\ call[c].op \in {"add", "delete"}
    /\ Joined(c) /\ ~MustRollBack(c)
    /\ pinholeErr' = Outcome(c)
    /\ call' = [call EXCEPT ![c] = Idle]
    /\ UNCHANGED <<gateway, owner, pinhole, epochVars, probe>>

-----------------------------------------------------------------------------
(* CheckServerHealth.                                                      *)

ReadFlagMutant(c, f) == stateLost[f]

\* "err == nil && client.EpochStateLost()": the flag is read, and cleared, only
\* after a success.
ReadFlag(c, f) == call[c].leg[f] = "ok" /\ stateLost[f]

Reads(c, f) == stateLost' = [stateLost EXCEPT ![f] = @ /\ ~ReadFlag(c, f)]

\* The flag of IPv4 is read while IPv6 may still be under way.
ReadsFlag4(c) ==
    /\ call[c].op = "health" /\ call[c].flag4 = "unread"
    /\ call[c].leg["v4"] \in {"none", "ok", "err"}
    /\ call' = [call EXCEPT ![c].flag4 =
                  IF ReadFlag(c, "v4") THEN "raised" ELSE "clear"]
    /\ Reads(c, "v4")
    /\ UNCHANGED <<gateway, owner, pinhole, pinholeErr, restarted, untold, probe>>

\* Which restarts CheckServerHealth reports.  It says nothing when neither
\* server was reached, but then it has read no flag either.
Verdict(c) ==
    [f \in Families |->
       IF f = "v4" THEN call[c].leg["v4"] = "ok" /\ call[c].flag4 = "raised"
                   ELSE ReadFlag(c, "v6")]

\* Both legs have ended: the flag of IPv6 is read, and the call returns.
HealthReturns(c) ==
    /\ call[c].flag4 # "unread" /\ Joined(c)
    /\ Reads(c, "v6")
    /\ untold' = [f \in Families |-> untold[f] /\ ~Verdict(c)[f]]
    /\ call' = [call EXCEPT ![c] = Idle]
    /\ UNCHANGED <<gateway, owner, pinhole, pinholeErr, restarted, probe>>

-----------------------------------------------------------------------------
(* The servers.                                                            *)

\* A pinhole's lifetime ends.
Expire(k) ==
    /\ pinhole[k] = "open"
    /\ pinhole' = [pinhole EXCEPT ![k] = "dropped"]
    /\ UNCHANGED <<gateway, call, owner, pinholeErr, epochVars, probe>>

Unreported == {f \in Families : restarted[f] \/ stateLost[f] \/ untold[f]}

ServerRestart(f) ==
    /\ Cardinality(Unreported \cup {f}) <= MaxRestarts
    /\ restarted' = [restarted EXCEPT ![f] = TRUE]
    /\ pinhole' = [k \in Keys |-> IF f = "v6" /\ pinhole[k] = "open"
                                    THEN "dropped" ELSE pinhole[k]]
    /\ UNCHANGED <<gateway, call, owner, pinholeErr, stateLost, untold, probe>>

-----------------------------------------------------------------------------
Proceeds(c) ==
    \/ EndsLeg4(c)
    \/ Locks6(c) \/ Applies6(c) \/ EndsLeg6(c)
    \/ RollsBack(c) \/ MappingReturns(c)
    \/ ReadsFlag4(c) \/ HealthReturns(c)

Next ==
    \/ \E c \in Callers :
         \/ \E op \in {"add", "delete"}, k \in Keys : MappingCall(c, op, k)
         \/ CheckServerHealth(c)
         \/ Proceeds(c)
    \/ \E f \in Families : Probes(f)
    \/ DiscoverPCP
    \/ \E k \in Keys : Expire(k)
    \/ \E f \in Checkers : ServerRestart(f)

Spec == Init /\ [][Next]_vars

(* Goroutines that can run do, every exchange of a pcp.Client is bounded by *)
(* a timeout, whatever its server does, and sync.Mutex does not starve a     *)
(* goroutine that waits for it.  Nothing ends the IPv4 leg over UPnP when    *)
(* the device is silent and the caller's context has no deadline.            *)
FairSpec ==
    /\ Spec
    /\ \A c \in Callers :
         /\ WF_vars(Timed4 /\ EndsLeg4(c))
         /\ SF_vars(Locks6(c))
         /\ WF_vars(EndsLeg6(c) \/ RollsBack(c) \/ MappingReturns(c)
                     \/ ReadsFlag4(c) \/ HealthReturns(c))
    /\ \A f \in Families : WF_vars(Probes(f))
    /\ WF_vars(DiscoverPCP)

-----------------------------------------------------------------------------
(* Properties.                                                             *)

Ends(c) == call[c].op \in {"add", "delete"} /\ call'[c] = Idle

\* The error a call leaves is the truth about its pinhole, if no other call
\* interferes: none after an add means opened, none after a delete or a
\* rollback means closed (pcp/nat.go:125-128, "the only way to find out
\* whether one was actually opened").
ReportTruthful ==
    [][\A c \in Callers : Ends(c) /\ call[c].alone /\ "v6" \in Stacks =>
         LET now == pinhole[call[c].key] IN
         CASE pinholeErr' = "nil" /\ call[c].op = "add" -> now # "closed"
           [] pinholeErr' = "nil" /\ call[c].op = "delete" -> now # "open"
           [] pinholeErr' = "rolledBack" -> now # "open"
           [] OTHER -> TRUE]_vars

\* A call whose IPv4 mapping failed, if no other call interferes, leaves no
\* pinhole that its own exchange said was opened: it is closed again, or the
\* error says otherwise (pcp/nat.go:191-194).
FailureUndone ==
    [][\A c \in Callers :
         ( /\ Ends(c) /\ call[c].alone
           /\ call[c].op = "add" /\ call[c].leg["v4"] = "err"
           /\ pinhole[call[c].key] = "open" )
             => pinholeErr' \in {"failed", "leftOpen"}]_vars

\* No restart is swallowed: once a client has seen that its server lost state,
\* its flag stays raised, or a CheckServerHealth that took it is under way,
\* until one reports it (pcp/nat.go:239-244).
NoRestartSwallowed ==
    \A f \in Checkers : untold[f] =>
      \/ stateLost[f]
      \/ f = "v4" /\ \E c \in Callers : call[c].flag4 = "raised"

\* How many steps a call has left: to end its legs, to read the flag of IPv4,
\* and to roll back once.
StepsLeft(c) ==
    LET leg6 == call[c].leg["v6"]
        one(b) == IF b THEN 1 ELSE 0
    IN  one(call[c].leg["v4"] = "run") + one(call[c].flag4 = "unread")
          + (CASE leg6 = "wait" -> 3 [] leg6 = "run" -> 2
               [] leg6 = "applied" -> 1 [] OTHER -> 0)
          + 4 * one(call[c].op = "add" /\ ~call[c].rollback)

\* What is done in a call, by itself or by its legs, brings it nearer to its end,
\* whatever the other calls do: a rollback is made once at most, and no outcome
\* of a leg starts the other one again (pcp/nat.go:173-188, 195-199).
CallsEnd ==
    [][\A c \in Callers : call[c] # Idle =>
         \/ call'[c] = Idle
         \/ StepsLeft(c)' < StepsLeft(c)
         \/ \E b \in BOOLEAN : call'[c] = [call[c] EXCEPT !.alone = b]]_vars

\* Every call returns, with either family missing or its PCP server silent: it
\* waits for no goroutine that was never started, and for no lock for ever
\* (pcp/nat.go:165-188).  The one thing it may wait for without end is the SOAP
\* call of an IPv4 leg over UPnP, and then the IPv6 leg has ended and has given
\* its lock back (upnp.go:526-538: the mutex is held across a request that only
\* the caller's context can end).
CallReturns ==
    \A c \in Callers :
      (call[c] # Idle) ~>
        \/ call[c] = Idle
        \/ []( /\ ~Timed4 /\ call[c].leg["v4"] = "run"
               /\ call[c].leg["v6"] \in {"ok", "err"}
               /\ \A k \in Keys : owner[k] # c )

\* A server that answered serves the gateway that is returned, and keeps doing
\* so: neither the other family's failure nor the order in which the two
\* searches end loses it, and discovery does not wait for ever
\* (pcp/nat.go:291-322; "a v6-only network still yields a NAT").
FoundIsUsed == \A f \in Families : (probe[f] = "found") ~> [](f \in Stacks)
=============================================================================
