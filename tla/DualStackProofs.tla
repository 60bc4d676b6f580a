---------------------------- MODULE DualStackProofs ---------------------------
(* Theorems about DualStack, for all values of the constants.               *)
EXTENDS DualStack, TLAPS

-----------------------------------------------------------------------------
(* The inductive invariant.                                                *)

\* The local variables of a call, by what it is.
CallShape ==
    \A c \in Callers :
        /\ call[c].op = "idle" <=> call[c] = Idle
        /\ call[c].op \in {"add", "delete"} =>
             /\ call[c].key \in Keys /\ call[c].flag4 = "unread"
             /\ call[c].leg["v6"] = "none" <=> "v6" \notin Stacks
        /\ call[c].op = "health" =>
             call[c].key = NoKey /\ call[c].leg["v6"] # "wait"
        /\ call[c].flag4 = "raised" => call[c].leg["v4"] = "ok"
        /\ call[c].rollback => call[c].op = "add"

\* There are no calls before discovery has ended, and no pinholes without a
\* server for them.
NeedsGateway ==
    /\ gateway = "none" => \A c \in Callers : call[c] = Idle
    /\ "v6" \notin Stacks => \A k \in Keys : pinhole[k] = "closed"

\* A call that nothing overlaps is the only one.
AloneIsOnly ==
    \A c \in Callers : call[c].alone =>
        \A d \in Callers \ {c} : call[d] = Idle

\* What a call that nothing overlaps has done to its pinhole is still so.
PinholeKnown ==
    \A c \in Callers :
        ( /\ call[c].alone /\ call[c].op \in {"add", "delete"}
          /\ call[c].leg["v6"] \in {"applied", "ok"} ) =>
            IF Asks6(c) = "add" THEN pinhole[call[c].key] # "closed"
                                ELSE pinhole[call[c].key] # "open"

\* A restart that was seen is kept until it is reported.
RestartKept ==
    \A f \in Families : untold[f] =>
      \/ stateLost[f]
      \/ f = "v4" /\ \E c \in Callers : call[c].flag4 = "raised"

DInv ==
    /\ TypeOK
    /\ CallShape
    /\ NeedsGateway
    /\ AloneIsOnly
    /\ PinholeKnown
    /\ RestartKept

-----------------------------------------------------------------------------
(* Steps of a call.                                                        *)

LEMMA IdleLemma ==
    /\ Idle \in Call
    /\ Idle.op = "idle" /\ Idle.key = NoKey /\ ~Idle.rollback /\ ~Idle.alone
    /\ Idle.flag4 = "unread" /\ \A f \in Families : Idle.leg[f] = "none"
BY DEF Idle, Call, LegState, Families

LEMMA CallLemma ==
    ASSUME TypeOK, NEW c \in Callers
    PROVE  /\ call[c] \in Call
           /\ call[c].op \in {"idle", "add", "delete", "health"}
           /\ call[c].key \in Keys \cup {NoKey}
           /\ call[c].leg \in [Families -> LegState]
           /\ call[c].rollback \in BOOLEAN /\ call[c].alone \in BOOLEAN
           /\ call[c].flag4 \in {"unread", "raised", "clear"}
BY DEF TypeOK, Call

SetsLeg(c, f, v) == call' = [call EXCEPT ![c].leg[f] = v]

\* One leg of one call changes its state.
LEMMA LegLemma ==
    ASSUME TypeOK, NEW c \in Callers, NEW f \in Families, NEW v \in LegState,
           SetsLeg(c, f, v)
    PROVE  /\ call' \in [Callers -> Call]
           /\ \A d \in Callers \ {c} : call'[d] = call[d]
           /\ call'[c].op = call[c].op /\ call'[c].key = call[c].key
           /\ call'[c].rollback = call[c].rollback
           /\ call'[c].alone = call[c].alone
           /\ call'[c].flag4 = call[c].flag4
           /\ call'[c].leg[f] = v
           /\ f # "v4" => call'[c].leg["v4"] = call[c].leg["v4"]
           /\ f # "v6" => call'[c].leg["v6"] = call[c].leg["v6"]
<1>1. call[c] \in Call /\ call[c].leg \in [Families -> LegState]
  BY CallLemma
<1> DEFINE leg == [call[c].leg EXCEPT ![f] = v]
<1>2. /\ leg \in [Families -> LegState] /\ leg[f] = v
      /\ f # "v4" => leg["v4"] = call[c].leg["v4"]
      /\ f # "v6" => leg["v6"] = call[c].leg["v6"]
  BY <1>1 DEF Families
<1> DEFINE new == [call[c] EXCEPT !.leg = leg]
<1>3. call' = [call EXCEPT ![c] = new]
  BY <1>1 DEF TypeOK, Call, SetsLeg
<1> HIDE DEF leg
<1>4. /\ new \in Call /\ new.op = call[c].op /\ new.key = call[c].key
      /\ new.rollback = call[c].rollback /\ new.alone = call[c].alone
      /\ new.flag4 = call[c].flag4 /\ new.leg = leg
  BY <1>1, <1>2 DEF Call
<1> HIDE DEF new
<1>5. /\ call' \in [Callers -> Call] /\ call'[c] = new
      /\ \A d \in Callers \ {c} : call'[d] = call[d]
  BY <1>3, <1>4 DEF TypeOK
<1>6. QED
  BY <1>2, <1>4, <1>5

\* A new call: no other is alone any more, and this one is if there is none.
LEMMA StartLemma ==
    ASSUME DInv, NEW c \in Callers, call[c] = Idle, NEW new \in Call,
           Starts(c, new)
    PROVE  /\ call' \in [Callers -> Call]
           /\ call'[c].op = new.op /\ call'[c].key = new.key
           /\ call'[c].leg = new.leg /\ call'[c].rollback = new.rollback
           /\ call'[c].flag4 = new.flag4
           /\ call'[c].alone => \A d \in Callers : call[d] = Idle
           /\ \A d \in Callers \ {c} :
                /\ call'[d].op = call[d].op /\ call'[d].key = call[d].key
                /\ call'[d].leg = call[d].leg
                /\ call'[d].rollback = call[d].rollback
                /\ call'[d].flag4 = call[d].flag4 /\ ~call'[d].alone
                /\ call'[d] = Idle <=> call[d] = Idle
<1> DEFINE free == \A e \in Callers : call[e] = Idle
           first == [new EXCEPT !.alone = free]
           later(d) == [call[d] EXCEPT !.alone = FALSE]
<1>1. free \in BOOLEAN
  OBVIOUS
<1>2. /\ first \in Call /\ first.op = new.op /\ first.key = new.key
      /\ first.leg = new.leg /\ first.rollback = new.rollback
      /\ first.flag4 = new.flag4 /\ first.alone = free
  <2> HIDE DEF free
  <2>1. QED
    BY <1>1 DEF Call
<1>3. \A d \in Callers :
        /\ later(d) \in Call
        /\ later(d).op = call[d].op /\ later(d).key = call[d].key
        /\ later(d).leg = call[d].leg /\ later(d).rollback = call[d].rollback
        /\ later(d).flag4 = call[d].flag4 /\ later(d).alone = FALSE
  BY DEF DInv, TypeOK, Call
<1>4. call' = [d \in Callers |-> IF d = c THEN first
                                 ELSE IF call[d] = Idle THEN Idle ELSE later(d)]
  BY DEF Starts
<1> HIDE DEF first, later
<1>5. call' \in [Callers -> Call] /\ call'[c] = first
  BY <1>2, <1>3, <1>4, IdleLemma
<1>6. ASSUME NEW d \in Callers \ {c}
      PROVE  /\ call'[d].op = call[d].op /\ call'[d].key = call[d].key
             /\ call'[d].leg = call[d].leg
             /\ call'[d].rollback = call[d].rollback
             /\ call'[d].flag4 = call[d].flag4 /\ ~call'[d].alone
             /\ call'[d] = Idle <=> call[d] = Idle
  <2>1. CASE call[d] = Idle
    BY <1>4, <2>1, IdleLemma
  <2>2. CASE call[d] # Idle
    <3>1. call'[d] = later(d)
      BY <1>4, <2>2
    <3>2. call[d].op # "idle"
      BY <2>2 DEF DInv, CallShape
    <3>3. call'[d] # Idle
      BY <1>3, <3>1, <3>2, IdleLemma
    <3>4. QED
      BY <1>3, <2>2, <3>1, <3>3
  <2>3. QED
    BY <2>1, <2>2
<1>7. call'[c].alone => free
  BY <1>2, <1>5
<1>8. QED
  BY <1>2, <1>5, <1>6, <1>7

\* What survives when one call goes on and the gateway stays.
LEMMA GoesOn ==
    ASSUME DInv, NEW c \in Callers, call[c].op # "idle", UNCHANGED gateway,
           call' \in [Callers -> Call],
           \A d \in Callers \ {c} : call'[d] = call[d],
           call'[c].alone => call[c].alone
    PROVE  /\ AloneIsOnly'
           /\ gateway' # "none"
           /\ \A d \in Callers \ {c} : ~call'[d].alone
<1>1. call[c] # Idle
  BY IdleLemma
<1>2. gateway # "none" /\ \A d \in Callers \ {c} : ~call[d].alone
  BY <1>1 DEF DInv, NeedsGateway, AloneIsOnly
<1>3. AloneIsOnly'
  BY <1>2 DEF DInv, AloneIsOnly
<1>4. QED
  BY <1>2, <1>3

LEMMA DInit == Init => DInv
<1> SUFFICES ASSUME Init PROVE DInv
  OBVIOUS
<1>1. call \in [Callers -> Call] /\ \A c \in Callers : call[c] = Idle
  BY IdleLemma DEF Init
<1>2. gateway \in DOMAIN Gateways
  BY DEF Init, Gateways
<1>3. TypeOK
  BY <1>1, <1>2, IdleLemma
     DEF Init, TypeOK, PinholeErr, Never, Probe, Families
<1>4. CallShape /\ AloneIsOnly /\ PinholeKnown
  BY <1>1, IdleLemma DEF CallShape, AloneIsOnly, PinholeKnown
<1>5. NeedsGateway
  BY <1>1 DEF Init, NeedsGateway
<1>6. RestartKept
  BY DEF Init, RestartKept, Never
<1>7. QED
  BY <1>3, <1>4, <1>5, <1>6 DEF DInv

LEMMA StartKeeps ==
    ASSUME DInv, NEW c \in Callers, call[c] = Idle, gateway # "none",
           NEW new \in Call, Starts(c, new),
           ~new.rollback, new.flag4 = "unread",
           \/ /\ new.op \in {"add", "delete"} /\ new.key \in Keys
              /\ new.leg["v6"] \in {"none", "wait"}
              /\ new.leg["v6"] = "none" <=> "v6" \notin Stacks
           \/ /\ new.op = "health" /\ new.key = NoKey
              /\ new.leg["v6"] # "wait",
           UNCHANGED <<gateway, owner, pinhole, pinholeErr, epochVars, probe>>
    PROVE  DInv'
<1>1. /\ call' \in [Callers -> Call]
      /\ call'[c].op = new.op /\ call'[c].key = new.key
      /\ call'[c].leg = new.leg /\ call'[c].rollback = new.rollback
      /\ call'[c].flag4 = new.flag4
      /\ call'[c].alone => \A d \in Callers : call[d] = Idle
      /\ \A d \in Callers \ {c} :
           /\ call'[d].op = call[d].op /\ call'[d].key = call[d].key
           /\ call'[d].leg = call[d].leg
           /\ call'[d].rollback = call[d].rollback
           /\ call'[d].flag4 = call[d].flag4 /\ ~call'[d].alone
           /\ call'[d] = Idle <=> call[d] = Idle
  BY StartLemma
<1>2. Stacks' = Stacks /\ UNCHANGED <<restarted, stateLost, untold>>
  BY DEF Stacks, epochVars
<1>3. TypeOK'
  <2>1. ASSUME NEW d \in Callers, call'[d].leg["v6"] \in {"run", "applied"},
               call'[d].key # NoKey
        PROVE  owner'[call'[d].key] = d
    <3>1. d # c
      BY <1>1, <2>1
    <3>2. QED
      BY <1>1, <2>1, <3>1 DEF DInv, TypeOK
  <2>2. QED
    BY <1>1, <1>2, <2>1 DEF DInv, TypeOK
<1>4. CallShape'
  <2> SUFFICES ASSUME NEW d \in Callers
               PROVE  CallShape!(d)'
    BY DEF CallShape
  <2>1. CASE d = c
    BY <1>1, <1>2, <2>1, IdleLemma
  <2>2. CASE d # c
    BY <1>1, <1>2, <2>2 DEF DInv, CallShape
  <2>3. QED
    BY <2>1, <2>2
<1>5. NeedsGateway'
  BY <1>2 DEF DInv, NeedsGateway
<1>6. AloneIsOnly'
  BY <1>1 DEF AloneIsOnly
<1>7. PinholeKnown'
  BY <1>1 DEF PinholeKnown
<1>8. RestartKept'
  <2>1. \A d \in Callers : call[d].flag4 = "raised" => call'[d].flag4 = "raised"
    BY <1>1, IdleLemma
  <2>2. QED
    BY <1>2, <2>1 DEF DInv, RestartKept
<1>9. QED
  BY <1>3, <1>4, <1>5, <1>6, <1>7, <1>8 DEF DInv

LEMMA MappingCallKeeps ==
    ASSUME DInv, NEW c \in Callers, NEW op \in {"add", "delete"}, NEW k \in Keys,
           MappingCall(c, op, k)
    PROVE  DInv'
<1> DEFINE leg == [f \in Families |-> IF f \notin Stacks THEN "none"
                                      ELSE IF f = "v4" THEN "run" ELSE "wait"]
           new == [Idle EXCEPT !.op = op, !.key = k, !.leg = leg]
<1>1. /\ leg \in [Families -> LegState] /\ leg["v6"] \in {"none", "wait"}
      /\ leg["v6"] = "none" <=> "v6" \notin Stacks
  BY DEF LegState, Families
<1>2. /\ call[c] = Idle /\ gateway # "none" /\ Starts(c, new)
      /\ UNCHANGED <<gateway, owner, pinhole, pinholeErr, epochVars, probe>>
  BY DEF MappingCall
<1> HIDE DEF leg
<1>3. /\ new \in Call /\ new.op = op /\ new.key = k /\ new.leg = leg
      /\ ~new.rollback /\ new.flag4 = "unread"
  BY <1>1, IdleLemma DEF Call
<1> HIDE DEF new
<1>4. QED
  BY <1>1, <1>2, <1>3, StartKeeps

LEMMA HealthCallKeeps ==
    ASSUME DInv, NEW c \in Callers, CheckServerHealth(c)
    PROVE  DInv'
<1> DEFINE leg == [f \in Families |-> IF f \in Checkers THEN "run" ELSE "none"]
           new == [Idle EXCEPT !.op = "health", !.leg = leg]
<1>1. leg \in [Families -> LegState] /\ leg["v6"] # "wait"
  BY DEF LegState, Families
<1>2. /\ call[c] = Idle /\ gateway # "none" /\ Starts(c, new)
      /\ UNCHANGED <<gateway, owner, pinhole, pinholeErr, epochVars, probe>>
  BY DEF CheckServerHealth
<1> HIDE DEF leg
<1>3. /\ new \in Call /\ new.op = "health" /\ new.key = NoKey /\ new.leg = leg
      /\ ~new.rollback /\ new.flag4 = "unread"
  BY <1>1, IdleLemma DEF Call
<1> HIDE DEF new
<1>4. QED
  BY <1>1, <1>2, <1>3, StartKeeps

\* A success is heard of, or nothing: restarts that were seen stay seen.
LEMMA HeardLemma ==
    ASSUME TypeOK, NEW f \in Families, NEW ok \in BOOLEAN, HeardOf(f, ok)
    PROVE  /\ restarted' \in [Families -> BOOLEAN]
           /\ stateLost' \in [Families -> BOOLEAN]
           /\ untold' \in [Families -> BOOLEAN]
           /\ \A g \in Families :
                /\ stateLost[g] => stateLost'[g]
                /\ untold'[g] => untold[g] \/ stateLost'[g]
<1>1. CASE ok /\ f \in Checkers
  BY <1>1 DEF HeardOf, Hears, TypeOK
<1>2. CASE ~(ok /\ f \in Checkers)
  BY <1>2 DEF HeardOf, epochVars, TypeOK
<1>3. QED
  BY <1>1, <1>2

LEMMA EndsLeg4Keeps ==
    ASSUME DInv, NEW c \in Callers, EndsLeg4(c)
    PROVE  DInv'
<1>1. PICK ok \in BOOLEAN :
        /\ call' = [call EXCEPT ![c].leg["v4"] = IF ok THEN "ok" ELSE "err"]
        /\ HeardOf("v4", ok)
  BY DEF EndsLeg4
<1>2. /\ call[c].leg["v4"] = "run"
      /\ UNCHANGED <<gateway, owner, pinhole, pinholeErr, probe>>
  BY DEF EndsLeg4
<1>3. /\ call' \in [Callers -> Call]
      /\ \A d \in Callers \ {c} : call'[d] = call[d]
      /\ call'[c].op = call[c].op /\ call'[c].key = call[c].key
      /\ call'[c].rollback = call[c].rollback
      /\ call'[c].alone = call[c].alone
      /\ call'[c].flag4 = call[c].flag4
      /\ call'[c].leg["v6"] = call[c].leg["v6"]
  <2> DEFINE v == IF ok THEN "ok" ELSE "err"
  <2>1. v \in LegState /\ "v4" \in Families
    BY DEF LegState, Families
  <2>2. SetsLeg(c, "v4", v)
    BY <1>1 DEF SetsLeg
  <2> HIDE DEF v
  <2>3. QED
    BY <2>1, <2>2, LegLemma DEF DInv
<1>4. /\ call[c].op # "idle" /\ call[c].flag4 # "raised"
  BY <1>2, IdleLemma DEF DInv, CallShape, Families
<1>5. TypeOK'
  <2>1. ASSUME NEW d \in Callers
        PROVE  call'[d].leg["v6"] = call[d].leg["v6"]
               /\ call'[d].key = call[d].key
    BY <1>3
  <2>2. /\ restarted' \in [Families -> BOOLEAN]
        /\ stateLost' \in [Families -> BOOLEAN]
        /\ untold' \in [Families -> BOOLEAN]
    BY <1>1, HeardLemma DEF DInv, Families
  <2>3. QED
    BY <1>2, <1>3, <2>1, <2>2 DEF DInv, TypeOK
<1>6. CallShape'
  <2> SUFFICES ASSUME NEW d \in Callers
               PROVE  CallShape!(d)'
    BY DEF CallShape
  <2>1. CASE d = c
    BY <1>2, <1>3, <1>4, <2>1, IdleLemma DEF DInv, CallShape, Stacks
  <2>2. CASE d # c
    BY <1>2, <1>3, <2>2 DEF DInv, CallShape, Stacks
  <2>3. QED
    BY <2>1, <2>2
<1>7. AloneIsOnly' /\ gateway' # "none"
  BY <1>2, <1>3, <1>4, GoesOn
<1>8. NeedsGateway'
  BY <1>2, <1>7 DEF DInv, NeedsGateway, Stacks
<1>9. PinholeKnown'
  BY <1>2, <1>3 DEF DInv, PinholeKnown, Asks6
<1>10. RestartKept'
  BY <1>1, <1>3, HeardLemma DEF DInv, RestartKept, Families
<1>11. QED
  BY <1>5, <1>6, <1>7, <1>8, <1>9, <1>10 DEF DInv

\* A step of the IPv6 leg of a call, apart from what it does to the lock, the
\* pinhole and the epochs.
LEMMA Leg6Lemma ==
    ASSUME DInv, NEW c \in Callers, NEW v \in {"run", "applied", "ok", "err"},
           SetsLeg(c, "v6", v), call[c].leg["v6"] # "none", UNCHANGED gateway
    PROVE  /\ call' \in [Callers -> Call]
           /\ \A d \in Callers \ {c} : call'[d] = call[d] /\ ~call'[d].alone
           /\ call'[c].op = call[c].op /\ call'[c].key = call[c].key
           /\ call'[c].rollback = call[c].rollback
           /\ call'[c].alone = call[c].alone
           /\ call'[c].flag4 = call[c].flag4
           /\ call'[c].leg["v6"] = v
           /\ call[c].op \in {"add", "delete", "health"}
           /\ call[c].op \in {"add", "delete"} =>
                call[c].key \in Keys /\ "v6" \in Stacks
           /\ call[c].op = "health" =>
                call[c].key = NoKey /\ call[c].leg["v6"] # "wait"
           /\ gateway' # "none" /\ Stacks' = Stacks
           /\ CallShape' /\ AloneIsOnly'
<1>1. /\ call' \in [Callers -> Call]
      /\ \A d \in Callers \ {c} : call'[d] = call[d]
      /\ call'[c].op = call[c].op /\ call'[c].key = call[c].key
      /\ call'[c].rollback = call[c].rollback
      /\ call'[c].alone = call[c].alone
      /\ call'[c].flag4 = call[c].flag4
      /\ call'[c].leg["v6"] = v /\ call'[c].leg["v4"] = call[c].leg["v4"]
  <2>1. v \in LegState /\ "v6" \in Families
    BY DEF LegState, Families
  <2>2. QED
    BY <2>1, LegLemma DEF DInv
<1>2. call[c].op \in {"add", "delete", "health"}
  <2>1. "v6" \in Families
    BY DEF Families
  <2>2. call[c].op # "idle"
    BY <2>1, IdleLemma DEF DInv, CallShape
  <2>3. QED
    BY <2>2, CallLemma DEF DInv
<1>3. /\ call[c].op \in {"add", "delete"} =>
           call[c].key \in Keys /\ "v6" \in Stacks
      /\ call[c].op = "health" =>
           call[c].key = NoKey /\ call[c].leg["v6"] # "wait"
  BY DEF DInv, CallShape
<1>4. AloneIsOnly' /\ gateway' # "none"
      /\ \A d \in Callers \ {c} : ~call'[d].alone
  BY <1>1, <1>2, GoesOn
<1>5. Stacks' = Stacks
  BY DEF Stacks
<1>6. CallShape'
  <2> SUFFICES ASSUME NEW d \in Callers
               PROVE  CallShape!(d)'
    BY DEF CallShape
  <2>1. CASE d = c
    BY <1>1, <1>2, <1>5, <2>1, IdleLemma DEF DInv, CallShape
  <2>2. CASE d # c
    BY <1>1, <1>5, <2>2 DEF DInv, CallShape
  <2>3. QED
    BY <2>1, <2>2
<1>7. QED
  BY <1>1, <1>2, <1>3, <1>4, <1>5, <1>6

LEMMA Locks6Keeps ==
    ASSUME DInv, NEW c \in Callers, Locks6(c)
    PROVE  DInv'
<1>1. PICK k : k = call[c].key
  OBVIOUS
<1>2. /\ call[c].leg["v6"] = "wait" /\ owner[k] = Nobody
      /\ owner' = [owner EXCEPT ![k] = c]
      /\ SetsLeg(c, "v6", "run")
      /\ UNCHANGED <<gateway, pinhole, pinholeErr, restarted, stateLost, untold,
                     probe>>
  BY <1>1 DEF Locks6, LockFree6, SetsLeg, epochVars
<1>3. /\ call' \in [Callers -> Call]
      /\ \A d \in Callers \ {c} : call'[d] = call[d] /\ ~call'[d].alone
      /\ call'[c].key = k /\ call'[c].flag4 = call[c].flag4
      /\ call'[c].leg["v6"] = "run"
      /\ k \in Keys /\ gateway' # "none" /\ Stacks' = Stacks
      /\ CallShape' /\ AloneIsOnly'
  BY <1>1, <1>2, Leg6Lemma
<1>4. TypeOK'
  <2>1. /\ owner' \in [Keys -> Callers \cup {Nobody}] /\ owner'[k] = c
        /\ \A j \in Keys \ {k} : owner'[j] = owner[j]
    BY <1>2, <1>3 DEF DInv, TypeOK
  <2>2. ASSUME NEW d \in Callers, call'[d].leg["v6"] \in {"run", "applied"},
               call'[d].key # NoKey
        PROVE  owner'[call'[d].key] = d
    <3>1. CASE d = c
      BY <1>3, <2>1, <3>1
    <3>2. CASE d # c
      <4>1. call'[d].key \in Keys /\ owner[call'[d].key] = d
        BY <1>3, <2>2, <3>2, CallLemma DEF DInv, TypeOK
      <4>2. call'[d].key # k
        BY <1>2, <4>1, ConstantAssumption
      <4>3. QED
        BY <2>1, <4>1, <4>2
    <3>3. QED
      BY <3>1, <3>2
  <2>3. QED
    BY <1>2, <1>3, <2>1, <2>2 DEF DInv, TypeOK
<1>5. NeedsGateway'
  BY <1>2, <1>3 DEF DInv, NeedsGateway
<1>6. PinholeKnown'
  BY <1>3 DEF PinholeKnown
<1>7. RestartKept'
  BY <1>2, <1>3 DEF DInv, RestartKept
<1>8. QED
  BY <1>3, <1>4, <1>5, <1>6, <1>7 DEF DInv

LEMMA Applies6Keeps ==
    ASSUME DInv, NEW c \in Callers, Applies6(c)
    PROVE  DInv'
<1>1. PICK k : k = call[c].key
  OBVIOUS
<1>2. /\ call[c].leg["v6"] = "run" /\ k # NoKey
      /\ pinhole' = [pinhole EXCEPT ![k] =
                       IF Asks6(c) = "add" THEN "open" ELSE "closed"]
      /\ SetsLeg(c, "v6", "applied")
      /\ UNCHANGED <<gateway, owner, pinholeErr, restarted, stateLost, untold,
                     probe>>
  BY <1>1 DEF Applies6, SetsLeg, epochVars
<1>3. /\ call' \in [Callers -> Call]
      /\ \A d \in Callers \ {c} : call'[d] = call[d] /\ ~call'[d].alone
      /\ call'[c].op = call[c].op
      /\ call'[c].key = k /\ call'[c].flag4 = call[c].flag4
      /\ call'[c].rollback = call[c].rollback
      /\ call'[c].leg["v6"] = "applied"
      /\ k \in Keys /\ "v6" \in Stacks /\ gateway' # "none" /\ Stacks' = Stacks
      /\ CallShape' /\ AloneIsOnly'
  BY <1>1, <1>2, Leg6Lemma
<1>4. /\ pinhole' \in [Keys -> {"closed", "open", "dropped"}]
      /\ pinhole'[k] = IF Asks6(c) = "add" THEN "open" ELSE "closed"
  BY <1>2, <1>3 DEF DInv, TypeOK
<1>5. TypeOK'
  <2>1. ASSUME NEW d \in Callers, call'[d].leg["v6"] \in {"run", "applied"},
               call'[d].key # NoKey
        PROVE  owner[call'[d].key] = d
    BY <1>1, <1>2, <1>3, <2>1 DEF DInv, TypeOK
  <2>2. QED
    BY <1>2, <1>3, <1>4, <2>1 DEF DInv, TypeOK
<1>6. NeedsGateway'
  BY <1>3 DEF NeedsGateway
<1>7. PinholeKnown'
  BY <1>3, <1>4 DEF PinholeKnown, Asks6
<1>8. RestartKept'
  BY <1>2, <1>3 DEF DInv, RestartKept
<1>9. QED
  BY <1>3, <1>5, <1>6, <1>7, <1>8 DEF DInv

LEMMA EndsLeg6Keeps ==
    ASSUME DInv, NEW c \in Callers, EndsLeg6(c)
    PROVE  DInv'
<1>1. PICK k : k = call[c].key
  OBVIOUS
<1>2. PICK ok \in BOOLEAN :
        /\ ok => call[c].leg["v6"] = "applied" \/ k = NoKey
        /\ call' = [call EXCEPT ![c].leg["v6"] = IF ok THEN "ok" ELSE "err"]
        /\ HeardOf("v6", ok)
  BY <1>1 DEF EndsLeg6
<1>3. /\ call[c].leg["v6"] \in {"run", "applied"}
      /\ owner' = [j \in Keys |-> IF j = k THEN Nobody ELSE owner[j]]
      /\ UNCHANGED <<gateway, pinhole, pinholeErr, probe>>
  BY <1>1 DEF EndsLeg6, Unlocked6
<1> DEFINE v == IF ok THEN "ok" ELSE "err"
<1>4. /\ v \in {"run", "applied", "ok", "err"} /\ v \in {"ok", "err"}
      /\ v = "ok" => ok
  OBVIOUS
<1>5. SetsLeg(c, "v6", v)
  BY <1>2 DEF SetsLeg
<1> HIDE DEF v
<1>6. /\ call' \in [Callers -> Call]
      /\ \A d \in Callers \ {c} : call'[d] = call[d] /\ ~call'[d].alone
      /\ call'[c].op = call[c].op
      /\ call'[c].key = k /\ call'[c].flag4 = call[c].flag4
      /\ call'[c].rollback = call[c].rollback
      /\ call'[c].alone = call[c].alone
      /\ call'[c].leg["v6"] = v
      /\ call[c].op \in {"add", "delete"} => k \in Keys
      /\ gateway' # "none" /\ Stacks' = Stacks
      /\ CallShape' /\ AloneIsOnly'
  BY <1>1, <1>3, <1>4, <1>5, Leg6Lemma
<1>7. /\ restarted' \in [Families -> BOOLEAN]
      /\ stateLost' \in [Families -> BOOLEAN]
      /\ untold' \in [Families -> BOOLEAN]
      /\ \A g \in Families :
           /\ stateLost[g] => stateLost'[g]
           /\ untold'[g] => untold[g] \/ stateLost'[g]
  BY <1>2, HeardLemma DEF DInv, Families
<1>8. TypeOK'
  <2>1. ASSUME NEW d \in Callers, call'[d].leg["v6"] \in {"run", "applied"},
               call'[d].key # NoKey
        PROVE  owner'[call'[d].key] = d
    <3>1. d # c
      BY <1>4, <1>6, <2>1
    <3>2. call'[d].key \in Keys /\ owner[call'[d].key] = d
      BY <1>6, <2>1, <3>1, CallLemma DEF DInv, TypeOK
    <3>3. call'[d].key # k
      BY <1>1, <1>3, <2>1, <3>1, <3>2 DEF DInv, TypeOK
    <3>4. QED
      BY <1>3, <3>2, <3>3
  <2>2. owner' \in [Keys -> Callers \cup {Nobody}]
    BY <1>3 DEF DInv, TypeOK
  <2>3. QED
    BY <1>3, <1>6, <1>7, <2>1, <2>2 DEF DInv, TypeOK
<1>9. NeedsGateway'
  BY <1>3, <1>6 DEF DInv, NeedsGateway
<1>10. PinholeKnown'
  BY <1>1, <1>2, <1>3, <1>4, <1>6, ConstantAssumption
     DEF DInv, PinholeKnown, Asks6
<1>11. RestartKept'
  BY <1>6, <1>7 DEF DInv, RestartKept
<1>12. QED
  BY <1>6, <1>8, <1>9, <1>10, <1>11 DEF DInv

LEMMA RollsBackKeeps ==
    ASSUME DInv, NEW c \in Callers, RollsBack(c)
    PROVE  DInv'
<1>1. /\ call[c] \in Call /\ call[c].leg \in [Families -> LegState]
      /\ call[c].op = "add" /\ call[c].leg["v6"] = "ok"
      /\ call' = [call EXCEPT ![c].rollback = TRUE, ![c].leg["v6"] = "wait"]
      /\ UNCHANGED <<gateway, owner, pinhole, pinholeErr, restarted, stateLost,
                     untold, probe>>
  BY CallLemma DEF DInv, RollsBack, MustRollBack, epochVars
<1> DEFINE leg == [call[c].leg EXCEPT !["v6"] = "wait"]
           new == [call[c] EXCEPT !.rollback = TRUE, !.leg = leg]
<1>2. /\ leg \in [Families -> LegState] /\ leg["v6"] = "wait"
      /\ leg["v4"] = call[c].leg["v4"]
  BY <1>1 DEF Families, LegState
<1>3. call' = [call EXCEPT ![c] = new]
  BY <1>1 DEF DInv, TypeOK, Call
<1> HIDE DEF leg
<1>4. /\ new \in Call /\ new.op = "add" /\ new.key = call[c].key
      /\ new.rollback /\ new.alone = call[c].alone
      /\ new.flag4 = call[c].flag4 /\ new.leg = leg
  BY <1>1, <1>2 DEF Call
<1> HIDE DEF new
<1>5. /\ call' \in [Callers -> Call] /\ call'[c] = new
      /\ \A d \in Callers \ {c} : call'[d] = call[d]
  BY <1>3, <1>4 DEF DInv, TypeOK
<1>6. /\ AloneIsOnly' /\ gateway' # "none"
      /\ \A d \in Callers \ {c} : ~call'[d].alone
  BY <1>1, <1>4, <1>5, GoesOn
<1>7. TypeOK'
  <2>1. ASSUME NEW d \in Callers, call'[d].leg["v6"] \in {"run", "applied"},
               call'[d].key # NoKey
        PROVE  owner[call'[d].key] = d
    BY <1>2, <1>4, <1>5, <2>1 DEF DInv, TypeOK
  <2>2. QED
    BY <1>1, <1>5, <2>1 DEF DInv, TypeOK
<1>8. CallShape'
  <2> SUFFICES ASSUME NEW d \in Callers
               PROVE  CallShape!(d)'
    BY DEF CallShape
  <2>1. CASE d = c
    <3>1. /\ call[c].op = "add" /\ call[c].key \in Keys
          /\ call[c].flag4 = "unread" /\ "v6" \in Stacks
      BY <1>1, IdleLemma DEF DInv, CallShape, Stacks
    <3>2. new.op # "idle" /\ new # Idle
      BY <1>4, IdleLemma
    <3>3. new.leg["v6"] = "wait"
      BY <1>2, <1>4
    <3>4. QED
      BY <1>1, <1>4, <1>5, <2>1, <3>1, <3>2, <3>3 DEF Stacks
  <2>2. CASE d # c
    BY <1>1, <1>5, <2>2 DEF DInv, CallShape, Stacks
  <2>3. QED
    BY <2>1, <2>2
<1>9. NeedsGateway'
  BY <1>1, <1>6 DEF DInv, NeedsGateway, Stacks
<1>10. PinholeKnown'
  BY <1>2, <1>4, <1>5, <1>6 DEF PinholeKnown
<1>11. RestartKept'
  BY <1>1, <1>4, <1>5 DEF DInv, RestartKept
<1>12. QED
  BY <1>6, <1>7, <1>8, <1>9, <1>10, <1>11 DEF DInv

\* What a return leaves of the other calls.
LEMMA ReturnLemma ==
    ASSUME DInv, NEW c \in Callers, call[c].op # "idle",
           call' = [call EXCEPT ![c] = Idle],
           UNCHANGED <<gateway, owner, pinhole>>
    PROVE  /\ call' \in [Callers -> Call] /\ call'[c] = Idle
           /\ \A d \in Callers \ {c} : call'[d] = call[d]
           /\ \A d \in Callers :
                call'[d].leg["v6"] \in {"run", "applied"} /\ call'[d].key # NoKey
                  => owner'[call'[d].key] = d
           /\ CallShape' /\ NeedsGateway' /\ AloneIsOnly' /\ PinholeKnown'
<1>1. /\ call' \in [Callers -> Call] /\ call'[c] = Idle
      /\ \A d \in Callers \ {c} : call'[d] = call[d]
  BY IdleLemma DEF DInv, TypeOK
<1>2. /\ AloneIsOnly' /\ gateway' # "none"
      /\ \A d \in Callers \ {c} : ~call'[d].alone
  BY <1>1, IdleLemma, GoesOn
<1>3. ASSUME NEW d \in Callers, call'[d].leg["v6"] \in {"run", "applied"},
             call'[d].key # NoKey
      PROVE  owner'[call'[d].key] = d
  <2>1. d # c
    BY <1>1, <1>3, IdleLemma
  <2>2. QED
    BY <1>1, <1>3, <2>1 DEF DInv, TypeOK
<1>4. CallShape'
  <2> SUFFICES ASSUME NEW d \in Callers
               PROVE  CallShape!(d)'
    BY DEF CallShape
  <2>1. CASE d = c
    BY <1>1, <2>1, IdleLemma
  <2>2. CASE d # c
    BY <1>1, <2>2 DEF DInv, CallShape, Stacks
  <2>3. QED
    BY <2>1, <2>2
<1>5. NeedsGateway'
  BY <1>2 DEF DInv, NeedsGateway, Stacks
<1>6. PinholeKnown'
  BY <1>1, <1>2, IdleLemma DEF PinholeKnown
<1>7. QED
  BY <1>1, <1>2, <1>3, <1>4, <1>5, <1>6

LEMMA MappingReturnsKeeps ==
    ASSUME DInv, NEW c \in Callers, MappingReturns(c)
    PROVE  DInv'
<1>1. /\ call[c].op \in {"add", "delete"} /\ call' = [call EXCEPT ![c] = Idle]
      /\ pinholeErr' \in PinholeErr
      /\ UNCHANGED <<gateway, owner, pinhole, restarted, stateLost, untold,
                     probe>>
  BY DEF MappingReturns, Outcome, PinholeErr, epochVars
<1>2. /\ call' \in [Callers -> Call] /\ call'[c] = Idle
      /\ \A d \in Callers \ {c} : call'[d] = call[d]
      /\ \A d \in Callers :
           call'[d].leg["v6"] \in {"run", "applied"} /\ call'[d].key # NoKey
             => owner'[call'[d].key] = d
      /\ CallShape' /\ NeedsGateway' /\ AloneIsOnly' /\ PinholeKnown'
  BY <1>1, ReturnLemma
<1>3. TypeOK'
  BY <1>1, <1>2 DEF DInv, TypeOK
<1>4. RestartKept'
  <2>1. call[c].flag4 = "unread"
    BY <1>1 DEF DInv, CallShape
  <2>2. QED
    BY <1>1, <1>2, <2>1 DEF DInv, RestartKept
<1>5. QED
  BY <1>2, <1>3, <1>4 DEF DInv

LEMMA ReadsLemma ==
    ASSUME TypeOK, NEW c \in Callers, NEW f \in Families, Reads(c, f)
    PROVE  /\ stateLost' \in [Families -> BOOLEAN]
           /\ stateLost'[f] <=> stateLost[f] /\ ~ReadFlag(c, f)
           /\ \A g \in Families \ {f} : stateLost'[g] = stateLost[g]
BY DEF TypeOK, Reads, ReadFlag

LEMMA ReadsFlag4Keeps ==
    ASSUME DInv, NEW c \in Callers, ReadsFlag4(c)
    PROVE  DInv'
<1> DEFINE flag == IF ReadFlag(c, "v4") THEN "raised" ELSE "clear"
           new == [call[c] EXCEPT !.flag4 = flag]
<1>1. /\ call[c] \in Call /\ call[c].op = "health" /\ call[c].flag4 = "unread"
      /\ call' = [call EXCEPT ![c].flag4 = flag] /\ Reads(c, "v4")
      /\ UNCHANGED <<gateway, owner, pinhole, pinholeErr, restarted, untold,
                     probe>>
  BY CallLemma DEF DInv, ReadsFlag4
<1>2. /\ flag \in {"raised", "clear"}
      /\ flag = "raised" <=> ReadFlag(c, "v4")
  OBVIOUS
<1> HIDE DEF flag
<1>3. /\ new \in Call /\ new.op = "health" /\ new.key = call[c].key
      /\ new.rollback = call[c].rollback /\ new.alone = call[c].alone
      /\ new.flag4 = flag /\ new.leg = call[c].leg
  BY <1>1, <1>2 DEF Call
<1>4. call' = [call EXCEPT ![c] = new]
  BY <1>1 DEF DInv, TypeOK
<1> HIDE DEF new
<1>5. /\ call' \in [Callers -> Call] /\ call'[c] = new
      /\ \A d \in Callers \ {c} : call'[d] = call[d]
  BY <1>3, <1>4 DEF DInv, TypeOK
<1>6. /\ AloneIsOnly' /\ gateway' # "none"
      /\ \A d \in Callers \ {c} : ~call'[d].alone
  BY <1>1, <1>3, <1>5, GoesOn
<1>7. /\ stateLost' \in [Families -> BOOLEAN]
      /\ stateLost'["v4"] <=> stateLost["v4"] /\ ~ReadFlag(c, "v4")
      /\ stateLost'["v6"] = stateLost["v6"]
  BY <1>1, ReadsLemma DEF DInv, Families
<1>8. TypeOK'
  <2>1. ASSUME NEW d \in Callers, call'[d].leg["v6"] \in {"run", "applied"},
               call'[d].key # NoKey
        PROVE  owner[call'[d].key] = d
    BY <1>3, <1>5, <2>1 DEF DInv, TypeOK
  <2>2. QED
    BY <1>1, <1>5, <1>7, <2>1 DEF DInv, TypeOK
<1>9. CallShape'
  <2> SUFFICES ASSUME NEW d \in Callers
               PROVE  CallShape!(d)'
    BY DEF CallShape
  <2>1. CASE d = c
    BY <1>1, <1>2, <1>3, <1>5, <2>1, IdleLemma
       DEF DInv, CallShape, ReadFlag
  <2>2. CASE d # c
    BY <1>1, <1>5, <2>2 DEF DInv, CallShape, Stacks
  <2>3. QED
    BY <2>1, <2>2
<1>10. NeedsGateway'
  BY <1>1, <1>6 DEF DInv, NeedsGateway, Stacks
<1>11. PinholeKnown'
  BY <1>3, <1>5, <1>6 DEF PinholeKnown
<1>12. RestartKept'
  <2>1. \A d \in Callers : call[d].flag4 = "raised" => call'[d].flag4 = "raised"
    BY <1>1, <1>5
  <2>2. stateLost["v4"] => stateLost'["v4"] \/ call'[c].flag4 = "raised"
    BY <1>2, <1>3, <1>5, <1>7
  <2>3. QED
    BY <1>1, <1>7, <2>1, <2>2 DEF DInv, RestartKept, Families
<1>13. QED
  BY <1>6, <1>8, <1>9, <1>10, <1>11, <1>12 DEF DInv

LEMMA HealthReturnsKeeps ==
    ASSUME DInv, NEW c \in Callers, HealthReturns(c)
    PROVE  DInv'
<1>1. /\ call[c].flag4 # "unread" /\ call' = [call EXCEPT ![c] = Idle]
      /\ Reads(c, "v6")
      /\ untold' = [f \in Families |-> untold[f] /\ ~Verdict(c)[f]]
      /\ UNCHANGED <<gateway, owner, pinhole, pinholeErr, restarted, probe>>
  BY DEF HealthReturns
<1>2. call[c].op # "idle"
  BY <1>1, IdleLemma DEF DInv, CallShape
<1>3. /\ call' \in [Callers -> Call] /\ call'[c] = Idle
      /\ \A d \in Callers \ {c} : call'[d] = call[d]
      /\ \A d \in Callers :
           call'[d].leg["v6"] \in {"run", "applied"} /\ call'[d].key # NoKey
             => owner'[call'[d].key] = d
      /\ CallShape' /\ NeedsGateway' /\ AloneIsOnly' /\ PinholeKnown'
  BY <1>1, <1>2, ReturnLemma
<1>4. /\ stateLost' \in [Families -> BOOLEAN]
      /\ stateLost'["v6"] <=> stateLost["v6"] /\ ~ReadFlag(c, "v6")
      /\ stateLost'["v4"] = stateLost["v4"]
  BY <1>1, ReadsLemma DEF DInv, Families
<1>5. /\ untold' \in [Families -> BOOLEAN]
      /\ \A f \in Families : untold'[f] => untold[f] /\ ~Verdict(c)[f]
  BY <1>1 DEF DInv, TypeOK
<1>6. TypeOK'
  BY <1>1, <1>3, <1>4, <1>5 DEF DInv, TypeOK
<1>7. RestartKept'
  <2>1. ASSUME untold'["v6"]
        PROVE  stateLost'["v6"]
    <3>1. untold["v6"] /\ ~ReadFlag(c, "v6")
      BY <1>5, <2>1 DEF Verdict, Families
    <3>2. QED
      BY <1>4, <3>1 DEF DInv, RestartKept, Families
  <2>2. ASSUME untold'["v4"], ~stateLost'["v4"]
        PROVE  \E d \in Callers : call'[d].flag4 = "raised"
    <3>1. untold["v4"] /\ ~(call[c].leg["v4"] = "ok" /\ call[c].flag4 = "raised")
      BY <1>5, <2>2 DEF Verdict, Families
    <3>2. PICK d \in Callers : call[d].flag4 = "raised"
      BY <1>4, <2>2, <3>1 DEF DInv, RestartKept, Families
    <3>3. d # c
      BY <3>1, <3>2 DEF DInv, CallShape
    <3>4. QED
      BY <1>3, <3>2, <3>3
  <2>3. QED
    BY <2>1, <2>2 DEF RestartKept, Families
<1>8. QED
  BY <1>3, <1>6, <1>7 DEF DInv

-----------------------------------------------------------------------------
(* Discovery and the servers.                                              *)

\* Pinholes only lapse, and restarts only add to what is unreported.
LEMMA LapseKeeps ==
    ASSUME DInv, UNCHANGED <<gateway, call, owner, pinholeErr, stateLost, untold>>,
           pinhole' \in [Keys -> {"closed", "open", "dropped"}],
           \A k \in Keys : \/ pinhole'[k] = pinhole[k]
                           \/ pinhole[k] = "open" /\ pinhole'[k] = "dropped",
           restarted' \in [Families -> BOOLEAN],
           probe' \in [Families -> Probe]
    PROVE  DInv'
<1>1. TypeOK'
  BY DEF DInv, TypeOK
<1>2. CallShape' /\ AloneIsOnly'
  BY DEF DInv, CallShape, AloneIsOnly, Stacks
<1>3. NeedsGateway'
  BY DEF DInv, NeedsGateway, Stacks
<1>4. PinholeKnown'
  <2> SUFFICES ASSUME NEW c \in Callers,
                      call[c].alone /\ call[c].op \in {"add", "delete"},
                      call[c].leg["v6"] \in {"applied", "ok"}
               PROVE  IF Asks6(c) = "add" THEN pinhole'[call[c].key] # "closed"
                                          ELSE pinhole'[call[c].key] # "open"
    BY DEF PinholeKnown, Asks6
  <2>1. call[c].key \in Keys
    BY DEF DInv, CallShape
  <2>2. IF Asks6(c) = "add" THEN pinhole[call[c].key] # "closed"
                            ELSE pinhole[call[c].key] # "open"
    BY DEF DInv, PinholeKnown
  <2>3. QED
    BY <2>1, <2>2
<1>5. RestartKept'
  BY DEF DInv, RestartKept
<1>6. QED
  BY <1>1, <1>2, <1>3, <1>4, <1>5 DEF DInv

LEMMA ExpireKeeps ==
    ASSUME DInv, NEW k \in Keys, Expire(k)
    PROVE  DInv'
<1>1. /\ UNCHANGED <<gateway, call, owner, pinholeErr, restarted, stateLost,
                     untold, probe>>
      /\ pinhole[k] = "open" /\ pinhole' = [pinhole EXCEPT ![k] = "dropped"]
  BY DEF Expire, epochVars
<1>2. /\ restarted' \in [Families -> BOOLEAN] /\ probe' \in [Families -> Probe]
      /\ pinhole' \in [Keys -> {"closed", "open", "dropped"}]
      /\ \A j \in Keys : \/ pinhole'[j] = pinhole[j]
                         \/ pinhole[j] = "open" /\ pinhole'[j] = "dropped"
  BY <1>1 DEF DInv, TypeOK
<1>3. QED
  BY <1>1, <1>2, LapseKeeps

LEMMA ServerRestartKeeps ==
    ASSUME DInv, NEW f \in Families, ServerRestart(f)
    PROVE  DInv'
<1>1. /\ UNCHANGED <<gateway, call, owner, pinholeErr, stateLost, untold, probe>>
      /\ restarted' = [restarted EXCEPT ![f] = TRUE]
      /\ pinhole' = [k \in Keys |-> IF f = "v6" /\ pinhole[k] = "open"
                                      THEN "dropped" ELSE pinhole[k]]
  BY DEF ServerRestart
<1>2. /\ restarted' \in [Families -> BOOLEAN] /\ probe' \in [Families -> Probe]
      /\ pinhole' \in [Keys -> {"closed", "open", "dropped"}]
      /\ \A j \in Keys : \/ pinhole'[j] = pinhole[j]
                         \/ pinhole[j] = "open" /\ pinhole'[j] = "dropped"
  BY <1>1 DEF DInv, TypeOK
<1>3. QED
  BY <1>1, <1>2, LapseKeeps

LEMMA ProbesKeeps ==
    ASSUME DInv, NEW f \in Families, Probes(f)
    PROVE  DInv'
<1>1. /\ UNCHANGED <<gateway, call, owner, pinhole, pinholeErr, restarted,
                     stateLost, untold>>
      /\ \E outcome \in {"found", "failed"} :
           probe' = [probe EXCEPT ![f] = outcome]
  BY DEF Probes, epochVars
<1>2. probe' \in [Families -> Probe]
  BY <1>1 DEF DInv, TypeOK, Probe
<1>3. /\ restarted' \in [Families -> BOOLEAN]
      /\ pinhole' \in [Keys -> {"closed", "open", "dropped"}]
  BY <1>1 DEF DInv, TypeOK
<1>4. QED
  BY <1>1, <1>2, <1>3, LapseKeeps

LEMMA DiscoverKeeps ==
    ASSUME DInv, DiscoverPCP
    PROVE  DInv'
<1>1. /\ gateway = "none" /\ gateway' \in {"none", "pcp", "pcp4", "pcp6"}
      /\ UNCHANGED <<call, owner, pinhole, pinholeErr, restarted, stateLost,
                     untold>>
  BY DEF DiscoverPCP, Result, epochVars
<1>2. \A c \in Callers : call[c] = Idle
  BY <1>1 DEF DInv, NeedsGateway
<1>3. \A k \in Keys : pinhole[k] = "closed"
  BY <1>1 DEF DInv, NeedsGateway, Stacks, Gateways
<1>4. probe' \in [Families -> Probe]
  BY DEF DiscoverPCP, DInv, TypeOK, Probe
<1>5. TypeOK'
  BY <1>1, <1>4 DEF DInv, TypeOK, Gateways
<1>6. CallShape' /\ AloneIsOnly' /\ PinholeKnown'
  BY <1>1, <1>2, IdleLemma DEF CallShape, AloneIsOnly, PinholeKnown
<1>7. NeedsGateway'
  BY <1>1, <1>2, <1>3 DEF NeedsGateway
<1>8. RestartKept'
  BY <1>1 DEF DInv, RestartKept
<1>9. QED
  BY <1>5, <1>6, <1>7, <1>8 DEF DInv

-----------------------------------------------------------------------------
(* The theorems.                                                           *)

LEMMA DStep ==
    ASSUME DInv, [Next]_vars
    PROVE  DInv'
<1>1. ASSUME NEW c \in Callers,
             \/ \E op \in {"add", "delete"}, k \in Keys : MappingCall(c, op, k)
             \/ CheckServerHealth(c)
      PROVE  DInv'
  BY <1>1, MappingCallKeeps, HealthCallKeeps
<1>2. ASSUME NEW c \in Callers, Proceeds(c)
      PROVE  DInv'
  BY <1>2, EndsLeg4Keeps, Locks6Keeps, Applies6Keeps, EndsLeg6Keeps,
     RollsBackKeeps, MappingReturnsKeeps, ReadsFlag4Keeps, HealthReturnsKeeps
     DEF Proceeds
<1>3. CASE DiscoverPCP \/ \E f \in Families : Probes(f)
  BY <1>3, DiscoverKeeps, ProbesKeeps
<1>4. CASE \E k \in Keys : Expire(k)
  BY <1>4, ExpireKeeps
<1>5. ASSUME NEW f \in Checkers, ServerRestart(f)
      PROVE  DInv'
  <2>1. f \in Families
    BY DEF DInv, TypeOK, Checkers, Gateways, Families
  <2>2. QED
    BY <1>5, <2>1, ServerRestartKeeps
<1>6. CASE UNCHANGED vars
  <2>1. UNCHANGED <<gateway, call, owner, pinhole, pinholeErr, restarted,
                    stateLost, untold, probe>>
    BY <1>6 DEF vars, epochVars
  <2>2. /\ restarted' \in [Families -> BOOLEAN] /\ probe' \in [Families -> Probe]
        /\ pinhole' \in [Keys -> {"closed", "open", "dropped"}]
    BY <2>1 DEF DInv, TypeOK
  <2>3. QED
    BY <2>1, <2>2, LapseKeeps
<1>7. QED
  BY <1>1, <1>2, <1>3, <1>4, <1>5, <1>6 DEF Next

\* The inductive invariant of discovery, calls, pinholes and restarts
\* (pcp/nat.go:132-322, pcp_ipv6.go:66-203).
THEOREM DInvariant == Spec => []DInv
<1>1. Init => DInv
  BY DInit
<1>2. DInv /\ [Next]_vars => DInv'
  BY DStep
<1>3. QED
  BY <1>1, <1>2, PTL DEF Spec

\* Types, and one IPv6 exchange per mapping at a time (pcp/client.go:196).
THEOREM TypeCorrect == Spec => []TypeOK
<1>1. DInv => TypeOK
  BY DEF DInv
<1>2. QED
  BY <1>1, DInvariant, PTL

\* A restart that a client has seen is not forgotten before it is reported, with
\* any number of concurrent health checks (pcp/nat.go:239-289).
THEOREM RestartsAreTold == Spec => []NoRestartSwallowed
<1>1. DInv => NoRestartSwallowed
  <2> SUFFICES ASSUME DInv, NEW f \in Checkers, untold[f]
               PROVE  \/ stateLost[f]
                      \/ f = "v4" /\ \E c \in Callers : call[c].flag4 = "raised"
    BY DEF NoRestartSwallowed
  <2>1. f \in Families
    BY DEF DInv, TypeOK, Checkers, Gateways, Families
  <2>2. QED
    BY <2>1 DEF DInv, RestartKept
<1>2. QED
  BY <1>1, DInvariant, PTL

\* The end of a mapping call is MappingReturns.
LEMMA EndLemma ==
    ASSUME DInv, [Next]_vars, NEW c \in Callers, Ends(c)
    PROVE  /\ MappingReturns(c) /\ call[c].key \in Keys
           /\ call[c].leg["v6"] = "none" <=> "v6" \notin Stacks
<1>1. /\ call[c].op \in {"add", "delete"} /\ call'[c].op = "idle"
  BY IdleLemma DEF Ends
<1>2. /\ call[c].key \in Keys
      /\ call[c].leg["v6"] = "none" <=> "v6" \notin Stacks
  BY <1>1 DEF DInv, CallShape
<1>3. ASSUME NEW d \in Callers, NEW new \in Call, new.op # "idle",
             call[d] = Idle, Starts(d, new)
      PROVE  FALSE
  BY <1>1, <1>3, StartLemma
<1>4. call' = call => FALSE
  BY <1>1
<1>5. ASSUME NEW d \in Callers, Proceeds(d), ~MappingReturns(c)
      PROVE  FALSE
  <2>1. ASSUME NEW f \in Families, NEW v \in LegState, SetsLeg(d, f, v)
        PROVE  FALSE
    BY <1>1, <2>1, LegLemma DEF DInv
  <2>2. CASE EndsLeg4(d) \/ Locks6(d) \/ Applies6(d) \/ EndsLeg6(d)
    <3>1. \E f \in Families, v \in LegState : SetsLeg(d, f, v)
      BY <2>2 DEF EndsLeg4, Locks6, Applies6, EndsLeg6, SetsLeg, Families,
                  LegState
    <3>2. QED
      BY <2>1, <3>1
  <2>3. CASE RollsBack(d) \/ ReadsFlag4(d)
    <3>1. call'[c].op = call[c].op
      <4>1. call[d] \in Call
        BY DEF DInv, TypeOK
      <4>2. QED
        BY <2>3, <4>1 DEF RollsBack, ReadsFlag4, DInv, TypeOK, Call
    <3>2. QED
      BY <1>1, <3>1
  <2>4. CASE MappingReturns(d) \/ HealthReturns(d)
    <3>1. call' = [call EXCEPT ![d] = Idle]
      BY <2>4 DEF MappingReturns, HealthReturns
    <3>2. c = d
      BY <1>1, <3>1 DEF DInv, TypeOK
    <3>3. HealthReturns(c)
      BY <1>5, <2>4, <3>2
    <3>4. QED
      BY <1>1, <3>3 DEF HealthReturns, DInv, CallShape
  <2>5. QED
    BY <1>5, <2>2, <2>3, <2>4 DEF Proceeds
<1>6. QED
  <2>1. CASE \E d \in Callers, op \in {"add", "delete"}, k \in Keys :
               MappingCall(d, op, k)
    <3>1. PICK d \in Callers, op \in {"add", "delete"}, k \in Keys :
            MappingCall(d, op, k)
      BY <2>1
    <3> DEFINE leg == [f \in Families |-> IF f \notin Stacks THEN "none"
                                          ELSE IF f = "v4" THEN "run" ELSE "wait"]
               new == [Idle EXCEPT !.op = op, !.key = k, !.leg = leg]
    <3>2. leg \in [Families -> LegState]
      BY DEF LegState, Families
    <3>3. call[d] = Idle /\ Starts(d, new)
      BY <3>1 DEF MappingCall
    <3> HIDE DEF leg
    <3>4. new \in Call /\ new.op # "idle"
      BY <3>2, IdleLemma DEF Call
    <3> HIDE DEF new
    <3>5. QED
      BY <1>3, <3>3, <3>4
  <2>2. CASE \E d \in Callers : CheckServerHealth(d)
    <3>1. PICK d \in Callers : CheckServerHealth(d)
      BY <2>2
    <3> DEFINE leg == [f \in Families |->
                         IF f \in Checkers THEN "run" ELSE "none"]
               new == [Idle EXCEPT !.op = "health", !.leg = leg]
    <3>2. leg \in [Families -> LegState]
      BY DEF LegState, Families
    <3>3. call[d] = Idle /\ Starts(d, new)
      BY <3>1 DEF CheckServerHealth
    <3> HIDE DEF leg
    <3>4. new \in Call /\ new.op # "idle"
      BY <3>2, IdleLemma DEF Call
    <3> HIDE DEF new
    <3>5. QED
      BY <1>3, <3>3, <3>4
  <2>3. CASE \E d \in Callers : Proceeds(d)
    BY <1>2, <1>5, <2>3
  <2>4. CASE UNCHANGED call
    BY <1>4, <2>4
  <2>5. QED
    BY <2>1, <2>2, <2>3, <2>4
       DEF Next, DiscoverPCP, Probes, Expire, ServerRestart, vars

\* The error a call leaves is the truth about its pinhole, if no other call
\* interferes (pcp/nat.go:125-128).
THEOREM ReportsAreTrue == Spec => ReportTruthful
<1>1. ASSUME DInv, [Next]_vars, NEW c \in Callers, Ends(c), call[c].alone,
             "v6" \in Stacks
      PROVE  LET now == pinhole[call[c].key] IN
             CASE pinholeErr' = "nil" /\ call[c].op = "add" -> now # "closed"
               [] pinholeErr' = "nil" /\ call[c].op = "delete" -> now # "open"
               [] pinholeErr' = "rolledBack" -> now # "open"
               [] OTHER -> TRUE
  <2>1. /\ MappingReturns(c) /\ call[c].leg["v6"] # "none"
        /\ call[c].op \in {"add", "delete"}
    BY <1>1, EndLemma DEF Ends
  <2>2. /\ pinholeErr' = Outcome(c) /\ call[c].leg["v6"] \in {"ok", "err"}
        /\ call[c].rollback \in BOOLEAN
    BY <1>1, <2>1, CallLemma DEF MappingReturns, Joined, Families, DInv
  <2>3. call[c].leg["v6"] = "ok" =>
          IF Asks6(c) = "add" THEN pinhole[call[c].key] # "closed"
                              ELSE pinhole[call[c].key] # "open"
    BY <1>1, <2>1 DEF DInv, PinholeKnown
  <2>4. CASE call[c].leg["v6"] = "err"
    BY <2>2, <2>4 DEF Outcome
  <2>5. CASE call[c].leg["v6"] = "ok" /\ call[c].rollback
    BY <2>2, <2>3, <2>5 DEF Outcome, Asks6
  <2>6. CASE call[c].leg["v6"] = "ok" /\ ~call[c].rollback
    BY <2>1, <2>2, <2>3, <2>6 DEF Outcome, Asks6
  <2>7. QED
    BY <2>2, <2>4, <2>5, <2>6
<1>2. DInv /\ [Next]_vars =>
        [\A c \in Callers : Ends(c) /\ call[c].alone /\ "v6" \in Stacks =>
           LET now == pinhole[call[c].key] IN
           CASE pinholeErr' = "nil" /\ call[c].op = "add" -> now # "closed"
             [] pinholeErr' = "nil" /\ call[c].op = "delete" -> now # "open"
             [] pinholeErr' = "rolledBack" -> now # "open"
             [] OTHER -> TRUE]_vars
  BY <1>1
<1>3. QED
  BY <1>2, DInvariant, PTL DEF Spec, ReportTruthful

\* A call whose IPv4 mapping failed undoes its pinhole or says that it could not
\* (pcp/nat.go:191-194).
THEOREM FailuresAreUndone == Spec => FailureUndone
<1>1. ASSUME DInv, [Next]_vars, NEW c \in Callers, Ends(c), call[c].alone,
             call[c].op = "add", call[c].leg["v4"] = "err",
             pinhole[call[c].key] = "open"
      PROVE  pinholeErr' \in {"failed", "leftOpen"}
  <2>1. /\ MappingReturns(c) /\ call[c].key \in Keys
        /\ call[c].leg["v6"] # "none"
    BY <1>1, EndLemma DEF DInv, NeedsGateway
  <2>2. /\ pinholeErr' = Outcome(c) /\ call[c].leg["v6"] \in {"ok", "err"}
        /\ ~MustRollBack(c) /\ call[c].rollback \in BOOLEAN
    BY <1>1, <2>1, CallLemma DEF MappingReturns, Joined, Families, DInv
  <2>3. CASE ~call[c].rollback
    BY <1>1, <2>2, <2>3 DEF Outcome, MustRollBack
  <2>4. CASE call[c].rollback
    <3>1. call[c].leg["v6"] # "ok"
      BY <1>1, <2>4 DEF DInv, PinholeKnown, Asks6
    <3>2. QED
      BY <2>2, <2>4, <3>1 DEF Outcome
  <2>5. QED
    BY <2>2, <2>3, <2>4
<1>2. DInv /\ [Next]_vars =>
        [\A c \in Callers :
           ( /\ Ends(c) /\ call[c].alone
             /\ call[c].op = "add" /\ call[c].leg["v4"] = "err"
             /\ pinhole[call[c].key] = "open" )
               => pinholeErr' \in {"failed", "leftOpen"}]_vars
  BY <1>1
<1>3. QED
  BY <1>2, DInvariant, PTL DEF Spec, FailureUndone
-----------------------------------------------------------------------------
(* No call waits for ever: locks are given back and calls come to an end.  *)

\* What a step in a call does to that call, or that it returns.
LEMMA OwnStep ==
    ASSUME DInv, NEW c \in Callers, Proceeds(c)
    PROVE  /\ \A d \in Callers \ {c} : call'[d] = call[d]
           /\ call'[c] = Idle \/ StepsLeft(c)' < StepsLeft(c)
<1>1. ASSUME NEW f \in Families, NEW v \in LegState, SetsLeg(c, f, v),
             f = "v4" => call[c].leg["v4"] = "run" /\ v # "run",
             f = "v6" => \/ call[c].leg["v6"] = "wait" /\ v = "run"
                         \/ call[c].leg["v6"] = "run" /\ v = "applied"
                         \/ /\ call[c].leg["v6"] \in {"run", "applied"}
                            /\ v \in {"ok", "err"}
      PROVE  /\ \A d \in Callers \ {c} : call'[d] = call[d]
             /\ StepsLeft(c)' < StepsLeft(c)
  <2>1. /\ \A d \in Callers \ {c} : call'[d] = call[d]
        /\ call'[c].op = call[c].op /\ call'[c].rollback = call[c].rollback
        /\ call'[c].flag4 = call[c].flag4 /\ call'[c].leg[f] = v
        /\ f # "v4" => call'[c].leg["v4"] = call[c].leg["v4"]
        /\ f # "v6" => call'[c].leg["v6"] = call[c].leg["v6"]
    BY <1>1, LegLemma DEF DInv
  <2>2. CASE f = "v4"
    BY <1>1, <2>1, <2>2 DEF StepsLeft
  <2>3. CASE f = "v6"
    BY <1>1, <2>1, <2>3 DEF StepsLeft
  <2>4. QED
    BY <2>1, <2>2, <2>3 DEF Families
<1>2. CASE EndsLeg4(c)
  <2>1. PICK v \in {"ok", "err"} : SetsLeg(c, "v4", v)
    BY <1>2 DEF EndsLeg4, SetsLeg
  <2>2. call[c].leg["v4"] = "run"
    BY <1>2 DEF EndsLeg4
  <2>3. QED
    BY <1>1, <2>1, <2>2 DEF Families, LegState
<1>3. CASE Locks6(c) \/ Applies6(c)
  BY <1>1, <1>3 DEF Locks6, Applies6, SetsLeg, Families, LegState
<1>4. CASE EndsLeg6(c)
  <2>1. PICK v \in {"ok", "err"} : SetsLeg(c, "v6", v)
    BY <1>4 DEF EndsLeg6, SetsLeg
  <2>2. call[c].leg["v6"] \in {"run", "applied"}
    BY <1>4 DEF EndsLeg6
  <2>3. QED
    BY <1>1, <2>1, <2>2 DEF Families, LegState
<1>5. CASE RollsBack(c)
  <2>1. /\ call[c].op = "add" /\ ~call[c].rollback /\ call[c].leg["v6"] = "ok"
        /\ call[c].leg["v4"] = "err"
        /\ call' = [call EXCEPT ![c].rollback = TRUE, ![c].leg["v6"] = "wait"]
    BY <1>5 DEF RollsBack, MustRollBack
  <2>2. call[c] \in Call /\ call[c].leg \in [Families -> LegState]
    BY CallLemma DEF DInv
  <2>3. /\ \A d \in Callers \ {c} : call'[d] = call[d]
        /\ call'[c].op = call[c].op /\ call'[c].rollback = TRUE
        /\ call'[c].flag4 = call[c].flag4
        /\ call'[c].leg = [call[c].leg EXCEPT !["v6"] = "wait"]
    BY <2>1, <2>2 DEF DInv, TypeOK, Call
  <2>4. call'[c].leg["v6"] = "wait" /\ call'[c].leg["v4"] = "err"
    BY <2>1, <2>2, <2>3 DEF Families
  <2>5. PICK n \in {0, 1} : n = IF call[c].flag4 = "unread" THEN 1 ELSE 0
    OBVIOUS
  <2>6. StepsLeft(c) = n + 4
    BY <2>1, <2>5 DEF StepsLeft
  <2>7. StepsLeft(c)' = n + 3
    BY <2>3, <2>4, <2>5 DEF StepsLeft
  <2>8. QED
    BY <2>3, <2>6, <2>7
<1>6. CASE MappingReturns(c) \/ HealthReturns(c)
  <2>1. call' = [call EXCEPT ![c] = Idle]
    BY <1>6 DEF MappingReturns, HealthReturns
  <2>2. QED
    BY <2>1 DEF DInv, TypeOK
<1>7. CASE ReadsFlag4(c)
  <2>1. PICK v \in {"raised", "clear"} : call' = [call EXCEPT ![c].flag4 = v]
    BY <1>7 DEF ReadsFlag4
  <2>2. call[c] \in Call /\ call[c].flag4 = "unread"
    BY <1>7, CallLemma DEF ReadsFlag4, DInv
  <2>3. /\ \A d \in Callers \ {c} : call'[d] = call[d]
        /\ call'[c].op = call[c].op /\ call'[c].rollback = call[c].rollback
        /\ call'[c].flag4 = v /\ call'[c].leg = call[c].leg
    BY <2>1, <2>2 DEF DInv, TypeOK, Call
  <2>4. QED
    BY <2>2, <2>3 DEF StepsLeft
<1>8. QED
  BY <1>2, <1>3, <1>4, <1>5, <1>6, <1>7 DEF Proceeds

\* A new call tells those in progress that they are not alone, and no more.
LEMMA OthersStep ==
    ASSUME DInv, NEW c \in Callers, NEW d \in Callers, call[c] = Idle,
           NEW new, Starts(c, new), call[d] # Idle
    PROVE  call'[d] = [call[d] EXCEPT !.alone = FALSE]
BY DEF Starts

\* Every call comes nearer to its end with each of its steps, however many
\* others there are, and has ten of them at most.
THEOREM CallsAreBounded == Spec => CallsEnd
<1>1. DInv /\ [Next]_vars =>
        [\A c \in Callers : call[c] # Idle =>
           \/ call'[c] = Idle
           \/ StepsLeft(c)' < StepsLeft(c)
           \/ \E b \in BOOLEAN : call'[c] = [call[c] EXCEPT !.alone = b]]_vars
  <2> SUFFICES ASSUME DInv, Next, NEW c \in Callers, call[c] # Idle
               PROVE  \/ call'[c] = Idle
                      \/ StepsLeft(c)' < StepsLeft(c)
                      \/ \E b \in BOOLEAN : call'[c] = [call[c] EXCEPT !.alone = b]
    OBVIOUS
  <2>1. CASE call'[c] = call[c]
    <3>1. call[c] = [call[c] EXCEPT !.alone = call[c].alone]
          /\ call[c].alone \in BOOLEAN
      BY DEF DInv, TypeOK, Call
    <3>2. QED
      BY <2>1, <3>1
  <2>2. ASSUME NEW d \in Callers,
               \/ \E op \in {"add", "delete"}, k \in Keys : MappingCall(d, op, k)
               \/ CheckServerHealth(d)
        PROVE  call'[c] = [call[c] EXCEPT !.alone = FALSE]
    <3>1. PICK new : call[d] = Idle /\ Starts(d, new)
      BY <2>2 DEF MappingCall, CheckServerHealth
    <3>2. QED
      BY <3>1, OthersStep
  <2>3. ASSUME NEW d \in Callers, Proceeds(d), call'[c] # call[c]
        PROVE  call'[c] = Idle \/ StepsLeft(c)' < StepsLeft(c)
    <3>1. c = d
      BY <2>3, OwnStep
    <3>2. QED
      BY <2>3, <3>1, OwnStep
  <2>4. CASE \/ DiscoverPCP \/ \E f \in Families : Probes(f)
             \/ \E k \in Keys : Expire(k)
             \/ \E f \in Checkers : ServerRestart(f)
    BY <2>1, <2>4 DEF DiscoverPCP, Probes, Expire, ServerRestart
  <2>5. QED
    BY <2>1, <2>2, <2>3, <2>4 DEF Next
<1>2. QED
  BY <1>1, DInvariant, PTL DEF Spec, CallsEnd

-----------------------------------------------------------------------------
(* Discovery.                                                              *)

\* The half of FoundIsUsed that needs no fairness: no step loses a server that answered,
\* to the other family's failure, to a repeated search or to a gateway that is
\* returned without it (pcp/nat.go:298-321).
FoundIsKept ==
    [][\A f \in Families : probe[f] = "found" \/ f \in Stacks =>
         IF gateway' = "none" THEN probe'[f] = "found" ELSE f \in Stacks']_vars

\* A gateway that is returned has every family that was found.
FoundServes ==
    gateway # "none" =>
        \A f \in Families : \/ probe[f] \in {"none", "failed"}
                            \/ probe[f] = "found" /\ f \in Stacks

\* What DiscoverPCP returns serves all that was found, and only that.
LEMMA ResultLemma ==
    ASSUME TypeOK, DiscoverPCP, NEW f \in Families
    PROVE  IF gateway' = "none"
             THEN probe[f] = "failed" /\ probe'[f] = "asking"
             ELSE probe'[f] = probe[f] /\ (probe[f] = "found" => f \in Stacks')
<1>1. /\ probe \in [Families -> Probe] /\ gateway' = Result
      /\ probe["v4"] \in {"found", "failed"} /\ probe["v6"] \in {"found", "failed"}
      /\ probe' = IF Result = "none" THEN [g \in Families |-> "asking"] ELSE probe
  BY DEF DiscoverPCP, TypeOK, Families
<1>2. \A x, y : probe = [v4 |-> x, v6 |-> y] <=> probe["v4"] = x /\ probe["v6"] = y
  BY <1>1 DEF Families
<1>3. Result = IF probe["v4"] = "found"
                 THEN IF probe["v6"] = "found" THEN "pcp" ELSE "pcp4"
                 ELSE IF probe["v6"] = "found" THEN "pcp6" ELSE "none"
  BY <1>1, <1>2 DEF Result
<1>4. QED
  BY <1>1, <1>3 DEF Stacks, Gateways, Families

LEMMA FoundStep ==
    ASSUME DInv, FoundServes, [Next]_vars
    PROVE  /\ FoundServes'
           /\ \A f \in Families : probe[f] = "found" \/ f \in Stacks =>
                IF gateway' = "none" THEN probe'[f] = "found" ELSE f \in Stacks'
<1>1. TypeOK /\ Gateways["none"].stacks = {}
  BY DEF DInv, Gateways
<1>2. CASE DiscoverPCP
  <2>1. gateway = "none"
    BY <1>2 DEF DiscoverPCP
  <2>2. FoundServes'
    <3>1. ASSUME NEW f \in Families, gateway' # "none"
          PROVE  \/ probe'[f] \in {"none", "failed"}
                 \/ probe'[f] = "found" /\ f \in Stacks'
      BY <1>1, <1>2, <3>1, ResultLemma DEF DiscoverPCP
    <3>2. QED
      BY <3>1 DEF FoundServes
  <2>3. QED
    BY <1>1, <1>2, <2>1, <2>2, ResultLemma DEF Stacks
<1>3. ASSUME NEW g \in Families, Probes(g)
      PROVE  /\ gateway = "none" /\ gateway' = "none"
             /\ \A f \in Families : probe[f] = "found" => probe'[f] = "found"
  <2>1. probe[g] = "asking" /\ UNCHANGED gateway
        /\ \E outcome \in {"found", "failed"} :
             probe' = [probe EXCEPT ![g] = outcome]
    BY <1>3 DEF Probes
  <2>2. gateway = "none"
    BY <2>1 DEF FoundServes
  <2>3. QED
    BY <1>1, <2>1, <2>2 DEF TypeOK
<1>4. ASSUME UNCHANGED <<gateway, probe>>
      PROVE  /\ FoundServes'
             /\ \A f \in Families : probe[f] = "found" \/ f \in Stacks =>
                  IF gateway' = "none" THEN probe'[f] = "found" ELSE f \in Stacks'
  BY <1>1, <1>4 DEF FoundServes, Stacks
<1>5. CASE ~DiscoverPCP /\ ~\E g \in Families : Probes(g)
  <2>1. UNCHANGED <<gateway, probe>>
    BY <1>5 DEF Next, Proceeds, MappingCall, CheckServerHealth, EndsLeg4, Locks6,
       Applies6, EndsLeg6, RollsBack, MappingReturns, ReadsFlag4, HealthReturns,
       Expire, ServerRestart, vars
  <2>2. QED
    BY <1>4, <2>1
<1>6. QED
  BY <1>1, <1>2, <1>3, <1>5 DEF FoundServes, Stacks

\* No step of discovery, or after it, loses a server that answered: the gateway
\* that is returned serves every family on which one did, and stays.
THEOREM FoundIsNotLost == Spec => FoundIsKept
<1>1. Init => FoundServes
  BY DEF Init, FoundServes
<1>2. DInv /\ FoundServes /\ [Next]_vars =>
        [\A f \in Families : probe[f] = "found" \/ f \in Stacks =>
           IF gateway' = "none" THEN probe'[f] = "found" ELSE f \in Stacks']_vars
  BY FoundStep
<1>3. QED
  BY <1>1, <1>2, FoundStep, DInvariant, PTL DEF Spec, FoundIsKept

=============================================================================
