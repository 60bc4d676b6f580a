----------------------------- MODULE NATPMPProofs -----------------------------
(* Theorems about NATPMPMapping, for all values of the constants: its       *)
(* safety properties, and that it keeps the promise of the NAT interface    *)
(* (MappingPromise) for every mapping it was never asked to delete.         *)
EXTENDS NATPMPMapping, TLAPS

-----------------------------------------------------------------------------
(* The inductive invariant.                                                *)

\* The local variables of a call, by where it is.
CallShape ==
    \A c \in Callers :
        /\ call[c].pc = "idle" <=> call[c] = Idle
        /\ call[c].pc # "idle" => call[c].key \in Keys
        /\ call[c].pc # "wait" => call[c].reply = "none"
        /\ call[c].pc = "wait" => call[c].port \in ExtPorts
        /\ call[c].pc = "send" /\ call[c].attempt = 0 =>
             call[c].port \in ExtPorts

\* The gateway's mappings for this process are there or were dropped.
OursKnown ==
    /\ \A k \in ours : table[k] # NoPort \/ k \in lapsed
    /\ \A c \in Callers : call[c].reply \in ExtPorts => call[c].key \in ours

CallsOn(p) == {c \in Callers : call[c].pc # "idle" /\ call[c].key.port = p}

\* What holds of an internal port as long as nothing has come between the cache
\* and the gateway: at most one call, a create, and every mapping of either
\* protocol at the cached port or at the one that call has been granted.
Undisturbed(p) ==
    /\ \A c, d \in CallsOn(p) : c = d
    /\ \A c \in CallsOn(p) :
         /\ call[c].pc # "forget"
         /\ call[c].pc \in {"send", "wait"} =>
              IF call[c].attempt = 0 THEN call[c].port = ports[p]
                                     ELSE ports[p] = NoPort
         /\ call[c].reply \in ExtPorts =>
              table[call[c].key] \in {call[c].port, NoPort}
    /\ \A k \in Keys : k.port = p /\ table[k] # NoPort =>
         \/ table[k] = ports[p]
         \/ \E c \in CallsOn(p) : /\ call[c].key = k
                                  /\ call[c].reply \in ExtPorts
                                  /\ table[k] = call[c].port

MInv ==
    /\ TypeOK
    /\ CallShape
    /\ OursKnown
    /\ \A p \in InternalPorts \ disturbed : Undisturbed(p)

-----------------------------------------------------------------------------
LEMMA IdleLemma ==
    /\ Idle \in Call /\ Idle.pc = "idle" /\ Idle.key = NoKey
    /\ Idle.reply = "none"
    /\ \A pc \in {"look", "forget"}, k \in Keys :
         /\ Asks(pc, k) \in Call /\ Asks(pc, k).pc = pc /\ Asks(pc, k).key = k
         /\ Asks(pc, k).reply = "none"
BY ConstantAssumption DEF Idle, Asks, Call

LEMMA KeyLemma == \A k \in Keys : k \notin {NoKey} /\ k.port \in InternalPorts
BY KeyAssumption DEF Keys

\* What a step of a caller does not touch.
LEMMA Elsewhere ==
    ASSUME NEW q, Undisturbed(q), NEW c \in Callers,
           \A d \in Callers \ {c} : call'[d] = call[d],
           c \notin CallsOn(q), c \notin CallsOn(q)',
           ports'[q] = ports[q],
           \A k \in Keys : k.port = q => table'[k] = table[k],
           \A d \in CallsOn(q) : call[d].key \in Keys
    PROVE  Undisturbed(q)'
<1>1. CallsOn(q)' = CallsOn(q)
  BY DEF CallsOn
<1>2. /\ \A d \in CallsOn(q) : call'[d] = call[d] /\ call[d].key.port = q
      /\ CallsOn(q) \subseteq Callers
  BY DEF CallsOn
<1>3. QED
  BY <1>1, <1>2 DEF Undisturbed

LEMMA MInit == Init => MInv
<1> SUFFICES ASSUME Init PROVE MInv
  OBVIOUS
<1>1. call \in [Callers -> Call] /\ \A c \in Callers : call[c] = Idle
  BY IdleLemma DEF Init
<1>2. Inherited \subseteq InternalPorts
  BY KeyLemma DEF Inherited
<1>3. TypeOK
  BY <1>1, <1>2 DEF Init, TypeOK
<1>4. CallShape /\ OursKnown
  BY <1>1, IdleLemma, ConstantAssumption DEF Init, CallShape, OursKnown
<1>5. ASSUME NEW p \in InternalPorts \ disturbed
      PROVE  Undisturbed(p)
  <2>1. CallsOn(p) = {}
    BY <1>1, IdleLemma DEF CallsOn
  <2>2. \A k \in Keys : k.port = p => table[k] = NoPort
    BY <1>5 DEF Init, Inherited
  <2>3. QED
    BY <2>1, <2>2 DEF Undisturbed
<1>6. QED
  BY <1>3, <1>4, <1>5 DEF MInv

\* A step of a caller that leaves the gateway alone: what it means for types and
\* for the port of the call.
LEMMA CallerKeeps ==
    ASSUME MInv, NEW c \in Callers, NEW new \in Call, NEW p \in InternalPorts,
           call' = [call EXCEPT ![c] = new],
           call[c].pc # "idle" => call[c].key.port = p,
           /\ new.pc = "idle" <=> new = Idle
           /\ new.pc # "idle" => new.key \in Keys /\ new.key.port = p
           /\ new.pc # "wait" => new.reply = "none"
           /\ new.pc = "wait" => new.port \in ExtPorts
           /\ new.pc = "send" /\ new.attempt = 0 => new.port \in ExtPorts,
           new.reply \in ExtPorts => new.key \in ours,
           UNCHANGED <<table, ours, lapsed>>,
           ports' \in [InternalPorts -> ExtPorts \cup {NoPort}],
           \A q \in InternalPorts \ {p} : ports'[q] = ports[q],
           forgotten' \subseteq Keys,
           disturbed \subseteq disturbed', disturbed' \subseteq disturbed \cup {p},
           p \notin disturbed' => Undisturbed(p)'
    PROVE  MInv'
<1>1. /\ call' \in [Callers -> Call] /\ call'[c] = new
      /\ \A d \in Callers \ {c} : call'[d] = call[d]
  BY DEF MInv, TypeOK
<1>2. TypeOK'
  BY <1>1 DEF MInv, TypeOK, Free
<1>3. CallShape'
  BY <1>1 DEF MInv, CallShape
<1>4. OursKnown'
  BY <1>1 DEF MInv, OursKnown
<1>5. ASSUME NEW q \in InternalPorts \ disturbed'
      PROVE  Undisturbed(q)'
  <2>1. CASE q = p
    BY <1>5, <2>1
  <2>2. CASE q # p
    <3>1. Undisturbed(q)
      BY <1>5, <2>2 DEF MInv
    <3>2. c \notin CallsOn(q) /\ c \notin CallsOn(q)'
      BY <1>1, <2>2 DEF CallsOn
    <3>3. \A d \in CallsOn(q) : call[d].key \in Keys
      BY DEF CallsOn, MInv, CallShape
    <3>4. QED
      BY <1>1, <2>2, <3>1, <3>2, <3>3, Elsewhere
  <2>3. QED
    BY <2>1, <2>2
<1>6. QED
  BY <1>2, <1>3, <1>4, <1>5 DEF MInv

\* The only call on a port.
LEMMA OnlyCall ==
    ASSUME MInv, NEW c \in Callers, NEW p \in InternalPorts \ disturbed,
           call[c].pc # "idle", call[c].key.port = p,
           \A d \in Callers \ {c} : call'[d] = call[d]
    PROVE  /\ Undisturbed(p) /\ CallsOn(p) = {c}
           /\ CallsOn(p)' = IF call'[c].pc # "idle" /\ call'[c].key.port = p
                              THEN {c} ELSE {}
<1>1. Undisturbed(p) /\ c \in CallsOn(p)
  BY DEF MInv, CallsOn
<1>2. CallsOn(p) = {c}
  BY <1>1 DEF Undisturbed
<1>3. \A d \in Callers \ {c} : d \notin CallsOn(p)'
  BY <1>2 DEF CallsOn
<1>4. QED
  BY <1>1, <1>2, <1>3 DEF CallsOn

LEMMA BeginsKeeps ==
    ASSUME MInv, NEW c \in Callers, NEW k \in Keys,
           AddPortMapping(c, k) \/ DeletePortMapping(c, k)
    PROVE  MInv'
<1>1. /\ call[c] = Idle /\ UNCHANGED <<ports, table, ours, lapsed, forgotten>>
      /\ disturbed \subseteq disturbed' /\ disturbed' \subseteq disturbed \cup {k.port}
  BY DEF AddPortMapping, DeletePortMapping, DisturbedIf
<1>2. PICK pc \in {"look", "forget"} :
        /\ call' = [call EXCEPT ![c] = Asks(pc, k)]
        /\ pc = "forget" \/ Overlaps(c, k) => k.port \in disturbed'
  BY DEF AddPortMapping, DeletePortMapping, DisturbedIf
<1> DEFINE new == Asks(pc, k)
           p == k.port
<1>3. /\ new \in Call /\ new.pc = pc /\ new.key = k /\ new.reply = "none"
      /\ p \in InternalPorts /\ Idle.pc = "idle"
  BY IdleLemma, KeyLemma
<1>4. call' = [call EXCEPT ![c] = new]
  BY <1>2
<1> HIDE DEF new
<1>5. /\ call'[c] = new /\ \A d \in Callers \ {c} : call'[d] = call[d]
  BY <1>3, <1>4 DEF MInv, TypeOK
<1>6. ASSUME p \notin disturbed'
      PROVE  Undisturbed(p)'
  <2>1. Undisturbed(p) /\ pc = "look"
    BY <1>1, <1>2, <1>3, <1>6 DEF MInv
  <2>2. \A d \in Callers : d \notin CallsOn(p)
    BY <1>1, <1>2, <1>3, <1>6, IdleLemma DEF CallsOn, Overlaps
  <2>3. CallsOn(p)' = {c}
    BY <1>3, <1>5, <2>1, <2>2 DEF CallsOn
  <2>4. \A j \in Keys : j.port = p /\ table[j] # NoPort => table[j] = ports[p]
    BY <2>1, <2>2 DEF Undisturbed, CallsOn
  <2>5. QED
    BY <1>1, <1>3, <1>5, <2>1, <2>3, <2>4, ConstantAssumption DEF Undisturbed
<1> HIDE DEF p
<1>7. forgotten' \subseteq Keys /\ ports' \in [InternalPorts -> ExtPorts \cup {NoPort}]
  BY <1>1 DEF MInv, TypeOK
<1>8. new.reply \notin ExtPorts
  BY <1>3, ConstantAssumption
<1>9. /\ new.pc = "idle" <=> new = Idle
      /\ new.pc # "idle" => new.key \in Keys /\ new.key.port = p
      /\ new.pc # "wait" => new.reply = "none"
      /\ new.pc = "wait" => new.port \in ExtPorts
      /\ new.pc = "send" /\ new.attempt = 0 => new.port \in ExtPorts
  BY <1>3 DEF p
<1>10. QED
  BY <1>1, <1>3, <1>4, <1>6, <1>7, <1>8, <1>9, CallerKeeps DEF p

\* What the only call on an undisturbed port looks like.
LEMMA Alone ==
    ASSUME MInv, NEW c \in Callers, NEW p \in InternalPorts \ disturbed,
           call[c].pc # "idle", call[c].key.port = p
    PROVE  /\ call[c].pc # "forget"
           /\ call[c].pc \in {"send", "wait"} =>
                IF call[c].attempt = 0 THEN call[c].port = ports[p]
                                       ELSE ports[p] = NoPort
           /\ call[c].reply \in ExtPorts =>
                table[call[c].key] \in {call[c].port, NoPort}
           /\ \A k \in Keys : k.port = p /\ table[k] # NoPort =>
                \/ table[k] = ports[p]
                \/ /\ call[c].key = k /\ call[c].reply \in ExtPorts
                   /\ table[k] = call[c].port
<1>1. Undisturbed(p) /\ c \in CallsOn(p)
  BY DEF MInv, CallsOn
<1>2. QED
  BY <1>1 DEF Undisturbed

LEMMA CallLemma ==
    ASSUME MInv, NEW c \in Callers, call[c].pc # "idle"
    PROVE  /\ call[c] \in Call /\ call[c].key \in Keys
           /\ call[c].key.port \in InternalPorts
BY KeyLemma DEF MInv, TypeOK, CallShape

LEMMA ForgetsKeeps ==
    ASSUME MInv, NEW c \in Callers, Forgets(c)
    PROVE  MInv'
<1> DEFINE p == call[c].key.port
<1>1. /\ call[c].pc = "forget" /\ call[c].key \in Keys /\ p \in InternalPorts
  BY CallLemma DEF Forgets
<1>2. p \in disturbed
  BY <1>1, Alone
<1>3. /\ call' = [call EXCEPT ![c] = Idle]
      /\ ports' = [ports EXCEPT ![p] = NoPort]
      /\ forgotten' = forgotten \cup {call[c].key}
      /\ UNCHANGED <<table, ours, lapsed, disturbed>>
  BY DEF Forgets
<1> HIDE DEF p
<1>4. /\ ports' \in [InternalPorts -> ExtPorts \cup {NoPort}]
      /\ \A q \in InternalPorts \ {p} : ports'[q] = ports[q]
  BY <1>3 DEF MInv, TypeOK
<1>5. forgotten' \subseteq Keys
  BY <1>1, <1>3 DEF MInv, TypeOK
<1>6. Idle.reply \notin ExtPorts
  BY IdleLemma, ConstantAssumption
<1>7. call[c].pc # "idle" => call[c].key.port = p
  BY DEF p
<1>8. QED
  BY <1>1, <1>2, <1>3, <1>4, <1>5, <1>6, <1>7, IdleLemma, CallerKeeps

LEMMA LooksKeeps ==
    ASSUME MInv, NEW c \in Callers, Looks(c)
    PROVE  MInv'
<1>0. PICK p \in InternalPorts : p = call[c].key.port
  BY CallLemma DEF Looks
<1> DEFINE first == IF ports[p] = NoPort THEN 1 ELSE 0
           new == [call[c] EXCEPT !.pc = "send", !.port = ports[p],
                                  !.attempt = first]
<1>1. /\ call[c].pc = "look" /\ call[c].key \in Keys
      /\ call[c] \in Call
  BY CallLemma DEF Looks
<1>2. call[c].reply = "none"
  BY <1>1 DEF MInv, CallShape
<1>3. ports[p] \in ExtPorts \cup {NoPort} /\ first \in 0 .. RandomTries
  BY <1>0, <1>1, ConstantAssumption DEF MInv, TypeOK
<1>4. /\ new \in Call /\ new.pc = "send" /\ new.port = ports[p]
      /\ new.attempt = first /\ new.reply = "none" /\ new.key = call[c].key
  BY <1>1, <1>2, <1>3 DEF Call
<1>5. /\ call' = [call EXCEPT ![c] = new]
      /\ UNCHANGED <<ports, table, ours, lapsed, forgotten, disturbed>>
  BY <1>0 DEF Looks, Cached
<1>6. first = 0 <=> ports[p] # NoPort
  OBVIOUS
<1> HIDE DEF new, first
<1>7. ASSUME p \notin disturbed'
      PROVE  Undisturbed(p)'
  <2>1. /\ call'[c] = new /\ \A d \in Callers \ {c} : call'[d] = call[d]
    BY <1>5 DEF MInv, TypeOK
  <2>2. CallsOn(p)' = {c}
    <3>1. p \in InternalPorts \ disturbed /\ call[c].pc # "idle" /\ call[c].key.port = p
      BY <1>0, <1>1, <1>5, <1>7
    <3>2. CallsOn(p)' = IF call'[c].pc # "idle" /\ call'[c].key.port = p
                          THEN {c} ELSE {}
      BY <2>1, <3>1, OnlyCall
    <3>3. call'[c].pc # "idle" /\ call'[c].key.port = p
      BY <1>4, <2>1, <3>1
    <3>4. QED
      BY <3>2, <3>3
  <2>3. \A k \in Keys : k.port = p /\ table[k] # NoPort => table[k] = ports[p]
    <3>1. p \in InternalPorts \ disturbed /\ call[c].key.port = p
      BY <1>0, <1>5, <1>7
    <3>2. call[c].pc # "idle" /\ call[c].reply \notin ExtPorts
      BY <1>1, <1>2, ConstantAssumption
    <3>3. QED
      BY <3>1, <3>2, Alone
  <2>4. ports' = ports /\ table' = table
    BY <1>5
  <2>5. /\ call'[c].pc = "send" /\ call'[c].reply \notin ExtPorts
        /\ IF call'[c].attempt = 0 THEN call'[c].port = ports[p]
                                   ELSE ports[p] = NoPort
    BY <1>4, <1>6, <2>1, ConstantAssumption
  <2>6. QED
    BY <2>2, <2>3, <2>4, <2>5 DEF Undisturbed
<1>8. forgotten' \subseteq Keys /\ ports' \in [InternalPorts -> ExtPorts \cup {NoPort}]
  BY <1>5 DEF MInv, TypeOK
<1>9. /\ new.pc = "idle" <=> new = Idle
      /\ new.pc # "idle" => new.key \in Keys /\ new.key.port = p
      /\ new.pc # "wait" => new.reply = "none"
      /\ new.pc = "wait" => new.port \in ExtPorts
      /\ new.pc = "send" /\ new.attempt = 0 => new.port \in ExtPorts
  BY <1>0, <1>1, <1>3, <1>4, <1>6, ConstantAssumption, IdleLemma
<1>10. new.reply \notin ExtPorts /\ call[c].key.port = p
  BY <1>0, <1>4, ConstantAssumption
<1>11. /\ \A q \in InternalPorts \ {p} : ports'[q] = ports[q]
       /\ disturbed \subseteq disturbed' /\ disturbed' \subseteq disturbed \cup {p}
       /\ UNCHANGED <<table, ours, lapsed>>
  BY <1>5
<1>12. QED
  BY <1>0, <1>1, <1>4, <1>5, <1>7, <1>8, <1>9, <1>10, <1>11, CallerKeeps

LEMMA SendsKeeps ==
    ASSUME MInv, NEW c \in Callers, Sends(c)
    PROVE  MInv'
<1>0. PICK p \in InternalPorts : p = call[c].key.port
  BY CallLemma DEF Sends, AttemptFails
<1>1. /\ call[c].pc = "send" /\ call[c].key \in Keys
      /\ call[c] \in Call
  BY CallLemma DEF Sends
<1>2. call[c].reply = "none" /\ (call[c].attempt = 0 => call[c].port \in ExtPorts)
  BY <1>1 DEF MInv, CallShape
<1>3. PICK e \in ExtPorts :
        /\ call' = [call EXCEPT ![c].pc = "wait", ![c].port = e]
        /\ call[c].attempt = 0 => e = call[c].port
  BY <1>2 DEF Sends, Suggestions
<1> DEFINE new == [call[c] EXCEPT !.pc = "wait", !.port = e]
<1>4. /\ new \in Call /\ new.pc = "wait" /\ new.port = e /\ new.reply = "none"
      /\ new.attempt = call[c].attempt /\ new.key = call[c].key
  BY <1>1, <1>2 DEF Call
<1>5. /\ call' = [call EXCEPT ![c] = new]
      /\ UNCHANGED <<ports, table, ours, lapsed, forgotten, disturbed>>
  BY <1>3 DEF Sends
<1> HIDE DEF new
<1>6. ASSUME p \notin disturbed'
      PROVE  Undisturbed(p)'
  <2>1. /\ call'[c] = new /\ \A d \in Callers \ {c} : call'[d] = call[d]
    BY <1>5 DEF MInv, TypeOK
  <2>2. CallsOn(p)' = {c}
    <3>1. p \in InternalPorts \ disturbed /\ call[c].pc # "idle" /\ call[c].key.port = p
      BY <1>0, <1>1, <1>5, <1>6
    <3>2. CallsOn(p)' = IF call'[c].pc # "idle" /\ call'[c].key.port = p
                          THEN {c} ELSE {}
      BY <2>1, <3>1, OnlyCall
    <3>3. call'[c].pc # "idle" /\ call'[c].key.port = p
      BY <1>4, <2>1, <3>1
    <3>4. QED
      BY <3>2, <3>3
  <2>3. /\ \A k \in Keys : k.port = p /\ table[k] # NoPort => table[k] = ports[p]
        /\ IF call[c].attempt = 0 THEN call[c].port = ports[p]
                                  ELSE ports[p] = NoPort
    <3>1. p \in InternalPorts \ disturbed /\ call[c].key.port = p
      BY <1>0, <1>5, <1>6
    <3>2. call[c].pc # "idle" /\ call[c].reply \notin ExtPorts
      BY <1>1, <1>2, ConstantAssumption
    <3>3. QED
      BY <1>1, <3>1, <3>2, Alone
  <2>4. ports' = ports /\ table' = table
    BY <1>5
  <2>5. /\ call'[c].pc = "wait" /\ call'[c].reply \notin ExtPorts
        /\ IF call'[c].attempt = 0 THEN call'[c].port = ports[p]
                                   ELSE ports[p] = NoPort
    BY <1>2, <1>3, <1>4, <2>1, <2>3, ConstantAssumption
  <2>6. QED
    BY <2>2, <2>3, <2>4, <2>5 DEF Undisturbed
<1>7. forgotten' \subseteq Keys /\ ports' \in [InternalPorts -> ExtPorts \cup {NoPort}]
  BY <1>5 DEF MInv, TypeOK
<1>8. /\ new.pc = "idle" <=> new = Idle
      /\ new.pc # "idle" => new.key \in Keys /\ new.key.port = p
      /\ new.pc # "wait" => new.reply = "none"
      /\ new.pc = "wait" => new.port \in ExtPorts
      /\ new.pc = "send" /\ new.attempt = 0 => new.port \in ExtPorts
  BY <1>0, <1>1, <1>3, <1>4, IdleLemma
<1>9. new.reply \notin ExtPorts /\ call[c].key.port = p
  BY <1>0, <1>4, ConstantAssumption
<1>10. /\ \A q \in InternalPorts \ {p} : ports'[q] = ports[q]
       /\ disturbed \subseteq disturbed' /\ disturbed' \subseteq disturbed \cup {p}
       /\ UNCHANGED <<table, ours, lapsed>>
  BY <1>5
<1>11. QED
  BY <1>0, <1>1, <1>4, <1>5, <1>6, <1>7, <1>8, <1>9, <1>10, CallerKeeps


\* A call that ends.
LEMMA EndKeeps ==
    ASSUME MInv, NEW c \in Callers, NEW p \in InternalPorts,
           call[c].pc # "idle", call[c].key.port = p,
           call' = [call EXCEPT ![c] = Idle],
           UNCHANGED <<table, ours, lapsed>>,
           ports' \in [InternalPorts -> ExtPorts \cup {NoPort}],
           \A q \in InternalPorts \ {p} : ports'[q] = ports[q],
           forgotten' \subseteq Keys,
           disturbed \subseteq disturbed', disturbed' \subseteq disturbed \cup {p},
           p \notin disturbed' =>
             \A k \in Keys : k.port = p /\ table[k] # NoPort => table[k] = ports'[p]
    PROVE  MInv'
<1> DEFINE new == Idle
<1>1. new \in Call /\ new.pc = "idle" /\ new.reply = "none"
  BY IdleLemma
<1>2. /\ new.pc = "idle" <=> new = Idle
      /\ new.pc # "idle" => new.key \in Keys /\ new.key.port = p
      /\ new.pc # "wait" => new.reply = "none"
      /\ new.pc = "wait" => new.port \in ExtPorts
      /\ new.pc = "send" /\ new.attempt = 0 => new.port \in ExtPorts
  BY <1>1
<1>3. call' = [call EXCEPT ![c] = new]
  OBVIOUS
<1> HIDE DEF new
<1>4. call'[c] = new /\ \A d \in Callers \ {c} : call'[d] = call[d]
  BY <1>3 DEF MInv, TypeOK
<1>5. ASSUME p \notin disturbed'
      PROVE  Undisturbed(p)'
  <2>1. CallsOn(p)' = IF call'[c].pc # "idle" /\ call'[c].key.port = p
                        THEN {c} ELSE {}
    BY <1>4, <1>5, OnlyCall
  <2>2. CallsOn(p)' = {}
    BY <1>1, <1>4, <2>1
  <2>3. QED
    BY <1>5, <2>2 DEF Undisturbed
<1>6. new.reply \notin ExtPorts
  BY <1>1, ConstantAssumption
<1>7. QED
  BY <1>1, <1>2, <1>3, <1>5, <1>6, CallerKeeps

\* The port that is stored is the one where every mapping of it is.
LEMMA SucceedsKeeps ==
    ASSUME MInv, NEW c \in Callers, Succeeds(c)
    PROVE  MInv'
<1> DEFINE p == call[c].key.port
<1>1. /\ call[c].pc = "wait" /\ call[c].key \in Keys /\ p \in InternalPorts
      /\ call[c] \in Call
  BY CallLemma DEF Succeeds, Granted
<1>2. call[c].port \in ExtPorts
  BY <1>1 DEF MInv, CallShape
<1>3. /\ call' = [call EXCEPT ![c] = Idle]
      /\ ports' = [ports EXCEPT ![p] = call[c].port]
      /\ UNCHANGED <<table, ours, lapsed, forgotten, disturbed>>
  BY DEF Succeeds
<1>4. /\ ports' \in [InternalPorts -> ExtPorts \cup {NoPort}]
      /\ ports'[p] = call[c].port
      /\ \A q \in InternalPorts \ {p} : ports'[q] = ports[q]
  BY <1>1, <1>2, <1>3 DEF MInv, TypeOK
<1>5. call[c].key.port = p
  OBVIOUS
<1> HIDE DEF p
<1>6. ASSUME p \notin disturbed'
      PROVE  \A k \in Keys : k.port = p /\ table[k] # NoPort => table[k] = ports'[p]
  <2>1. /\ IF call[c].attempt = 0 THEN call[c].port = ports[p]
                                  ELSE ports[p] = NoPort
        /\ \A k \in Keys : k.port = p /\ table[k] # NoPort =>
             table[k] = ports[p] \/ table[k] = call[c].port
    BY <1>1, <1>3, <1>5, <1>6, Alone
  <2>2. QED
    BY <1>4, <2>1
<1>7. forgotten' \subseteq Keys
  BY <1>3 DEF MInv, TypeOK
<1>8. /\ disturbed \subseteq disturbed' /\ disturbed' \subseteq disturbed \cup {p}
      /\ UNCHANGED <<table, ours, lapsed>> /\ call[c].pc # "idle"
  BY <1>1, <1>3
<1>9. QED
  BY <1>1, <1>3, <1>4, <1>5, <1>6, <1>7, <1>8, EndKeeps

LEMMA AttemptFailsKeeps ==
    ASSUME MInv, NEW c \in Callers, AttemptFails(c)
    PROVE  MInv'
<1>0. PICK p \in InternalPorts : p = call[c].key.port
  BY CallLemma DEF Sends, AttemptFails
<1>1. /\ call[c].pc = "wait" /\ call[c].key \in Keys
      /\ call[c] \in Call
  BY CallLemma DEF AttemptFails
<1>2. /\ UNCHANGED <<ports, table, ours, lapsed, forgotten>>
      /\ disturbed \subseteq disturbed' /\ disturbed' \subseteq disturbed \cup {p}
      /\ Granted(c) \/ call[c].attempt = 0 => p \in disturbed'
  BY <1>0 DEF AttemptFails, DisturbedIf
<1>3. /\ ports' \in [InternalPorts -> ExtPorts \cup {NoPort}]
      /\ \A q \in InternalPorts \ {p} : ports'[q] = ports[q]
      /\ forgotten' \subseteq Keys /\ UNCHANGED <<table, ours, lapsed>>
  BY <1>2 DEF MInv, TypeOK
<1>4. call[c].key.port = p
  BY <1>0
<1>5. ASSUME p \notin disturbed'
      PROVE  /\ ports[p] = NoPort /\ call[c].attempt # 0
             /\ \A k \in Keys : k.port = p => table[k] = NoPort
  BY <1>1, <1>2, <1>4, <1>5, Alone DEF Granted
<1>6. CASE LastAttempt(c)
  <2>1. call' = [call EXCEPT ![c] = Idle]
    BY <1>6 DEF AttemptFails
  <2>2. p \notin disturbed' =>
          \A k \in Keys : k.port = p /\ table[k] # NoPort => table[k] = ports'[p]
    BY <1>5
  <2>3. QED
    BY <1>1, <1>2, <1>3, <1>4, <2>1, <2>2, EndKeeps
<1>7. CASE ~LastAttempt(c)
  <2>1. call[c].attempt \in 0 .. RandomTries /\ call[c].attempt # RandomTries
    BY <1>1, <1>7 DEF Call, LastAttempt
  <2>2. PICK a \in 0 .. RandomTries : a = call[c].attempt + 1 /\ a # 0
    BY <2>1, ConstantAssumption
  <2> DEFINE new == [call[c] EXCEPT !.pc = "send", !.attempt = a,
                                    !.port = NoPort, !.reply = "none"]
  <2>3. /\ new \in Call /\ new.pc = "send" /\ new.reply = "none"
        /\ new.attempt # 0 /\ new.key = call[c].key
    BY <1>1, <2>2 DEF Call
  <2>4. call' = [call EXCEPT ![c] = new]
    BY <1>7, <2>2 DEF AttemptFails
  <2> HIDE DEF new
  <2>5. call'[c] = new /\ \A d \in Callers \ {c} : call'[d] = call[d]
    BY <2>4 DEF MInv, TypeOK
  <2>6. ASSUME p \notin disturbed'
        PROVE  Undisturbed(p)'
    <3>1. CallsOn(p)' = {c}
      BY <1>1, <1>2, <1>4, <2>3, <2>5, <2>6, OnlyCall
    <3>2. QED
      BY <1>2, <1>5, <2>3, <2>5, <2>6, <3>1, ConstantAssumption DEF Undisturbed
  <2>7. /\ new.pc = "idle" <=> new = Idle
        /\ new.pc # "idle" => new.key \in Keys /\ new.key.port = p
        /\ new.pc # "wait" => new.reply = "none"
        /\ new.pc = "wait" => new.port \in ExtPorts
        /\ new.pc = "send" /\ new.attempt = 0 => new.port \in ExtPorts
    BY <1>1, <1>4, <2>3, IdleLemma
  <2>8. new.reply \notin ExtPorts
    BY <2>3, ConstantAssumption
  <2>9. QED
    BY <1>1, <1>2, <1>3, <1>4, <2>3, <2>4, <2>6, <2>7, <2>8, CallerKeeps
<1>8. QED
  BY <1>6, <1>7

LEMMA RefusesKeeps ==
    ASSUME MInv, NEW c \in Callers, GatewayRefuses(c)
    PROVE  MInv'
<1>0. PICK p \in InternalPorts : p = call[c].key.port
  BY CallLemma DEF GatewayRefuses
<1>1. call[c].pc = "wait" /\ call[c].key \in Keys /\ call[c] \in Call
  BY CallLemma DEF GatewayRefuses
<1>2. call[c].port \in ExtPorts /\ call[c].reply = "none"
  BY <1>1 DEF MInv, CallShape, GatewayRefuses
<1> DEFINE new == [call[c] EXCEPT !.reply = "refused"]
<1>3. /\ new \in Call /\ new.pc = "wait" /\ new.reply = "refused"
      /\ new.port = call[c].port /\ new.attempt = call[c].attempt
      /\ new.key = call[c].key
  BY <1>1 DEF Call
<1>4. /\ call' = [call EXCEPT ![c] = new]
      /\ UNCHANGED <<ports, table, ours, lapsed, forgotten, disturbed>>
  BY DEF GatewayRefuses
<1> HIDE DEF new
<1>5. ASSUME p \notin disturbed'
      PROVE  Undisturbed(p)'
  <2>1. /\ call'[c] = new /\ \A d \in Callers \ {c} : call'[d] = call[d]
    BY <1>4 DEF MInv, TypeOK
  <2>2. CallsOn(p)' = {c}
    BY <1>0, <1>1, <1>3, <1>4, <1>5, <2>1, OnlyCall
  <2>3. /\ \A k \in Keys : k.port = p /\ table[k] # NoPort => table[k] = ports[p]
        /\ IF call[c].attempt = 0 THEN call[c].port = ports[p]
                                  ELSE ports[p] = NoPort
    BY <1>0, <1>1, <1>2, <1>4, <1>5, Alone, ConstantAssumption
  <2>4. QED
    BY <1>3, <1>4, <2>1, <2>2, <2>3, ConstantAssumption DEF Undisturbed
<1>6. forgotten' \subseteq Keys /\ ports' \in [InternalPorts -> ExtPorts \cup {NoPort}]
  BY <1>4 DEF MInv, TypeOK
<1>7. /\ new.pc = "idle" <=> new = Idle
      /\ new.pc # "idle" => new.key \in Keys /\ new.key.port = p
      /\ new.pc # "wait" => new.reply = "none"
      /\ new.pc = "wait" => new.port \in ExtPorts
      /\ new.pc = "send" /\ new.attempt = 0 => new.port \in ExtPorts
  BY <1>0, <1>1, <1>2, <1>3, IdleLemma
<1>8. new.reply \notin ExtPorts /\ call[c].key.port = p
  BY <1>0, <1>3, ConstantAssumption
<1>9. /\ \A q \in InternalPorts \ {p} : ports'[q] = ports[q]
      /\ disturbed \subseteq disturbed' /\ disturbed' \subseteq disturbed \cup {p}
      /\ UNCHANGED <<table, ours, lapsed>>
  BY <1>4
<1>10. QED
  BY <1>1, <1>3, <1>4, <1>5, <1>6, <1>7, <1>8, <1>9, CallerKeeps

-----------------------------------------------------------------------------
(* The gateway.                                                            *)

\* A grant keeps the mapping where it is or puts it at a free port.
LEMMA TableKeeps ==
    ASSUME MInv, NEW k \in Keys, NEW e \in ExtPorts \cup {NoPort},
           e \in {table[k], NoPort} \cup Free(k),
           table' = [table EXCEPT ![k] = e]
    PROVE  /\ table' \in [Keys -> ExtPorts \cup {NoPort}]
           /\ table'[k] = e /\ \A j \in Keys \ {k} : table'[j] = table[j]
           /\ \A j \in Keys : table'[j] \in Free(j)' \cup {NoPort}
<1>1. /\ table' \in [Keys -> ExtPorts \cup {NoPort}]
      /\ table'[k] = e /\ \A j \in Keys \ {k} : table'[j] = table[j]
  BY DEF MInv, TypeOK
<1>2. e \in Free(k) \cup {NoPort}
  BY DEF MInv, TypeOK
<1>3. ASSUME NEW i \in Keys, NEW j \in Keys, i # j, i.protocol = j.protocol,
             table'[i] # NoPort
      PROVE  table'[i] # table'[j]
  <2>1. CASE i # k /\ j # k
    BY <1>1, <1>3, <2>1 DEF MInv, TypeOK, Free
  <2>2. CASE i = k
    BY <1>1, <1>2, <1>3, <2>2 DEF Free
  <2>3. CASE j = k
    BY <1>1, <1>2, <1>3, <2>3 DEF Free
  <2>4. QED
    BY <2>1, <2>2, <2>3
<1>4. QED
  BY <1>1, <1>3 DEF Free

\* What a gateway's step on k means for another internal port.
LEMMA TableElsewhere ==
    ASSUME MInv, NEW k \in Keys, NEW q \in InternalPorts \ disturbed, q # k.port,
           \A d \in CallsOn(q) : call'[d] = call[d],
           CallsOn(q)' = CallsOn(q), ports' = ports,
           \A j \in Keys \ {k} : table'[j] = table[j]
    PROVE  Undisturbed(q)'
<1>1. Undisturbed(q)
  BY DEF MInv
<1>2. /\ \A d \in CallsOn(q) : call[d].key \in Keys /\ call[d].key # k
      /\ \A j \in Keys : j.port = q => table'[j] = table[j]
  BY DEF CallsOn, MInv, CallShape
<1>3. QED
  BY <1>1, <1>2 DEF Undisturbed

LEMMA GrantsKeeps ==
    ASSUME MInv, NEW c \in Callers, GatewayGrants(c)
    PROVE  MInv'
<1>0. PICK k \in Keys : k = call[c].key
  BY CallLemma DEF GatewayGrants
<1>1. call[c].pc = "wait" /\ call[c] \in Call /\ k.port \in InternalPorts
  BY <1>0, CallLemma DEF GatewayGrants
<1>2. call[c].port \in ExtPorts /\ call[c].reply = "none"
  BY <1>1 DEF MInv, CallShape, GatewayGrants
<1>3. table[k] \in Free(k) \cup {NoPort} /\ Free(k) \subseteq ExtPorts
  BY DEF MInv, TypeOK, Free
<1>4. PICK e \in ExtPorts :
        /\ e \in {table[k]} \cup Free(k)
        /\ table[k] # NoPort => e = table[k]
        /\ table' = [table EXCEPT ![k] = e]
        /\ call' = [call EXCEPT ![c].reply = e]
        /\ DisturbedIf(table[k] = NoPort /\ e # call[c].port, k)
  BY <1>0, <1>3 DEF GatewayGrants
<1> DEFINE new == [call[c] EXCEPT !.reply = e]
<1>5. /\ new \in Call /\ new.pc = "wait" /\ new.reply = e
      /\ new.port = call[c].port /\ new.attempt = call[c].attempt
      /\ new.key = k
  BY <1>0, <1>1 DEF Call
<1>6. /\ call' = [call EXCEPT ![c] = new]
      /\ ours' = ours \cup {k} /\ lapsed' = lapsed \ {k}
      /\ UNCHANGED <<ports, forgotten>>
  BY <1>0, <1>4 DEF GatewayGrants
<1> HIDE DEF new
<1>7. /\ call' \in [Callers -> Call] /\ call'[c] = new
      /\ \A d \in Callers \ {c} : call'[d] = call[d]
  BY <1>5, <1>6 DEF MInv, TypeOK
<1>8. /\ table' \in [Keys -> ExtPorts \cup {NoPort}]
      /\ table'[k] = e /\ \A j \in Keys \ {k} : table'[j] = table[j]
      /\ \A j \in Keys : table'[j] \in Free(j)' \cup {NoPort}
  BY <1>4, TableKeeps
<1>9. /\ disturbed \subseteq disturbed' /\ disturbed' \subseteq disturbed \cup {k.port}
      /\ table[k] = NoPort /\ e # call[c].port => k.port \in disturbed'
  BY <1>4 DEF DisturbedIf
<1>10. TypeOK'
  BY <1>1, <1>6, <1>7, <1>8, <1>9 DEF MInv, TypeOK
<1>11. CallShape'
  BY <1>2, <1>5, <1>7, IdleLemma DEF MInv, CallShape
<1>12. OursKnown'
  <2>1. e # NoPort
    BY ConstantAssumption
  <2>2. \A j \in ours' : table'[j] # NoPort \/ j \in lapsed'
    BY <1>6, <1>8, <2>1 DEF MInv, TypeOK, OursKnown
  <2>3. \A d \in Callers : call'[d].reply \in ExtPorts => call'[d].key \in ours'
    BY <1>5, <1>6, <1>7 DEF MInv, OursKnown
  <2>4. QED
    BY <2>2, <2>3 DEF OursKnown
<1>13. ASSUME NEW q \in InternalPorts \ disturbed'
       PROVE  Undisturbed(q)'
  <2>1. CASE q # k.port
    <3>1. CallsOn(q)' = CallsOn(q) /\ \A d \in CallsOn(q) : call'[d] = call[d]
      BY <1>0, <1>5, <1>7, <2>1 DEF CallsOn
    <3>2. QED
      BY <1>6, <1>8, <1>9, <1>13, <2>1, <3>1, TableElsewhere
  <2>2. CASE q = k.port
    <3>1. q \in InternalPorts \ disturbed /\ call[c].pc # "idle"
      BY <1>1, <1>9, <1>13
    <3>2. CallsOn(q)' = {c}
      BY <1>0, <1>5, <1>7, <2>2, <3>1, OnlyCall
    <3>3. /\ IF call[c].attempt = 0 THEN call[c].port = ports[q]
                                    ELSE ports[q] = NoPort
          /\ \A j \in Keys : j.port = q /\ table[j] # NoPort => table[j] = ports[q]
      BY <1>0, <1>1, <1>2, <2>2, <3>1, Alone, ConstantAssumption
    <3>4. e = call[c].port
      BY <1>4, <1>9, <1>13, <2>2, <3>3
    <3>5. QED
      BY <1>2, <1>5, <1>6, <1>7, <1>8, <2>2, <3>2, <3>3, <3>4 DEF Undisturbed
  <2>3. QED
    BY <2>1, <2>2
<1>14. QED
  BY <1>10, <1>11, <1>12, <1>13 DEF MInv

LEMMA ExpireKeeps ==
    ASSUME MInv, NEW k \in Keys, Expire(k)
    PROVE  MInv'
<1>1. /\ table' = [table EXCEPT ![k] = NoPort]
      /\ lapsed' = lapsed \cup ({k} \cap ours)
      /\ UNCHANGED <<call, ports, ours, forgotten, disturbed>>
  BY DEF Expire
<1>2. /\ table' \in [Keys -> ExtPorts \cup {NoPort}]
      /\ table'[k] = NoPort /\ \A j \in Keys \ {k} : table'[j] = table[j]
      /\ \A j \in Keys : table'[j] \in Free(j)' \cup {NoPort}
  BY <1>1, TableKeeps
<1>3. TypeOK'
  BY <1>1, <1>2 DEF MInv, TypeOK
<1>4. CallShape' /\ OursKnown'
  BY <1>1, <1>2 DEF MInv, CallShape, OursKnown
<1>5. ASSUME NEW q \in InternalPorts \ disturbed'
      PROVE  Undisturbed(q)'
  <2>1. Undisturbed(q) /\ CallsOn(q)' = CallsOn(q)
    BY <1>1, <1>5 DEF MInv, CallsOn
  <2>2. \A d \in CallsOn(q) : call[d].key \in Keys
    BY DEF CallsOn, MInv, CallShape
  <2>3. QED
    BY <1>1, <1>2, <2>1, <2>2 DEF Undisturbed
<1>6. QED
  BY <1>3, <1>4, <1>5 DEF MInv

LEMMA CrashKeeps ==
    ASSUME MInv, Crash
    PROVE  MInv'
<1>1. Init'
  BY DEF Crash, Init, MInv, TypeOK, Free, Inherited
<1>2. Init' => MInv'
  BY MInit, PTL
<1>3. QED
  BY <1>1, <1>2

LEMMA MStep == MInv /\ [Next]_vars => MInv'
<1> SUFFICES ASSUME MInv, [Next]_vars PROVE MInv'
  OBVIOUS
<1>1. ASSUME NEW c \in Callers, NEW k \in Keys,
             AddPortMapping(c, k) \/ DeletePortMapping(c, k)
      PROVE  MInv'
  BY <1>1, BeginsKeeps
<1>2. ASSUME NEW c \in Callers,
             \/ Forgets(c) \/ Looks(c) \/ Sends(c)
             \/ Succeeds(c) \/ AttemptFails(c)
      PROVE  MInv'
  BY <1>2, ForgetsKeeps, LooksKeeps, SendsKeeps, SucceedsKeeps, AttemptFailsKeeps
<1>3. ASSUME NEW c \in Callers, GatewayGrants(c) \/ GatewayRefuses(c)
      PROVE  MInv'
  BY <1>3, GrantsKeeps, RefusesKeeps
<1>4. CASE UNCHANGED vars
  BY <1>4 DEF vars, MInv, TypeOK, Free, CallShape, OursKnown, Undisturbed, CallsOn
<1>5. QED
  BY <1>1, <1>2, <1>3, <1>4, ExpireKeeps, CrashKeeps DEF Next

-----------------------------------------------------------------------------
\* As long as nothing comes between the cache and the gateway, every mapping of
\* an internal port is at the cached port or at the one just granted
\* (natpmp.go:105-119).
THEOREM MInvariant == Spec => []MInv
BY MInit, MStep, PTL DEF Spec

\* Every variable has its type, and the gateway never has two mappings of a
\* protocol at one port.
THEOREM TypeCorrect == Spec => []TypeOK
<1>1. MInv => TypeOK
  BY DEF MInv
<1>2. QED
  BY <1>1, MInvariant, PTL

\* AddPortMapping reports the port of its mapping when nothing came between the
\* cache and the gateway (natpmp.go:105-119).
THEOREM UndisturbedPortIsTrue == Spec => PortIsTrueUndisturbed
<1>1. ASSUME MInv, NEW c \in Callers, Succeeds(c),
             call[c].key.port \notin disturbed
      PROVE  table[call[c].key] \in {call[c].port, NoPort}
  BY <1>1, CallLemma, Alone DEF Succeeds, Granted
<1>2. MInv /\ [Next]_vars =>
        [\A c \in Callers :
           Succeeds(c) /\ call[c].key.port \notin disturbed =>
             table[call[c].key] \in {call[c].port, NoPort}]_vars
  BY <1>1
<1>3. QED
  BY <1>2, MInvariant, PTL DEF Spec, PortIsTrueUndisturbed

-----------------------------------------------------------------------------
(* The refinement mapping, with names for what the proofs hide.            *)

Pending == [c \in Callers |-> PendingCall(c)]
Asked == [k \in Keys |-> AskedFor(k)]
Mapped == {k \in ours : table[k] # NoPort}

LEMMA PendingLemma ==
    ASSUME MInv, NEW c \in Callers
    PROVE  /\ call[c].pc = "idle" => PendingCall(c) = Promise!NoCall
           /\ call[c].pc # "idle" =>
                /\ PendingCall(c) =
                     [op |-> IF call[c].pc = "forget" THEN "delete" ELSE "create",
                      key |-> call[c].key]
                /\ PendingCall(c) # Promise!NoCall
                /\ call[c].key \in Keys
<1>1. /\ call[c] \in Call
      /\ call[c].pc # "idle" => call[c].key \in Keys
  BY CallLemma DEF MInv, TypeOK
<1>2. CASE call[c].pc = "idle"
  BY <1>2 DEF PendingCall, Promise!NoCall
<1>3. CASE call[c].pc = "forget"
  BY <1>1, <1>3 DEF PendingCall, Promise!NoCall
<1>4. CASE call[c].pc \notin {"idle", "forget"}
  BY <1>1, <1>4 DEF PendingCall, Promise!NoCall
<1>5. QED
  BY <1>2, <1>3, <1>4

\* A step that changes no call's kind or key.
LEMMA SameCalls ==
    ASSUME \A d \in Callers :
             /\ call'[d].pc = "idle" <=> call[d].pc = "idle"
             /\ call'[d].pc = "forget" <=> call[d].pc = "forget"
             /\ call'[d].key = call[d].key
    PROVE  Pending' = Pending /\ Asked' = Asked
<1>1. \A d \in Callers : PendingCall(d)' = PendingCall(d)
  BY DEF PendingCall
<1>2. \A k \in Keys : AskedFor(k)' = AskedFor(k)
  BY <1>1 DEF AskedFor
<1>3. QED
  BY <1>1, <1>2 DEF Pending, Asked

\* A call that ends asks for nothing any more, and the others for what they did.
LEMMA EndedCall ==
    ASSUME MInv, NEW c \in Callers, NEW k \in Keys, call[c].key = k,
           call' = [call EXCEPT ![c] = Idle]
    PROVE  /\ Pending' = [Pending EXCEPT ![c] = Promise!NoCall]
           /\ \A j \in Keys : Asked'[j] \subseteq Asked[j]
           /\ Asked'[k] \subseteq
                {Pending[d].op : d \in {e \in Callers \ {c} : Pending[e].key = k}}
<1>1. call'[c] = Idle /\ \A d \in Callers \ {c} : call'[d] = call[d]
  BY DEF MInv, TypeOK
<1>2. /\ PendingCall(c)' = Promise!NoCall
      /\ \A d \in Callers \ {c} : PendingCall(d)' = PendingCall(d)
  BY <1>1, IdleLemma DEF PendingCall, Promise!NoCall
<1>3. \A j \in Keys : \A o \in AskedFor(j)' :
        \E d \in Callers \ {c} : call[d].key = j /\ o = PendingCall(d).op
  BY <1>1, <1>2, IdleLemma, KeyLemma DEF AskedFor
<1>4. \A j \in Keys : AskedFor(j)' \subseteq AskedFor(j)
  BY <1>3 DEF AskedFor
<1>5. \A d \in Callers : call[d].key = k => PendingCall(d).key = k
  BY PendingLemma, IdleLemma, KeyLemma DEF MInv, CallShape
<1>6. Pending' = [Pending EXCEPT ![c] = Promise!NoCall]
  BY <1>2 DEF Pending
<1>7. \A j \in Keys : Asked'[j] \subseteq Asked[j]
  BY <1>4 DEF Asked
<1>8. \A d \in Callers : Pending[d] = PendingCall(d)
  BY DEF Pending
<1>9. Asked'[k] = AskedFor(k)'
  BY DEF Asked
<1>10. Asked'[k] \subseteq
          {Pending[d].op : d \in {e \in Callers \ {c} : Pending[e].key = k}}
  BY <1>3, <1>5, <1>8, <1>9
<1>11. QED
  BY <1>6, <1>7, <1>10

LEMMA BeginsBegin ==
    ASSUME MInv, NEW c \in Callers, NEW k \in Keys,
           AddPortMapping(c, k) \/ DeletePortMapping(c, k)
    PROVE  \E op \in {"create", "delete"} : Promise!Begin(c, op, k)
<1>1. PICK pc \in {"look", "forget"} :
        /\ call[c] = Idle /\ call' = [call EXCEPT ![c] = Asks(pc, k)]
        /\ UNCHANGED <<ports, table, ours, lapsed, forgotten>>
  BY DEF AddPortMapping, DeletePortMapping
<1>2. PICK op \in {"create", "delete"} :
        op = IF pc = "forget" THEN "delete" ELSE "create"
  OBVIOUS
<1>3. /\ call[c].pc = "idle" /\ call[c].key = NoKey
      /\ call'[c].pc = pc /\ call'[c].key = k
      /\ \A d \in Callers \ {c} : call'[d] = call[d]
  BY <1>1, IdleLemma DEF MInv, TypeOK
<1>4. /\ PendingCall(c)' = [op |-> op, key |-> k]
      /\ \A d \in Callers \ {c} : PendingCall(d)' = PendingCall(d)
  BY <1>2, <1>3 DEF PendingCall
<1>5. /\ Pending' = [Pending EXCEPT ![c] = [op |-> op, key |-> k]]
      /\ Pending[c] = Promise!NoCall
  BY <1>3, <1>4, PendingLemma DEF Pending
<1>6. Asked' = [Asked EXCEPT ![k] = @ \cup {op}]
  <2>1. ASSUME NEW j \in Keys
        PROVE  AskedFor(j)' = IF j = k THEN AskedFor(j) \cup {op}
                                       ELSE AskedFor(j)
    BY <1>3, <1>4, KeyLemma DEF AskedFor
  <2>2. QED
    BY <2>1 DEF Asked
<1>7. UNCHANGED <<Mapped, lapsed, forgotten>>
  BY <1>1 DEF Mapped
<1>8. QED
  BY <1>5, <1>6, <1>7 DEF Promise!Begin, Pending, Asked, Mapped

\* A return without an error is Promise!Succeeds.
LEMMA ReturnSucceeds ==
    ASSUME MInv, NEW c \in Callers, Succeeds(c) \/ Forgets(c)
    PROVE  Promise!Succeeds(c)
<1>1. /\ call[c].pc # "idle" /\ call' = [call EXCEPT ![c] = Idle]
      /\ UNCHANGED <<table, ours, lapsed>> /\ forgotten \subseteq forgotten'
  BY DEF Succeeds, Forgets, Granted
<1>2. PICK k \in Keys : k = call[c].key
  BY <1>1, CallLemma
<1>3. PICK op \in {"create", "delete"} : Pending[c] = [op |-> op, key |-> k]
  BY <1>1, <1>2, PendingLemma DEF Pending
<1>4. k \in forgotten' \/ Promise!Done(op, k)
  <2>1. CASE Forgets(c)
    BY <1>2, <2>1 DEF Forgets
  <2>2. CASE Succeeds(c)
    <3>1. /\ call[c].pc = "wait" /\ call[c].reply \in ExtPorts
      BY <2>2 DEF Succeeds, Granted
    <3>2. op = "create"
      BY <1>3, <3>1, PendingLemma DEF Pending
    <3>3. k \in Mapped \cup lapsed
      BY <1>2, <3>1 DEF MInv, OursKnown, Mapped
    <3>4. QED
      BY <3>2, <3>3 DEF Promise!Done, Mapped
  <2>3. QED
    BY <2>1, <2>2
<1> DEFINE others == {Pending[d].op : d \in {e \in Callers \ {c} : Pending[e].key = k}}
<1>5. /\ Pending' = [Pending EXCEPT ![c] = Promise!NoCall]
      /\ \A j \in Keys : Asked'[j] \subseteq Asked[j]
      /\ Asked'[k] \subseteq others
  BY <1>1, <1>2, EndedCall
<1>6. Promise!OthersAsk(c, k) = others
  BY DEF Promise!OthersAsk, Pending
<1> HIDE DEF others
<1>7. Pending[c] # Promise!NoCall /\ Pending[c].key = k /\ Pending[c].op = op
  BY <1>1, <1>3, PendingLemma DEF Pending
<1>8. UNCHANGED <<Mapped, lapsed>>
  BY <1>1 DEF Mapped
<1>9. Asked'[k] \subseteq {op, Pending'[c].op} \cup Promise!OthersAsk(c, k)
  BY <1>5, <1>6
<1>10. QED
  BY <1>1, <1>4, <1>5, <1>7, <1>8, <1>9
     DEF Promise!Succeeds, Promise!MayDoubt, Pending, Asked, Mapped

LEMMA QuietStep ==
    ASSUME Pending' = Pending, Asked' = Asked, Mapped' = Mapped,
           UNCHANGED <<lapsed, forgotten>>
    PROVE  Promise!Quiet
<1>1. Promise!OnlyFewer
  BY DEF Promise!OnlyFewer, Asked
<1>2. QED
  BY <1>1 DEF Promise!Quiet, Pending, Mapped

\* A create goes on: nothing that the promise can see.
LEMMA GoesOnQuiet ==
    ASSUME MInv, NEW c \in Callers, Looks(c) \/ Sends(c) \/ GatewayRefuses(c)
    PROVE  Promise!Quiet
<1>1. /\ call[c] \in Call /\ call[c].pc \in {"look", "send", "wait"}
      /\ UNCHANGED <<table, ours, lapsed, forgotten>>
  BY CallLemma DEF Looks, Sends, GatewayRefuses
<1>2. PICK new \in Call : /\ call' = [call EXCEPT ![c] = new]
                         /\ new.pc \in {"look", "send", "wait"}
                         /\ new.key = call[c].key
  <2>1. CASE Looks(c)
    <3>1. PICK cached \in ExtPorts \cup {NoPort} :
             cached = Cached(call[c].key.port)
      BY <1>1, <2>1, CallLemma DEF Looks, Cached, MInv, TypeOK, Keys
    <3> DEFINE new == [call[c] EXCEPT !.pc = "send", !.port = cached,
                                      !.attempt = IF cached = NoPort THEN 1 ELSE 0]
    <3>2. call' = [call EXCEPT ![c] = new]
      BY <2>1, <3>1 DEF Looks
    <3>3. new.attempt \in 0 .. RandomTries
      <4>1. call[c].attempt \in 0 .. RandomTries /\ 0 \in 0 .. RandomTries
            /\ 1 \in 0 .. RandomTries
        BY <1>1, ConstantAssumption DEF Call
      <4>2. new.attempt = IF cached = NoPort THEN 1 ELSE 0
        BY <1>1 DEF Call
      <4>3. QED
        BY <4>1, <4>2
    <3>4. new \in Call /\ new.pc = "send" /\ new.key = call[c].key
      BY <1>1, <3>3 DEF Call
    <3> HIDE DEF new
    <3>5. QED
      BY <3>2, <3>4
  <2>2. CASE Sends(c)
    <3>1. PICK e \in ExtPorts \cup {NoPort} :
             call' = [call EXCEPT ![c].pc = "wait", ![c].port = e]
      BY <1>1, <2>2 DEF Sends, Suggestions, Call
    <3> DEFINE new == [call[c] EXCEPT !.pc = "wait", !.port = e]
    <3>2. call' = [call EXCEPT ![c] = new]
      BY <3>1
    <3>3. new \in Call /\ new.pc = "wait" /\ new.key = call[c].key
      BY <1>1 DEF Call
    <3> HIDE DEF new
    <3>4. QED
      BY <3>2, <3>3
  <2>3. CASE GatewayRefuses(c)
    <3> DEFINE new == [call[c] EXCEPT !.reply = "refused"]
    <3>1. call' = [call EXCEPT ![c] = new]
      BY <2>3 DEF GatewayRefuses
    <3>2. new \in Call /\ new.pc = call[c].pc /\ new.key = call[c].key
      BY <1>1 DEF Call
    <3> HIDE DEF new
    <3>3. QED
      BY <1>1, <3>1, <3>2
  <2>4. QED
    BY <2>1, <2>2, <2>3
<1>3. /\ call'[c].pc \in {"look", "send", "wait"} /\ call'[c].key = call[c].key
      /\ \A d \in Callers \ {c} : call'[d] = call[d]
  BY <1>2 DEF MInv, TypeOK
<1>4. Pending' = Pending /\ Asked' = Asked
  BY <1>1, <1>3, SameCalls
<1>5. Mapped' = Mapped
  BY <1>1 DEF Mapped
<1>6. QED
  BY <1>1, <1>4, <1>5, QuietStep

LEMMA AttemptFailsFails ==
    ASSUME MInv, NEW c \in Callers, AttemptFails(c)
    PROVE  Promise!Fails(c) \/ Promise!Quiet
<1>1. /\ call[c] \in Call /\ call[c].pc = "wait"
      /\ UNCHANGED <<table, ours, lapsed, forgotten>>
  BY CallLemma DEF AttemptFails
<1>2. Mapped' = Mapped
  BY <1>1 DEF Mapped
<1>3. CASE LastAttempt(c)
  <2>1. PICK k \in Keys : k = call[c].key
    BY <1>1, CallLemma
  <2>2. call' = [call EXCEPT ![c] = Idle]
    BY <1>3 DEF AttemptFails
  <2>3. /\ Pending' = [Pending EXCEPT ![c] = Promise!NoCall]
        /\ \A j \in Keys : Asked'[j] \subseteq Asked[j]
    BY <2>1, <2>2, EndedCall
  <2>4. Promise!OnlyFewer
    BY <2>3 DEF Promise!OnlyFewer, Asked
  <2>5. Pending[c] # Promise!NoCall
    BY <1>1, PendingLemma DEF Pending
  <2>6. QED
    BY <1>1, <1>2, <2>3, <2>4, <2>5
       DEF Promise!Fails, Promise!MayDoubt, Pending, Mapped
<1>4. CASE ~LastAttempt(c)
  <2>1. /\ call'[c].pc = "send" /\ call'[c].key = call[c].key
        /\ \A d \in Callers \ {c} : call'[d] = call[d]
    BY <1>1, <1>4 DEF AttemptFails, MInv, TypeOK, Call
  <2>2. Pending' = Pending /\ Asked' = Asked
    BY <1>1, <2>1, SameCalls
  <2>3. QED
    BY <1>1, <1>2, <2>2, QuietStep
<1>5. QED
  BY <1>3, <1>4

\* The gateway makes or renews the mapping that the call asks for.
LEMMA GrantCarriesOut ==
    ASSUME MInv, NEW c \in Callers, GatewayGrants(c)
    PROVE  \E k \in Keys : Promise!CarriesOut(k, "create")
<1>1. PICK k \in Keys : k = call[c].key
  BY CallLemma DEF GatewayGrants
<1>2. /\ call[c] \in Call /\ call[c].pc = "wait"
      /\ ours' = ours \cup {k} /\ lapsed' = lapsed \ {k}
      /\ UNCHANGED forgotten
  BY <1>1, CallLemma DEF GatewayGrants
<1>3. PICK e \in ExtPorts : /\ table' = [table EXCEPT ![k] = e]
                            /\ call' = [call EXCEPT ![c].reply = e]
  BY <1>1 DEF GatewayGrants, MInv, TypeOK, Free
<1>4. /\ call'[c].pc = "wait" /\ call'[c].key = call[c].key
      /\ \A d \in Callers \ {c} : call'[d] = call[d]
  BY <1>2, <1>3 DEF MInv, TypeOK, Call
<1>5. Pending' = Pending /\ Asked' = Asked
  BY <1>2, <1>4, SameCalls
<1>6. "create" \in Asked[k]
  <2>1. PendingCall(c).op = "create"
    BY <1>2, PendingLemma
  <2>2. QED
    BY <1>1, <2>1 DEF Asked, AskedFor
<1>7. Mapped' = Mapped \cup {k}
  <2>1. table'[k] # NoPort /\ \A j \in Keys \ {k} : table'[j] = table[j]
    BY <1>3, ConstantAssumption DEF MInv, TypeOK
  <2>2. ours \subseteq Keys
    BY DEF MInv, TypeOK
  <2>3. QED
    BY <1>2, <2>1, <2>2 DEF Mapped
<1>8. Promise!OnlyFewer
  BY <1>5 DEF Promise!OnlyFewer, Asked
<1>9. Promise!Surely(Mapped', Mapped \cup {k}) /\ Promise!Surely(lapsed', lapsed \ {k})
  BY <1>2, <1>7 DEF Promise!Surely
<1>10. QED
  BY <1>2, <1>5, <1>6, <1>8, <1>9 DEF Promise!CarriesOut, Pending, Asked, Mapped

LEMMA ExpireDrops ==
    ASSUME MInv, NEW k \in Keys, Expire(k)
    PROVE  Promise!Drops(k) \/ Promise!Quiet
<1>1. /\ table[k] # NoPort /\ table' = [table EXCEPT ![k] = NoPort]
      /\ lapsed' = lapsed \cup ({k} \cap ours)
      /\ UNCHANGED <<call, ours, forgotten>>
  BY DEF Expire
<1>2. Pending' = Pending /\ Asked' = Asked
  BY <1>1, SameCalls
<1>3. Mapped' = Mapped \ {k}
  <2>1. table'[k] = NoPort /\ \A j \in Keys \ {k} : table'[j] = table[j]
    BY <1>1 DEF MInv, TypeOK
  <2>2. ours \subseteq Keys
    BY DEF MInv, TypeOK
  <2>3. QED
    BY <1>1, <2>1, <2>2 DEF Mapped
<1>4. CASE k \in ours
  <2>1. k \in Mapped /\ lapsed' = lapsed \cup {k}
    BY <1>1, <1>4 DEF Mapped
  <2>2. QED
    BY <1>1, <1>2, <1>3, <2>1 DEF Promise!Drops, Pending, Asked, Mapped
<1>5. CASE k \notin ours
  <2>1. Mapped' = Mapped /\ lapsed' = lapsed
    BY <1>1, <1>3, <1>5 DEF Mapped
  <2>2. QED
    BY <1>1, <1>2, <2>1, QuietStep
<1>6. QED
  BY <1>4, <1>5

LEMMA FreshPromise == Init => Promise!Init
<1> SUFFICES ASSUME Init PROVE Promise!Init
  OBVIOUS
<1>1. \A c \in Callers : call[c].pc = "idle" /\ call[c].key = NoKey
  BY IdleLemma DEF Init
<1>2. Pending = [c \in Callers |-> Promise!NoCall]
  BY <1>1 DEF Pending, PendingCall, Promise!NoCall
<1>3. Asked = [k \in Keys |-> {}]
  BY <1>1, KeyLemma DEF Asked, AskedFor
<1>4. Mapped = {} /\ lapsed = {} /\ forgotten = {}
  BY DEF Init, Mapped
<1>5. QED
  BY <1>2, <1>3, <1>4 DEF Promise!Init, Pending, Asked, Mapped

LEMMA CrashDies ==
    ASSUME MInv, Crash
    PROVE  Promise!Dies
<1>1. Init'
  BY DEF Crash, Init, MInv, TypeOK, Free, Inherited
<1>2. Init' => Promise!Init'
  BY FreshPromise, PTL
<1>3. Promise!Init' => Promise!Dies
  BY DEF Promise!Init, Promise!Dies
<1>4. QED
  BY <1>1, <1>2, <1>3

LEMMA PromiseStep ==
    ASSUME MInv, [Next]_vars
    PROVE  [Promise!Next]_(Promise!vars)
<1>1. ASSUME NEW c \in Callers, NEW k \in Keys,
             AddPortMapping(c, k) \/ DeletePortMapping(c, k)
      PROVE  Promise!Next
  BY <1>1, BeginsBegin DEF Promise!Next, Promise!Op
<1>2. ASSUME NEW c \in Callers,
             \/ Forgets(c) \/ Looks(c) \/ Sends(c)
             \/ Succeeds(c) \/ AttemptFails(c) \/ GatewayRefuses(c)
      PROVE  Promise!Next
  <2>1. Promise!Succeeds(c) \/ Promise!Fails(c) \/ Promise!Quiet
    BY <1>2, ReturnSucceeds, GoesOnQuiet, AttemptFailsFails
  <2>2. QED
    BY <2>1 DEF Promise!Next
<1>3. ASSUME NEW c \in Callers, GatewayGrants(c)
      PROVE  Promise!Next
  BY <1>3, GrantCarriesOut DEF Promise!Next, Promise!Op
<1>4. ASSUME NEW k \in Keys, Expire(k)
      PROVE  Promise!Next
  BY <1>4, ExpireDrops DEF Promise!Next
<1>5. CASE Crash
  BY <1>5, CrashDies DEF Promise!Next
<1>6. CASE UNCHANGED vars
  <2>1. UNCHANGED <<Pending, Asked, Mapped, lapsed, forgotten>>
    BY <1>6 DEF vars, Pending, PendingCall, Asked, AskedFor, Mapped
  <2>2. QED
    BY <2>1 DEF Promise!vars, Pending, Asked, Mapped
<1>7. QED
  BY <1>1, <1>2, <1>3, <1>4, <1>5, <1>6 DEF Next

\* The NAT-PMP gateway object implements the promise of the NAT interface for
\* every mapping it was never asked to delete: a create that succeeds has mapped
\* on behalf of this process (nat.go:36-39, natpmp.go:98-128).
THEOREM PromiseKept == Spec => KeepsPromise
<1>1. MInv /\ [Next]_vars => [Promise!Next]_(Promise!vars)
  BY PromiseStep
<1>2. MInv /\ [Next]_vars =>
        [\A c \in Callers :
           Succeeds(c) \/ Forgets(c) => Promise!Succeeds(c)]_vars
  BY ReturnSucceeds
<1>3. QED
  BY <1>1, <1>2, FreshPromise, MInvariant, PTL
     DEF Spec, KeepsPromise, Promise!Spec
=============================================================================
