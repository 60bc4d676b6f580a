---------------------------- MODULE PCPEpochProofs ----------------------------
(* Theorems about PCPEpoch, for all values of the constants: with one call at  *)
(* a time and epochs that do not wrap, a restart is noticed and no false alarm *)
(* is raised, however the clocks drift and the answers are delayed within what *)
(* Ahead and Behind allow.                                                     *)
EXTENDS PCPEpoch, TLAPS

\* The latest epoch there can be.
Seconds == MaxTicks \div Hz

\* What the properties need beyond what the module assumes: one call at a time,
\* and times of which the seconds are a fraction of W.
Sequential ==
    /\ \A o, p \in Observers : o = p
    /\ Seconds + Tolerance < W
    /\ Drifted(W - Seconds) > Seconds + Tolerance

-----------------------------------------------------------------------------
(* Arithmetic.                                                             *)

LEMMA SecondsLemma ==
    /\ Hz \in Nat \ {0} /\ W \in Nat \ {0} /\ MaxTicks \in Nat
    /\ Seconds \in Nat
    /\ \A x \in Nat : x \div Hz \in Nat
    /\ \A x \in 0 .. MaxTicks : x \div Hz \in 0 .. Seconds
BY ClockAssumption DEF Seconds

LEMMA ModLemma ==
    /\ \A x \in Int : x % W \in 0 .. W - 1
    /\ \A x \in 0 .. W - 1 : x % W = x
    /\ \A x \in - W .. -1 : x % W = x + W
BY ClockAssumption

LEMMA DriftLemma ==
    /\ \A x \in Nat : Drifted(x) \in 0 .. x
    /\ \A x, y \in Nat : x <= y => Drifted(x) <= Drifted(y)
BY DEF Drifted

\* A time that is at most some seconds longer has at most as many seconds more.
LEMMA WholeLemma ==
    ASSUME NEW t \in Nat, NEW u \in Nat, NEW n \in Nat, t <= u + Hz * n
    PROVE  t \div Hz <= (u \div Hz) + n
<1> DEFINE a == t \div Hz
           b == u \div Hz
<1>1. /\ a \in Nat /\ b \in Nat /\ Hz \in Nat \ {0}
      /\ a * Hz <= t /\ u < b * Hz + Hz
  BY ClockAssumption
<1> HIDE DEF a, b
<1>2. a * Hz < (b + 1 + n) * Hz
  BY <1>1
<1>3. a < b + 1 + n
  BY <1>1, <1>2
<1>4. QED
  BY <1>1, <1>3 DEF a, b

\* A sixteenth of a time, in whole seconds, is one of its whole seconds.
LEMMA SixteenthLemma ==
    ASSUME NEW t \in Nat
    PROVE  t \div (16 * Hz) = (t \div Hz) \div 16
<1> DEFINE a == t \div Hz
           b == a \div 16
           m == t \div (16 * Hz)
<1>1. /\ a \in Nat /\ Hz \in Nat \ {0}
      /\ a * Hz <= t /\ t < a * Hz + Hz
  BY ClockAssumption
<1>2. 16 * Hz \in Nat \ {0}
  BY <1>1
<1>3. /\ m \in Nat
      /\ m * (16 * Hz) <= t /\ t < m * (16 * Hz) + 16 * Hz
  BY <1>2
<1> HIDE DEF a, m
<1>4. b \in Nat /\ 16 * b <= a /\ a < 16 * b + 16
  BY <1>1
<1> HIDE DEF b
<1>5. (16 * m) * Hz < (a + 1) * Hz
  BY <1>1, <1>3
<1>6. a * Hz < (16 * m + 16) * Hz
  BY <1>1, <1>3
<1>7. 16 * m < a + 1 /\ a < 16 * m + 16
  BY <1>1, <1>3, <1>5, <1>6
<1>8. m = b
  BY <1>1, <1>3, <1>4, <1>7
<1>9. QED
  BY <1>8 DEF a, b, m

\* The seconds between two stamps, as the epochs show them, are those that passed
\* or one more.
LEMMA BetweenLemma ==
    ASSUME NEW x \in Nat, NEW y \in Nat, x <= y
    PROVE  /\ (y - x) \div Hz <= (y \div Hz) - (x \div Hz)
           /\ (y \div Hz) - (x \div Hz) <= ((y - x) \div Hz) + 1
<1> DEFINE a == x \div Hz
           b == y \div Hz
           q == (y - x) \div Hz
<1>1. y - x \in Nat
  OBVIOUS
<1>2. /\ a \in Nat /\ b \in Nat /\ q \in Nat /\ Hz \in Nat \ {0}
      /\ a * Hz <= x /\ x < a * Hz + Hz
      /\ b * Hz <= y /\ y < b * Hz + Hz
      /\ q * Hz <= y - x /\ y - x < q * Hz + Hz
  BY <1>1, ClockAssumption
<1> HIDE DEF a, b, q
<1>3. (q + a) * Hz < (b + 1) * Hz
  BY <1>2
<1>4. b * Hz < (q + a + 2) * Hz
  BY <1>2
<1>5. q + a < b + 1 /\ b < q + a + 2
  BY <1>2, <1>3, <1>4
<1>6. QED
  BY <1>2, <1>5 DEF a, b, q

\* Two seconds and a sixteenth are enough for the whole seconds of two times that
\* Ahead and Behind relate.
LEMMA QuantizationLemma ==
    ASSUME NEW x \in Nat, NEW y \in Nat, NEW c \in Nat, x <= y,
           Ahead(y - x, c), Behind(y - x, c)
    PROVE  LET s == (y \div Hz) - (x \div Hz)
               k == c \div Hz
           IN  /\ s \in Nat
               /\ Drifted(s) <= k + Tolerance
               /\ Drifted(k) <= s + Tolerance
<1> DEFINE s == (y \div Hz) - (x \div Hz)
           k == c \div Hz
           q == (y - x) \div Hz
<1>1. y - x \in Nat /\ Hz \in Nat \ {0}
  BY ClockAssumption
<1>2. q \in Nat /\ k \in Nat /\ s \in Int
  BY <1>1, SecondsLemma
<1>3. q <= s /\ s <= q + 1
  BY BetweenLemma
<1>4. /\ (y - x) \div (16 * Hz) = q \div 16
      /\ c \div (16 * Hz) = k \div 16
  BY <1>1, SixteenthLemma
<1>5. y - x <= c + Hz * (1 + q \div 16)
  BY <1>4 DEF Ahead, Allowance
<1>6. c <= (y - x) + Hz * (2 + k \div 16)
  BY <1>4 DEF Behind, Allowance
<1> HIDE DEF s, k, q
<1>7. 1 + q \div 16 \in Nat /\ 2 + k \div 16 \in Nat
  BY <1>2
<1>8. q <= k + (1 + q \div 16)
  BY <1>1, <1>5, <1>7, WholeLemma DEF q, k
<1>9. k <= q + (2 + k \div 16)
  BY <1>1, <1>6, <1>7, WholeLemma DEF q, k
<1>10. s \in Nat /\ s \div 16 >= q \div 16
  BY <1>2, <1>3
<1>11. Drifted(s) <= k + Tolerance /\ Drifted(k) <= s + Tolerance
  BY <1>2, <1>3, <1>8, <1>9, <1>10 DEF Drifted, Tolerance
<1>12. QED
  BY <1>10, <1>11 DEF s, k

\* The epoch of a server that runs for no longer than the last answer is ago.
LEMMA LaterLemma ==
    ASSUME NEW y \in Nat, NEW c \in Nat, Ahead(y, c)
    PROVE  y \div Hz <= (c \div Hz) + 1 + (y \div Hz) \div 16
<1>1. Hz \in Nat \ {0} /\ y \div Hz \in Nat /\ c \div Hz \in Nat
  BY ClockAssumption, SecondsLemma
<1>2. y \div (16 * Hz) = (y \div Hz) \div 16
  BY SixteenthLemma
<1>3. y <= c + Hz * (1 + (y \div Hz) \div 16)
  BY <1>2 DEF Ahead, Allowance
<1> DEFINE n == 1 + (y \div Hz) \div 16
<1>4. n \in Nat
  BY <1>1
<1>5. y \div Hz <= (c \div Hz) + n
  <2> HIDE DEF n
  <2>1. y <= c + Hz * n
    BY <1>3 DEF n
  <2>2. QED
    BY <1>4, <2>1, WholeLemma
<1>6. QED
  BY <1>1, <1>5

-----------------------------------------------------------------------------
(* Types.                                                                  *)

LEMMA AnswerLemma ==
    /\ NoAnswer \in Answer /\ ~NoAnswer.some
    /\ \A e \in Epoch, b \in Run, x \in 0 .. MaxTicks :
         [some |-> TRUE, epoch |-> e, boot |-> b, stamp |-> x] \in Answer
BY ClockAssumption DEF NoAnswer, Answer, Epoch, Run

LEMMA TypeInit == Init => TypeOK
<1>1. 0 \in Run /\ 0 \in Epoch /\ 0 \in 0 .. MaxTicks
  BY ClockAssumption DEF Run, Epoch
<1>2. QED
  BY <1>1, AnswerLemma DEF Init, TypeOK

LEMMA TypeStep ==
    ASSUME TypeOK, [Next]_vars
    PROVE  TypeOK'
<1>1. CASE ServerTick \/ ClientTick
  BY <1>1, ClockAssumption DEF ServerTick, ClientTick, TypeOK
<1>2. CASE ServerRestart
  BY <1>2, ClockAssumption DEF ServerRestart, TypeOK, Run
<1>3. ASSUME NEW o \in Observers, ServerAnswers(o)
      PROVE  TypeOK'
  <2>1. (uptime \div Hz) % W \in Epoch
    BY SecondsLemma, ModLemma DEF TypeOK, Epoch
  <2>2. QED
    BY <1>3, <2>1, AnswerLemma DEF ServerAnswers, TypeOK
<1>4. ASSUME NEW o \in Observers, AnswerLost(o)
      PROVE  TypeOK'
  BY <1>4, AnswerLemma DEF AnswerLost, TypeOK
<1>5. ASSUME NEW o \in Observers, UpdateEpoch(o)
      PROVE  TypeOK'
  <2>1. /\ answer[o].epoch \in Epoch /\ answer[o].boot \in Run
        /\ answer[o].stamp \in 0 .. MaxTicks
    BY DEF TypeOK, Answer
  <2>2. epochStateLost' \in BOOLEAN
    BY <1>5 DEF UpdateEpoch, TypeOK
  <2>3. QED
    BY <1>5, <2>1, <2>2, AnswerLemma, ClockAssumption
       DEF UpdateEpoch, Recorded, TypeOK
<1>6. CASE EpochStateLost
  BY <1>6 DEF EpochStateLost, TypeOK
<1>7. CASE UNCHANGED vars
  BY <1>7 DEF vars, TypeOK
<1>8. QED
  BY <1>1, <1>2, <1>3, <1>4, <1>5, <1>6, <1>7 DEF Next

-----------------------------------------------------------------------------
(* The inductive invariant of sequential calls.                            *)

\* The recorded epoch is the uptime at its stamp, which is past.
LastKnown ==
    seen =>
      /\ lastBoot <= boots
      /\ lastEpoch = lastStamp \div Hz
      /\ lastBoot = boots => lastStamp <= uptime

\* So is the epoch of an answer that is on its way.
AnswerKnown ==
    \A o \in Observers : answer[o].some =>
      /\ answer[o].boot <= boots
      /\ answer[o].epoch = answer[o].stamp \div Hz
      /\ answer[o].boot = boots => answer[o].stamp <= uptime

\* An answer was sent after the one whose epoch is recorded.
AnswerFollows ==
    \A o \in Observers :
      answer[o].some /\ seen /\ answer[o].boot = lastBoot
        => lastStamp <= answer[o].stamp

EInv ==
    /\ TypeOK
    /\ LastKnown
    /\ AnswerKnown
    /\ AnswerFollows

LEMMA EInit == Init => EInv
BY TypeInit, AnswerLemma
   DEF Init, EInv, LastKnown, AnswerKnown, AnswerFollows

LEMMA EStep ==
    ASSUME EInv, Sequential, [Next]_vars
    PROVE  EInv'
<1>0. /\ TypeOK'
      /\ boots \in Nat /\ lastBoot \in Nat /\ uptime \in 0 .. MaxTicks
      /\ MaxTicks \in Nat
      /\ \A o \in Observers : /\ answer[o].boot \in Nat
                              /\ answer[o].stamp \in 0 .. MaxTicks
  BY TypeStep, ClockAssumption DEF EInv, TypeOK, Answer, Run
<1>1. CASE ServerTick
  <2>1. /\ uptime' = uptime + 1
        /\ UNCHANGED <<boots, answer, seen, lastEpoch, lastBoot, lastStamp>>
    BY <1>1 DEF ServerTick
  <2>2. LastKnown'
    <3>1. lastStamp \in Nat
      BY ClockAssumption DEF EInv, TypeOK
    <3>2. QED
      BY <1>0, <2>1, <3>1 DEF EInv, LastKnown
  <2>3. AnswerKnown'
    BY <1>0, <2>1 DEF EInv, AnswerKnown
  <2>4. QED
    BY <1>0, <2>1, <2>2, <2>3 DEF EInv, AnswerFollows
<1>2. CASE ClientTick \/ EpochStateLost \/ UNCHANGED vars
  BY <1>0, <1>2 DEF ClientTick, EpochStateLost, vars, EInv, LastKnown,
                    AnswerKnown, AnswerFollows
<1>3. CASE ServerRestart
  BY <1>0, <1>3 DEF ServerRestart, EInv, LastKnown, AnswerKnown, AnswerFollows
<1>4. ASSUME NEW o \in Observers, ServerAnswers(o)
      PROVE  EInv'
  <2>1. (uptime \div Hz) % W = uptime \div Hz
    <3>1. uptime \div Hz \in 0 .. W - 1
      BY <1>0, SecondsLemma DEF Sequential, Tolerance
    <3>2. QED
      BY <3>1, ModLemma
  <2>2. /\ answer'[o].some /\ answer'[o].epoch = uptime \div Hz
        /\ answer'[o].boot = boots /\ answer'[o].stamp = uptime
        /\ \A p \in Observers : p = o
        /\ UNCHANGED <<uptime, boots, seen, lastEpoch, lastBoot, lastStamp>>
    BY <1>4, <2>1 DEF ServerAnswers, EInv, TypeOK, Sequential
  <2>3. LastKnown' /\ AnswerKnown'
    BY <1>0, <2>2 DEF EInv, LastKnown, AnswerKnown
  <2>4. AnswerFollows'
    BY <2>2 DEF EInv, LastKnown, AnswerFollows
  <2>5. QED
    BY <1>0, <2>3, <2>4 DEF EInv
<1>5. ASSUME NEW o \in Observers, AnswerLost(o)
      PROVE  EInv'
  <2>1. \A p \in Observers : ~answer'[p].some
    BY <1>5, AnswerLemma DEF AnswerLost, EInv, TypeOK, Sequential
  <2>2. QED
    BY <1>0, <1>5, <2>1
       DEF AnswerLost, EInv, LastKnown, AnswerKnown, AnswerFollows
<1>6. ASSUME NEW o \in Observers, UpdateEpoch(o)
      PROVE  EInv'
  <2>1. /\ answer[o].some /\ UNCHANGED <<uptime, boots>>
        /\ lastEpoch' = answer[o].epoch /\ lastBoot' = answer[o].boot
        /\ lastStamp' = answer[o].stamp
    BY <1>6 DEF UpdateEpoch, Recorded
  <2>2. \A p \in Observers : ~answer'[p].some
    BY <1>6, AnswerLemma DEF UpdateEpoch, EInv, TypeOK, Sequential
  <2>3. LastKnown'
    BY <2>1 DEF EInv, AnswerKnown, LastKnown
  <2>4. QED
    BY <1>0, <2>2, <2>3 DEF EInv, AnswerKnown, AnswerFollows
<1>7. QED
  BY <1>1, <1>2, <1>3, <1>4, <1>5, <1>6 DEF Next

-----------------------------------------------------------------------------
(* The two alarms.                                                         *)

\* What is known when an answer is processed: as long as no clock wraps, the
\* code's differences are those of the times.
LEMMA DeltaLemma ==
    ASSUME EInv, Sequential, NEW o \in Observers, answer[o].some, seen
    PROVE  /\ lastEpoch \in 0 .. Seconds /\ answer[o].epoch \in 0 .. Seconds
           /\ ClientDelta = sinceLast \div Hz /\ ClientDelta \in 0 .. Seconds
           /\ ServerDelta(answer[o].epoch) =
                IF answer[o].epoch < lastEpoch
                  THEN answer[o].epoch - lastEpoch + W
                  ELSE answer[o].epoch - lastEpoch
           /\ \A x \in 0 .. Seconds : (x + Tolerance) % W = x + Tolerance
           /\ Seconds + Tolerance < W /\ Seconds \in Nat /\ W \in Nat
<1>1. lastEpoch \in 0 .. Seconds /\ answer[o].epoch \in 0 .. Seconds
  BY SecondsLemma DEF EInv, TypeOK, Answer, LastKnown, AnswerKnown
<1>2. Seconds + Tolerance < W /\ Seconds \in Nat /\ W \in Nat
  BY SecondsLemma DEF Sequential
<1>3. sinceLast \div Hz \in 0 .. Seconds
  BY SecondsLemma DEF EInv, TypeOK
<1>4. sinceLast \div Hz \in 0 .. W - 1
  BY <1>2, <1>3 DEF Tolerance
<1>5. ClientDelta = sinceLast \div Hz
  BY <1>4, ModLemma DEF ClientDelta
<1> DEFINE delta == answer[o].epoch - lastEpoch
<1>6. ServerDelta(answer[o].epoch) = IF delta < 0 THEN delta + W ELSE delta
  <2>1. delta \in - W .. -1 \/ delta \in 0 .. W - 1
    BY <1>1, <1>2 DEF Tolerance
  <2>2. ServerDelta(answer[o].epoch) = delta % W
    BY DEF ServerDelta
  <2> HIDE DEF delta
  <2>3. QED
    BY <1>2, <2>1, <2>2, ModLemma
<1>7. delta < 0 <=> answer[o].epoch < lastEpoch
  BY <1>1, <1>2
<1>8. \A x \in 0 .. Seconds : x + Tolerance \in 0 .. W - 1
  BY <1>2 DEF Tolerance
<1>9. QED
  BY <1>1, <1>2, <1>3, <1>5, <1>6, <1>7, <1>8, ModLemma

LEMMA AgreeLemma ==
    ASSUME EInv, Sequential, NEW o \in Observers, UpdateEpoch(o),
           answer[o].boot = lastBoot,
           Ahead(answer[o].stamp - lastStamp, sinceLast),
           Behind(answer[o].stamp - lastStamp, sinceLast)
    PROVE  epochStateLost' = epochStateLost
<1>1. answer[o].some
  BY DEF UpdateEpoch
<1>2. CASE ~seen
  BY <1>2 DEF UpdateEpoch, Comparable, EInv, TypeOK
<1>3. CASE seen
  <2>1. /\ lastStamp \in Nat /\ answer[o].stamp \in Nat /\ sinceLast \in Nat
        /\ lastStamp <= answer[o].stamp
        /\ lastEpoch = lastStamp \div Hz
        /\ answer[o].epoch = answer[o].stamp \div Hz
    BY <1>1, <1>3, ClockAssumption
       DEF EInv, TypeOK, Answer, LastKnown, AnswerKnown, AnswerFollows
  <2> DEFINE server == ServerDelta(answer[o].epoch)
             client == ClientDelta
             s == answer[o].epoch - lastEpoch
             k == sinceLast \div Hz
  <2>2. /\ s \in Nat
        /\ Drifted(s) <= k + Tolerance
        /\ Drifted(k) <= s + Tolerance
    BY <2>1, QuantizationLemma
  <2>3. /\ lastEpoch \in 0 .. Seconds /\ answer[o].epoch \in 0 .. Seconds
        /\ client = k /\ k \in 0 .. Seconds
        /\ server = IF answer[o].epoch < lastEpoch THEN s + W ELSE s
        /\ \A x \in 0 .. Seconds : (x + Tolerance) % W = x + Tolerance
        /\ Seconds \in Nat
    BY <1>1, <1>3, DeltaLemma
  <2> HIDE DEF server, client, k
  <2>4. server = s /\ s \in 0 .. Seconds
    BY <2>2, <2>3
  <2> HIDE DEF s
  <2>5. /\ (k + Tolerance) % W = k + Tolerance
        /\ (s + Tolerance) % W = s + Tolerance
    BY <2>3, <2>4
  <2>6. /\ Drifted(s) \in Nat /\ Drifted(k) \in Nat
    BY <2>3, <2>4, DriftLemma
  <2>7. ~Invalid(server, client)
    <3>1. s \in Nat /\ k \in Nat
      BY <2>3, <2>4
    <3>2. ~Invalid(s, k)
      BY <2>2, <2>5, <2>6, <3>1 DEF Invalid, Tolerance
    <3>3. QED
      BY <2>3, <2>4, <3>2
  <2>8. QED
    BY <2>7 DEF UpdateEpoch, EInv, TypeOK, server, client
<1>4. QED
  BY <1>2, <1>3 DEF EInv, TypeOK

LEMMA NoticeLemma ==
    ASSUME EInv, Sequential, NEW o \in Observers, UpdateEpoch(o),
           seen, answer[o].boot # lastBoot,
           Ahead(answer[o].stamp, sinceLast),
           lastEpoch > Tolerance + 1 + ClientDelta \div 16
                                     + answer[o].epoch \div 16
    PROVE  epochStateLost'
<1>1. answer[o].some
  BY DEF UpdateEpoch
<1> DEFINE server == ServerDelta(answer[o].epoch)
           client == ClientDelta
<1>2. answer[o].epoch <= client + 1 + answer[o].epoch \div 16
  <2>1. /\ answer[o].stamp \in Nat /\ sinceLast \in Nat
        /\ answer[o].epoch = answer[o].stamp \div Hz
    BY <1>1, ClockAssumption DEF EInv, TypeOK, Answer, AnswerKnown
  <2>2. client = sinceLast \div Hz
    BY <1>1, DeltaLemma
  <2>3. QED
    BY <2>1, <2>2, LaterLemma
<1>3. /\ lastEpoch \in 0 .. Seconds /\ answer[o].epoch \in 0 .. Seconds
      /\ client \in 0 .. Seconds /\ Seconds \in Nat /\ W \in Nat
      /\ Seconds + Tolerance < W
      /\ server = IF answer[o].epoch < lastEpoch
                    THEN answer[o].epoch - lastEpoch + W
                    ELSE answer[o].epoch - lastEpoch
      /\ \A x \in 0 .. Seconds : (x + Tolerance) % W = x + Tolerance
      /\ lastEpoch > Tolerance + 1 + client \div 16 + answer[o].epoch \div 16
  BY <1>1, DeltaLemma
<1> HIDE DEF server, client
<1>4. ASSUME answer[o].epoch < lastEpoch
      PROVE  Invalid(server, client)
  <2>1. server \in Nat /\ W - Seconds \in Nat /\ W - Seconds <= server
    BY <1>3, <1>4 DEF Tolerance
  <2>2. Drifted(W - Seconds) <= Drifted(server)
    BY <2>1, DriftLemma
  <2>3. /\ Drifted(W - Seconds) \in Nat /\ Drifted(server) \in Nat
        /\ Drifted(W - Seconds) > Seconds + Tolerance
    BY <2>1, DriftLemma DEF Sequential
  <2>4. (client + Tolerance) % W < Drifted(server)
    BY <1>3, <2>2, <2>3 DEF Tolerance
  <2>5. QED
    BY <2>4 DEF Invalid
<1>5. ASSUME ~(answer[o].epoch < lastEpoch)
      PROVE  Invalid(server, client)
  <2>1. /\ server \in 0 .. Seconds
        /\ server <= client + 1 + answer[o].epoch \div 16 - lastEpoch
    BY <1>2, <1>3, <1>5
  <2>2. server + Tolerance < client - client \div 16
    BY <1>3, <2>1 DEF Tolerance
  <2>3. (server + Tolerance) % W < Drifted(client)
    BY <1>3, <2>1, <2>2 DEF Drifted
  <2>4. QED
    BY <2>3 DEF Invalid
<1>6. Invalid(server, client)
  BY <1>4, <1>5
<1>7. lastEpoch > 0
  BY <1>3 DEF Tolerance
<1>8. QED
  BY <1>6, <1>7 DEF UpdateEpoch, Comparable, server, client

-----------------------------------------------------------------------------
\* Every variable has its type (client.go:36-39).
THEOREM TypeCorrect == Spec => []TypeOK
BY TypeInit, TypeStep, PTL DEF Spec

\* With one call at a time, the recorded epoch and the answers on their way are
\* uptimes of the server, stamped in the order in which they are processed
\* (client.go:315-343).
THEOREM EInvariant ==
    ASSUME Sequential
    PROVE  Spec => []EInv
<1>1. EInv /\ [Next]_vars => EInv'
  BY EStep
<1>2. QED
  BY EInit, <1>1, PTL DEF Spec

\* With one call at a time and epochs that do not wrap, neither the fractions of
\* a second, nor clocks that drift by one sixteenth, nor delays that grow by two
\* seconds or shrink by one raise the flag (client.go:321-336).
THEOREM NoAlarmIsFalse ==
    ASSUME Sequential
    PROVE  Spec => NoFalseAlarm
<1>1. EInv /\ [Next]_vars =>
        [\A o \in Observers :
           ( /\ UpdateEpoch(o) /\ answer[o].boot = lastBoot
             /\ Ahead(answer[o].stamp - lastStamp, sinceLast)
             /\ Behind(answer[o].stamp - lastStamp, sinceLast) )
               => epochStateLost' = epochStateLost]_vars
  BY AgreeLemma
<1>2. QED
  BY <1>1, EInvariant, PTL DEF Spec, NoFalseAlarm

\* Under the same conditions a restart raises it, if the server had been up for
\* more than the tolerance when it was last heard and the new one is not ahead of
\* the client's clock (client.go:321-336).
THEOREM RestartsAreNoticed ==
    ASSUME Sequential
    PROVE  Spec => RestartNoticed
<1>1. EInv /\ [Next]_vars =>
        [\A o \in Observers :
           ( /\ UpdateEpoch(o) /\ seen /\ answer[o].boot # lastBoot
             /\ Ahead(answer[o].stamp, sinceLast)
             /\ lastEpoch > Tolerance + 1 + ClientDelta \div 16
                                          + answer[o].epoch \div 16 )
               => epochStateLost']_vars
  BY NoticeLemma
<1>2. QED
  BY <1>1, EInvariant, PTL DEF Spec, RestartNoticed
=============================================================================
