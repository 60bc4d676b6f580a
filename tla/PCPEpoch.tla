------------------------------- MODULE PCPEpoch -------------------------------
(***************************************************************************)
(* Server state loss detection of the PCP client: updateEpochLocked and    *)
(* its callers in pcp/client.go.  Every successful answer carries the      *)
(* server's epoch, its uptime in seconds; the client compares how much the *)
(* epoch advanced with how much its own clock did.                         *)
(*                                                                         *)
(* Time is kept as the two elapsed times that matter, in ticks of 1/Hz of  *)
(* a second: how long the server is up by its own clock, and how long ago  *)
(* the client last recorded an epoch by its own.  The two clocks tick      *)
(* independently, so they may drift apart and an answer, which takes its   *)
(* epoch when the server sends it, may be processed any time later, under  *)
(* Client.mu, or never (read timeout, loss).  How far the clocks and the   *)
(* delays may part is said by the properties, not by the model.            *)
(*                                                                         *)
(* A definition whose name ends in Mutant is used by no specification: it  *)
(* is a plausible bug of the definition that follows it.                   *)
(***************************************************************************)
EXTENDS Integers

CONSTANTS
    Observers,    \* calls that can be in progress at the same time
    Hz,           \* ticks in a second
    W,            \* 2^32 in the code: epochs and deltas are uint32
    MaxTicks,     \* bound: the clocks stop here
    MaxRestarts   \* bound: restarts of the server

ASSUME ClockAssumption ==
    /\ Hz \in Nat \ {0}
    /\ W \in Nat \ {0}
    /\ MaxTicks \in Nat
    /\ MaxRestarts \in Nat

VARIABLES
    uptime,          \* server: ticks since it started
    boots,           \* history: how often the server restarted
    answer,          \* what is on its way to each call
    seen,            \* is Client.epochTime set?
    lastEpoch,       \* Client.lastEpoch
    sinceLast,       \* ticks since Client.epochTime
    epochStateLost,  \* Client.epochStateLost
    lastBoot,        \* history: the server run that lastEpoch is of
    lastStamp        \* history: the uptime at which the server sent lastEpoch

vars == <<uptime, boots, answer, seen, lastEpoch, sinceLast, epochStateLost,
          lastBoot, lastStamp>>

Epoch == 0 .. W - 1
Run == 0 .. MaxRestarts

\* The stamp of an answer is history as well: its epoch is all it carries.
NoAnswer == [some |-> FALSE, epoch |-> 0, boot |-> 0, stamp |-> 0]
Answer == [some: BOOLEAN, epoch: Epoch, boot: Run, stamp: 0 .. MaxTicks]

\* The server may have been up for any time when the client starts.
Init ==
    /\ uptime \in 0 .. MaxTicks
    /\ boots = 0
    /\ answer = [o \in Observers |-> NoAnswer]
    /\ seen = FALSE
    /\ lastEpoch = 0
    /\ sinceLast = 0
    /\ epochStateLost = FALSE
    /\ lastBoot = 0
    /\ lastStamp = 0

-----------------------------------------------------------------------------
(* Time and the server.                                                    *)

ServerTick ==
    /\ uptime < MaxTicks
    /\ uptime' = uptime + 1
    /\ UNCHANGED <<boots, answer, seen, lastEpoch, sinceLast, epochStateLost,
                   lastBoot, lastStamp>>

ClientTick ==
    /\ seen /\ sinceLast < MaxTicks
    /\ sinceLast' = sinceLast + 1
    /\ UNCHANGED <<uptime, boots, answer, seen, lastEpoch, epochStateLost,
                   lastBoot, lastStamp>>

ServerRestart ==
    /\ boots < MaxRestarts
    /\ boots' = boots + 1
    /\ uptime' = 0
    /\ UNCHANGED <<answer, seen, lastEpoch, sinceLast, epochStateLost, lastBoot,
                   lastStamp>>

\* The server answers the call of o with SUCCESS.
ServerAnswers(o) ==
    /\ ~answer[o].some
    /\ answer' = [answer EXCEPT ![o] =
                    [some |-> TRUE, epoch |-> (uptime \div Hz) % W,
                     boot |-> boots, stamp |-> uptime]]
    /\ UNCHANGED <<uptime, boots, seen, lastEpoch, sinceLast, epochStateLost,
                   lastBoot, lastStamp>>

\* The answer is lost, or the call ends before it is read.
AnswerLost(o) ==
    /\ answer[o].some
    /\ answer' = [answer EXCEPT ![o] = NoAnswer]
    /\ UNCHANGED <<uptime, boots, seen, lastEpoch, sinceLast, epochStateLost,
                   lastBoot, lastStamp>>

-----------------------------------------------------------------------------
(* The client.                                                             *)

\* uint32 subtraction.
ServerDelta(epoch) == (epoch - lastEpoch) % W

ClientDelta == (sinceLast \div Hz) % W

DriftedMutant(delta) == delta

\* One sixteenth allows for clock drift.
Drifted(delta) == delta - delta \div 16

\* Two seconds allow for quantization.
Tolerance == 2

\* RFC 6887 section 8.5: the two clocks do not agree.
Invalid(server, client) ==
    \/ (client + Tolerance) % W < Drifted(server)
    \/ (server + Tolerance) % W < Drifted(client)

ComparableMutant == FALSE

\* There is an earlier epoch to compare with.
Comparable == seen /\ lastEpoch > 0

RecordedMutant(epoch) == epoch - lastEpoch

\* The new epoch replaces the last one whether or not the two agree.
Recorded(epoch) == epoch

\* updateEpochLocked, at the end of a successful ANNOUNCE or MAP exchange.
UpdateEpoch(o) ==
    LET epoch == answer[o].epoch IN
    /\ answer[o].some
    /\ epochStateLost' = \/ epochStateLost
                          \/ /\ Comparable
                             /\ Invalid(ServerDelta(epoch), ClientDelta)
    /\ lastEpoch' = Recorded(epoch)
    /\ seen' = TRUE
    /\ sinceLast' = 0
    /\ lastBoot' = answer[o].boot
    /\ lastStamp' = answer[o].stamp
    /\ answer' = [answer EXCEPT ![o] = NoAnswer]
    /\ UNCHANGED <<uptime, boots>>

\* EpochStateLost: reads the flag and clears it.
EpochStateLost ==
    /\ epochStateLost
    /\ epochStateLost' = FALSE
    /\ UNCHANGED <<uptime, boots, answer, seen, lastEpoch, sinceLast, lastBoot,
                   lastStamp>>

Next ==
    \/ ServerTick
    \/ ClientTick
    \/ ServerRestart
    \/ \E o \in Observers :
         ServerAnswers(o) \/ AnswerLost(o) \/ UpdateEpoch(o)
    \/ EpochStateLost

Spec == Init /\ [][Next]_vars

-----------------------------------------------------------------------------
(* Properties.                                                             *)

\* Every variable has its type.
TypeOK ==
    /\ uptime \in 0 .. MaxTicks
    /\ boots \in Run
    /\ answer \in [Observers -> Answer]
    /\ seen \in BOOLEAN
    /\ lastEpoch \in Epoch
    /\ sinceLast \in 0 .. MaxTicks
    /\ epochStateLost \in BOOLEAN
    /\ lastBoot \in Run
    /\ lastStamp \in 0 .. MaxTicks

\* Some seconds, and one for every sixteen that have passed.
Allowance(seconds, ticks) == Hz * (seconds + ticks \div (16 * Hz))

\* The time that passed at the server from one answer to the next is at most a
\* second longer, and at most two seconds shorter, than what passed at the client
\* from processing the one to processing the other, but for a drift of one
\* sixteenth.
Ahead(server, client) == server <= client + Allowance(1, server)
Behind(server, client) == client <= server + Allowance(2, client)

\* No false alarm: an answer of the same run of the server as the one before
\* never raises the flag, which "is set when epoch indicates server restart"
\* (client.go:39), whatever the fractions of a second, clocks that drift by up to
\* one sixteenth ("The +2 handles quantization, /16 (6.25%) handles clock drift",
\* client.go:326), and delays that grow by two seconds or shrink by one.
NoFalseAlarm ==
    [][\A o \in Observers :
         ( /\ UpdateEpoch(o) /\ answer[o].boot = lastBoot
           /\ Ahead(answer[o].stamp - lastStamp, sinceLast)
           /\ Behind(answer[o].stamp - lastStamp, sinceLast) )
             => epochStateLost' = epochStateLost]_vars

\* A restart is noticed by the first answer of the new run, if its server is up
\* for no longer than the last answer is ago, within the same drift and delay, and
\* had been up, when last heard, for more than the tolerance: two seconds for
\* quantization, one for the delay, and one sixteenth for each of the two elapsed
\* times.  A server that ran for less before it restarted may be missed: its new
\* epochs look like its old ones (client.go:321-336).
RestartNoticed ==
    [][\A o \in Observers :
         ( /\ UpdateEpoch(o) /\ seen /\ answer[o].boot # lastBoot
           /\ Ahead(answer[o].stamp, sinceLast)
           /\ lastEpoch > Tolerance + 1 + ClientDelta \div 16
                                        + answer[o].epoch \div 16 )
             => epochStateLost']_vars
=============================================================================
