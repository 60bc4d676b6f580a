---------------------------- MODULE MappingPromise ----------------------------
(***************************************************************************)
(* What a gateway object promises the goroutines that call AddPortMapping  *)
(* and DeletePortMapping on it: the abstract specification of the methods  *)
(* of the NAT interface (nat.go:36-39).                                    *)
(*                                                                         *)
(* A call asks for a mapping to be created or deleted; what was asked may  *)
(* be carried out by the gateway, more than once, or not at all.  The      *)
(* promise is about success.  A create that succeeds leaves a mapping, a   *)
(* delete none, and both are final: nothing asked for the mapping before,  *)
(* be it by a call that failed, is carried out afterwards.  The gateway    *)
(* touches no mapping without being asked, except to drop it (lifetime,    *)
(* reboot).                                                                *)
(*                                                                         *)
(* What a call reports is not a variable here; a success is the step named *)
(* Succeeds.  An implementation keeps the promise if its behaviours are    *)
(* behaviours of Spec and its successful returns are steps of that name.   *)
(*                                                                         *)
(* A gateway object that can lose track of a mapping says of which: of a   *)
(* mapping in doubt nothing is promised any more.  Which implementation    *)
(* keeps the promise, and how much of it, is what the modules that         *)
(* instantiate this one show.                                              *)
(***************************************************************************)
CONSTANTS
    Callers,   \* goroutines that call the gateway object
    Keys,      \* mappings: protocol and internal port
    NoKey      \* absent value

VARIABLES
    pending,   \* what each caller has asked and not been told the outcome of
    asked,     \* what may still be carried out on each mapping
    mapped,    \* the mappings of this process that the gateway has
    gone,      \* those it had and dropped of its own accord
    doubted    \* those the gateway object may have lost track of

vars == <<pending, asked, mapped, gone, doubted>>

Op == {"create", "delete"}

NoCall == [op |-> "none", key |-> NoKey]

Init ==
    /\ pending = [c \in Callers |-> NoCall]
    /\ asked = [k \in Keys |-> {}]
    /\ mapped = {} /\ gone = {} /\ doubted = {}

\* Requests may always turn out never to be carried out.
OnlyFewer == \A k \in Keys : asked'[k] \subseteq asked[k]

\* A call may leave mappings in doubt; doubts do not go away.
MayDoubt == doubted \subseteq doubted'

Begin(c, op, k) ==
    /\ pending[c] = NoCall
    /\ pending' = [pending EXCEPT ![c] = [op |-> op, key |-> k]]
    /\ asked' = [asked EXCEPT ![k] = @ \cup {op}]
    /\ UNCHANGED <<mapped, gone, doubted>>

\* What the callers other than c ask for k.
OthersAsk(c, k) ==
    {pending[d].op : d \in {e \in Callers \ {c} : pending[e].key = k}}

Done(op, k) == IF op = "create" THEN k \in mapped \cup gone ELSE k \notin mapped

\* Success, or a mapping is in doubt from now on.  GetExternalAddress goes on to
\* delete what it created.
Succeeds(c) ==
    LET k == pending[c].key
        op == pending[c].op IN
    /\ pending[c] # NoCall
    /\ k \in doubted' \/ Done(op, k)
    /\ \/ pending' = [pending EXCEPT ![c] = NoCall]
       \/ pending' = [pending EXCEPT ![c] = [op |-> "delete", key |-> k]]
    /\ \A j \in Keys \ {k} : asked'[j] \subseteq asked[j]
    /\ MayDoubt
    /\ k \in doubted' \/ asked'[k] \subseteq
                           {op, pending'[c].op} \cup OthersAsk(c, k)
    /\ UNCHANGED <<mapped, gone>>

\* Failure promises nothing, and what was asked may still be carried out.
Fails(c) ==
    /\ pending[c] # NoCall
    /\ pending' = [pending EXCEPT ![c] = NoCall]
    /\ OnlyFewer /\ MayDoubt
    /\ UNCHANGED <<mapped, gone>>

\* A call goes wrong on the way and does not end.
Stumbles(c) ==
    /\ pending[c] # NoCall
    /\ OnlyFewer /\ MayDoubt
    /\ UNCHANGED <<pending, mapped, gone>>

\* S and T agree on the mappings that are not in doubt.
Surely(S, T) == S \ doubted = T \ doubted

CarriesOut(k, op) ==
    /\ op \in asked[k] \/ k \in doubted
    /\ IF op = "create"
         THEN Surely(mapped', mapped \cup {k}) /\ Surely(gone', gone \ {k})
         ELSE Surely(mapped', mapped \ {k}) /\ gone' \ doubted \subseteq gone
    /\ OnlyFewer
    /\ UNCHANGED <<pending, doubted>>

Drops(k) ==
    /\ k \in mapped
    /\ mapped' = mapped \ {k} /\ gone' = gone \cup {k}
    /\ UNCHANGED <<pending, asked, doubted>>

\* A request is lost, refused or repeated, or the gateway maps for others.
Quiet ==
    /\ OnlyFewer /\ gone' \subseteq gone
    /\ UNCHANGED <<pending, mapped, doubted>>

\* The process ends and another starts, which knows of no mapping.
Dies ==
    /\ pending' = [c \in Callers |-> NoCall]
    /\ asked' = [k \in Keys |-> {}]
    /\ mapped' = {} /\ gone' = {} /\ doubted' = {}

Next ==
    \/ \E c \in Callers :
         \/ \E op \in Op, k \in Keys : Begin(c, op, k)
         \/ Succeeds(c) \/ Fails(c) \/ Stumbles(c)
    \/ \E k \in Keys :
         \/ \E op \in Op : CarriesOut(k, op)
         \/ Drops(k)
    \/ Quiet
    \/ Dies

Spec == Init /\ [][Next]_vars
=============================================================================
