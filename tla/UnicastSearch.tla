----------------------------- MODULE UnicastSearch ----------------------------
(***************************************************************************)
(* How one goroutine finds a UPnP gateway (upnp.go): it collects the URLs  *)
(* of device descriptions, fetches one after the other, and settles on the *)
(* best WAN connection service of the first that has NAT enabled.          *)
(* discoverUPNPUnicast searches the gateway for three targets in turn and  *)
(* follows only URLs that name the gateway's own address;                  *)
(* discoverUPNP_GenIGDev multicasts one search and follows any.            *)
(*                                                                         *)
(* Devices are external: who answers, with which URLs, in which order and  *)
(* how often is open, and so is what a description offers and whether a    *)
(* service has NAT enabled.  A service is its rank, 0 for those of no use. *)
(*                                                                         *)
(* A definition whose name ends in Mutant is used by no specification: it  *)
(* is a plausible bug of the definition that follows it.                   *)
(***************************************************************************)
EXTENDS Naturals, Sequences

CONSTANTS
    Locations,      \* description URLs
    OwnLocations,   \* those whose host is the gateway's address
    Targets,        \* search targets of a unicast search: three
    MaxAnswers,     \* bound: answers to one search
    MaxServices     \* bound: services of a description

VARIABLES
    by,         \* which of the two goroutines searches, if one does
    at,         \* where it is
    target,     \* searches made so far
    todo,       \* URLs still to be looked at, from the last search
    checked,    \* URLs seen
    offered,    \* the services of the description at hand, in its order
    asking,     \* indices of those still to be asked, best first
    refused,    \* history: those asked that did not have NAT enabled
    answered,   \* history: URLs that any search was answered with
    fetched     \* history: URLs fetched, in order

searchVars == <<by, at, target, todo, checked, offered, asking, refused,
                answered, fetched>>

Ranks == 0 .. 3

SeqsUpTo(S, n) == UNION {[1 .. m -> S] : m \in 0 .. n}

Elements(s) == {s[i] : i \in DOMAIN s}

SearchInit ==
    /\ by \in {"unicast", "multicast"}
    /\ at = "search"
    /\ target = 0
    /\ todo = <<>> /\ checked = {}
    /\ offered = <<>> /\ asking = <<>> /\ refused = {}
    /\ answered = {} /\ fetched = <<>>

-----------------------------------------------------------------------------
TargetsLeftMutant == IF by = "unicast" THEN Targets - 1 ELSE 1

\* How many searches there are to make.
TargetsLeft == IF by = "unicast" THEN Targets ELSE 1

\* searchUPNPUnicast, ssdp.Search: an error, or no answers, leads to the next
\* target; answers that are not from an InternetGatewayDevice do not count.
Searches ==
    /\ at = "search" /\ todo = <<>> /\ target < TargetsLeft
    /\ \E answers \in SeqsUpTo(Locations, MaxAnswers) :
         /\ todo' = answers
         /\ answered' = answered \cup Elements(answers)
    /\ target' = target + 1
    /\ UNCHANGED <<by, at, checked, offered, asking, refused, fetched>>

\* No target is left, and nothing was found.
Exhausted ==
    /\ at = "search" /\ todo = <<>> /\ target = TargetsLeft
    /\ at' = "notFound"
    /\ UNCHANGED <<by, target, todo, checked, offered, asking, refused,
                   answered, fetched>>

\* The context is looked at before each search of a target.
CtxDone ==
    /\ at = "search" /\ todo = <<>> /\ by = "unicast"
    /\ at' = "gaveUp"
    /\ UNCHANGED <<by, target, todo, checked, offered, asking, refused,
                   answered, fetched>>

LocationHasAddrMutant(l) == TRUE

\* locationHasAddr.
LocationHasAddr(l) == l \in OwnLocations

\* A URL seen before, or one of another host, is not followed.
Follow(l) == by = "unicast" => l \notin checked /\ LocationHasAddr(l)

Seen(l) == IF by = "unicast" THEN checked \cup {l} ELSE checked

Skips ==
    /\ at = "search" /\ todo # <<>> /\ ~Follow(Head(todo))
    /\ checked' = Seen(Head(todo))
    /\ todo' = Tail(todo)
    /\ UNCHANGED <<by, at, target, offered, asking, refused, answered, fetched>>

\* The indices of the services of one rank, in the device's order.
OfRank(s, r) ==
    LET among[n \in 0 .. Len(s)] ==
          IF n = 0 THEN <<>>
          ELSE IF s[n] = r THEN Append(among[n - 1], n) ELSE among[n - 1]
    IN  among[Len(s)]

PreferredMutant(s) == OfRank(s, 3) \o OfRank(s, 1) \o OfRank(s, 2)

\* Useful services, the best first, those of one rank in the device's order.
Preferred(s) == OfRank(s, 3) \o OfRank(s, 2) \o OfRank(s, 1)

\* natFromUPNPLocation: the description, which the device may fail to give.
Fetches ==
    /\ at = "search" /\ todo # <<>> /\ Follow(Head(todo))
    /\ checked' = Seen(Head(todo))
    /\ todo' = Tail(todo)
    /\ fetched' = Append(fetched, Head(todo))
    /\ \/ at' = at /\ UNCHANGED <<offered, asking, refused>>
       \/ \E services \in SeqsUpTo(Ranks, MaxServices) :
            /\ at' = "ask"
            /\ offered' = services
            /\ asking' = Preferred(services)
            /\ refused' = {}
    /\ UNCHANGED <<by, target, answered>>

\* natFromUPNPService: an error, or NAT disabled; after the last service the
\* search goes on.
NotUsable ==
    /\ at = "ask"
    /\ IF asking = <<>>
         THEN /\ at' = "search"
              /\ offered' = <<>> /\ refused' = {} /\ UNCHANGED asking
         ELSE /\ asking' = Tail(asking)
              /\ refused' = refused \cup {Head(asking)}
              /\ UNCHANGED <<at, offered>>
    /\ UNCHANGED <<by, target, todo, checked, answered, fetched>>

\* NAT is enabled.
Usable ==
    /\ at = "ask" /\ asking # <<>>
    /\ at' = "found"
    /\ UNCHANGED <<by, target, todo, checked, offered, asking, refused,
                   answered, fetched>>

\* The goroutine ends, and its variables with it.
Vanishes ==
    /\ target' = 0
    /\ todo' = <<>> /\ checked' = {}
    /\ offered' = <<>> /\ asking' = <<>> /\ refused' = {}
    /\ answered' = {} /\ fetched' = <<>>

\* discoverUPNPUnicastWithAddr sends the gateway to its reader and ends, or the
\* context ends before anyone reads it.
HandsOver ==
    /\ at = "found"
    /\ at' \in {"inUse", "gaveUp"}
    /\ by' = "nobody"
    /\ Vanishes

\* The program discovers its gateway again.
BeginsAnew ==
    /\ at \in {"inUse", "gaveUp", "notFound"}
    /\ by' \in {"unicast", "multicast"}
    /\ at' = "search"
    /\ Vanishes

SearchNext ==
    \/ Searches \/ Exhausted \/ CtxDone
    \/ Skips \/ Fetches \/ NotUsable \/ Usable
    \/ HandsOver
-----------------------------------------------------------------------------
(* Properties.                                                             *)

\* The service taken is the best one the device would let it take: every one of
\* a better rank, and of the same rank listed before it, was asked and did not
\* have NAT enabled (upnp.go:377-407).
BestService ==
    at = "found" =>
      \A i \in DOMAIN offered :
        LET best == Head(asking) IN
        \/ offered[i] > offered[best]
        \/ offered[i] = offered[best] /\ i < best
        => i \in refused

\* A unicast search follows only URLs of the gateway, each once however often
\* it is answered with, and reports that there is none only after it followed
\* all of them, whichever of the targets they answered (upnp.go:253-285).
SearchIsExact ==
    by = "unicast" =>
      /\ Elements(fetched) \subseteq answered \cap OwnLocations
      /\ \A i, j \in DOMAIN fetched : fetched[i] = fetched[j] => i = j
      /\ at = "notFound" =>
           target = Targets /\ Elements(fetched) = answered \cap OwnLocations
=============================================================================
