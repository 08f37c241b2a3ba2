------------------------------ MODULE ClusterView ------------------------------
(***************************************************************************)
(* What is shown of the cluster: crates/cluster-monitor with its scanner,  *)
(* its metrics poller and its ClusterState, and the NodeMap, which         *)
(* `asmi --watch` fills from the scanner's events and reads when it starts.*)
(* A hub, asmi serve --cluster, runs the same monitor on a NodeMap that    *)
(* stays as it was read, and puts in the snapshot of its own machine.      *)
(*                                                                         *)
(* A machine is asked under a name or an address, and answers with the name*)
(* it has now. macOS renames a machine whose name it finds taken: hub,     *)
(* hub-2, hub-2-3. Parent takes the last number off a name.                *)
(***************************************************************************)
EXTENDS Naturals, Sequences, FiniteSets

CONSTANTS
    Machine, Name,
    Parent,      \* of each name: the name without its last number, or None
    Called,      \* of each machine: the names it comes to have, one by one
    Address,     \* of each machine: a name that it keeps, or None
    Known,       \* the nodes in config.json in the beginning
    Hosts,       \* --hosts
    Local,       \* the machine of the hub
    Listed,      \* the names that discovery may come up with
    None,
    Capacity,    \* of the channel of events (256 in the code)
    MaxStarts    \* bound on the restarts

ASSUME ClusterViewAssumption ==
    /\ Known \cup Hosts \cup Listed \subseteq Name /\ None \notin Name \cup Machine
    /\ Parent \in [Name -> Name \cup {None}]
    /\ Called \in [Machine -> Seq(Name)] /\ \A m \in Machine : Called[m] # <<>>
    /\ Address \in [Machine -> Name \cup {None}]
    /\ Local \in Machine /\ Capacity \in Nat \ {0} /\ MaxStarts \in Nat

VARIABLES
    hub,      \* is it the hub that runs?
    starts,   \* how often it has been started again
    calls,    \* of each machine: how many names it has had
    up,       \* the machines that answer
    real,     \* real_canonical: the nodes that were known at the start
    scan,     \* scan_results: of each name "none", "failed", or "ok"
    shown,    \* snapshots: under each name, whose, and is it online
    map,      \* the NodeMap in memory
    file,     \* config.json
    events,   \* the channel, for the task that updates the NodeMap
    scanner,  \* the scan loop: where it is, whom it still asks, what it found
    poller    \* the metrics loop, likewise

vars == <<hub, starts, calls, up, real, scan, shown, map, file, events, scanner, poller>>

Entry   == [of : Machine, online : {TRUE}] \cup [of : {None}, online : {FALSE}]
NodeMap == [nodes : SUBSET Name, alias : [Name -> Name \cup {None}]]
Event   == [kind : {"probed", "alias"}, from : Name, to : Name]

(* Every variable holds what the code can store in it; the channel never   *)
(* holds more than its capacity.                                           *)
TypeOK ==
    /\ hub \in BOOLEAN /\ starts \in 0..MaxStarts /\ up \subseteq Machine
    /\ calls \in [Machine -> Nat] /\ \A m \in Machine : calls[m] \in DOMAIN Called[m]
    /\ real \subseteq Name /\ scan \in [Name -> {"none", "failed", "ok"}]
    /\ shown \in [Name -> {None} \cup Entry]
    /\ map \in NodeMap /\ file \in NodeMap
    /\ events \in Seq(Event) /\ Len(events) <= Capacity
    /\ scanner.at \in {"start", "seeds", "waiting", "scan"}
    /\ scanner.todo \subseteq Name /\ scanner.found \subseteq Name \X BOOLEAN
    /\ poller.at \in {"waiting", "polling"}
    /\ poller.todo \subseteq Name /\ poller.found \subseteq Name \X Entry

-----------------------------------------------------------------------------
NameOf(m)  == Called[m][calls[m]]
Answers(n) == {m \in up : n \in {NameOf(m), Address[m]}}

(* Numbers are taken off a name, six at most, until it is a known node.    *)
Canonical(n, known) ==
    LET s[i \in 0..6] == IF i = 0 THEN n
                         ELSE IF s[i-1] \in known \/ Parent[s[i-1]] = None THEN s[i-1]
                         ELSE Parent[s[i-1]]
    IN  s[6]

Key(n)   == IF real = {} THEN n ELSE Canonical(n, real)
Seeds    == IF hub THEN real \ {NameOf(Local)} ELSE IF Hosts # {} THEN Hosts ELSE real
Resolve(n) == IF map.alias[n] = None THEN n ELSE map.alias[n]

(* A new process, which knows what the file says. *)
Starts(m) ==
    /\ real' = m.nodes /\ map' = m
    /\ scan' = [n \in Name |-> "none"] /\ shown' = [n \in Name |-> None] /\ events' = <<>>
    /\ scanner' = [at |-> "start", todo |-> {}, found |-> {}]
    /\ poller' = [at |-> "waiting", todo |-> {}, found |-> {}]

Init ==
    /\ hub \in BOOLEAN /\ starts = 0 /\ up = Machine /\ calls = [m \in Machine |-> 1]
    /\ file = [nodes |-> Known, alias |-> [n \in Name |-> None]]
    /\ real = file.nodes /\ map = file
    /\ scan = [n \in Name |-> "none"] /\ shown = [n \in Name |-> None] /\ events = <<>>
    /\ scanner = [at |-> "start", todo |-> {}, found |-> {}]
    /\ poller = [at |-> "waiting", todo |-> {}, found |-> {}]

Restarts ==
    /\ starts < MaxStarts /\ starts' = starts + 1
    /\ Starts(file)
    /\ UNCHANGED <<hub, calls, up, file>>

-----------------------------------------------------------------------------
(* The scan loop asks the seeds, if there are any, then the seeds and what *)
(* it discovers, and that again and again.                                 *)
Asks(how, whom) == scanner' = [at |-> how, todo |-> whom, found |-> {}]

AsksSeeds ==
    /\ scanner.at = "start" /\ Seeds # {} /\ Asks("seeds", Seeds)
    /\ UNCHANGED <<hub, starts, calls, up, real, scan, shown, map, file, events, poller>>

AsksAll ==
    /\ scanner.at = "waiting" \/ (scanner.at = "start" /\ Seeds = {})
    /\ \E peers \in SUBSET Listed : Asks("scan", Seeds \cup peers)
    /\ UNCHANGED <<hub, starts, calls, up, real, scan, shown, map, file, events, poller>>

(* Variant for TypeOK: the channel has no limit.                           *)
EmitsAll(es) == events' = IF hub THEN <<>> ELSE events \o es

(* A full channel loses its oldest event. On a hub nobody listens.         *)
Emits(es) ==
    LET all == events \o es
    IN  events' = IF hub THEN <<>>
                  ELSE IF Len(all) <= Capacity THEN all
                  ELSE SubSeq(all, Len(all) - Capacity + 1, Len(all))

Announced(n, me) ==
    <<[kind |-> "probed", from |-> me, to |-> me]>> \o
        IF me = n THEN <<>> ELSE <<[kind |-> "alias", from |-> n, to |-> me]>>

(* scan_node: who answers is entered, and announced, under its own name.   *)
Finds(n, result) ==
    scanner' = [scanner EXCEPT !.todo = @ \ {n}, !.found = @ \cup {result}]

Probes(n) ==
    /\ n \in scanner.todo
    /\ \/ Answers(n) = {} /\ Finds(n, <<n, FALSE>>) /\ UNCHANGED events
       \/ \E m \in Answers(n) :
            Finds(n, <<NameOf(m), TRUE>>) /\ Emits(Announced(n, NameOf(m)))
    /\ UNCHANGED <<hub, starts, calls, up, real, scan, shown, map, file, poller>>

(* update_scan: of the results with one name the first is kept.            *)
SeedsAreIn ==
    /\ scanner.at = "seeds" /\ scanner.todo = {}
    /\ \E first \in [Name -> BOOLEAN] :
         /\ \A f \in scanner.found : <<f[1], first[f[1]]>> \in scanner.found
         /\ scan' = [n \in Name |-> IF <<n, first[n]>> \notin scanner.found THEN "none"
                                    ELSE IF first[n] THEN "ok" ELSE "failed"]
    /\ scanner' = [at |-> "waiting", todo |-> {}, found |-> {}]
    /\ UNCHANGED <<hub, starts, calls, up, real, shown, map, file, events, poller>>

(* merge_scan: a failure does not replace what is there.                   *)
Merged(n) ==
    IF <<n, TRUE>> \in scanner.found THEN "ok"
    ELSE IF <<n, FALSE>> \in scanner.found /\ scan[n] = "none" THEN "failed"
    ELSE scan[n]

(* Variant for GoneIsOffline: the newer result replaces the older.         *)
ScanReplaces ==
    /\ scanner.at = "scan" /\ scanner.todo = {}
    /\ scan' = [n \in Name |-> IF <<n, TRUE>> \in scanner.found THEN "ok"
                               ELSE IF <<n, FALSE>> \in scanner.found THEN "failed"
                               ELSE scan[n]]
    /\ scanner' = [at |-> "waiting", todo |-> {}, found |-> {}]
    /\ UNCHANGED <<hub, starts, calls, up, real, shown, map, file, events, poller>>

(* Variant for SteadyIsShown: what is there already stays.                 *)
ScanAdds ==
    /\ scanner.at = "scan" /\ scanner.todo = {}
    /\ scan' = [n \in Name |-> IF scan[n] = "none" THEN Merged(n) ELSE scan[n]]
    /\ scanner' = [at |-> "waiting", todo |-> {}, found |-> {}]
    /\ UNCHANGED <<hub, starts, calls, up, real, shown, map, file, events, poller>>

ScanIsIn ==
    /\ scanner.at = "scan" /\ scanner.todo = {}
    /\ scan' = [n \in Name |-> Merged(n)]
    /\ scanner' = [at |-> "waiting", todo |-> {}, found |-> {}]
    /\ UNCHANGED <<hub, starts, calls, up, real, shown, map, file, events, poller>>

-----------------------------------------------------------------------------
(* poll_metrics: the names, through the aliases, each machine asked in its *)
(* own time, and all the answers put in at once, in the order of the names.*)
Polled ==
    {Resolve(n) : n \in IF \E k \in Name : scan[k] # "none" THEN {k \in Name : scan[k] = "ok"}
                        ELSE IF Seeds # {} THEN Seeds
                        ELSE {k \in Name : shown[k] # None}}

PollBegins ==
    /\ poller.at = "waiting" /\ Polled # {}
    /\ poller' = [at |-> "polling", todo |-> Polled, found |-> {}]
    /\ UNCHANGED <<hub, starts, calls, up, real, scan, shown, map, file, events, scanner>>

(* Who does not answer is offline under the name it was asked by.          *)
Collects(n) ==
    /\ n \in poller.todo
    /\ LET got == IF Answers(n) = {} THEN {<<n, [of |-> None, online |-> FALSE]>>}
                  ELSE {<<NameOf(m), [of |-> m, online |-> TRUE]>> : m \in Answers(n)}
       IN  \E r \in got :
             poller' = [poller EXCEPT !.todo = @ \ {n}, !.found = @ \cup {r}]
    /\ UNCHANGED <<hub, starts, calls, up, real, scan, shown, map, file, events, scanner>>

(* Variant for OneEntry: update_nodes takes the names as they come.        *)
PollTakesNames ==
    /\ poller.at = "polling" /\ poller.todo = {}
    /\ \E pick \in [{f[1] : f \in poller.found} -> {f[2] : f \in poller.found}] :
         /\ \A k \in DOMAIN pick : \E f \in poller.found : f[1] = k /\ f[2] = pick[k]
         /\ shown' = [n \in Name |-> IF n \in DOMAIN pick THEN pick[n] ELSE shown[n]]
    /\ poller' = [at |-> "waiting", todo |-> {}, found |-> {}]
    /\ UNCHANGED <<hub, starts, calls, up, real, scan, map, file, events, scanner>>

PollIsIn ==
    /\ poller.at = "polling" /\ poller.todo = {}
    /\ \E pick \in [{Key(f[1]) : f \in poller.found} -> {f[2] : f \in poller.found}] :
         /\ \A k \in DOMAIN pick : \E f \in poller.found : Key(f[1]) = k /\ f[2] = pick[k]
         /\ shown' = [n \in Name |-> IF n \in DOMAIN pick THEN pick[n] ELSE shown[n]]
    /\ poller' = [at |-> "waiting", todo |-> {}, found |-> {}]
    /\ UNCHANGED <<hub, starts, calls, up, real, scan, map, file, events, scanner>>

(* The poll loop of the hub's daemon enters its own snapshot.              *)
HubEnters ==
    /\ hub
    /\ shown' = [shown EXCEPT ![Key(NameOf(Local))] = [of |-> Local, online |-> TRUE]]
    /\ UNCHANGED <<hub, starts, calls, up, real, scan, map, file, events, scanner, poller>>

-----------------------------------------------------------------------------
(* The updater of the NodeMap. register_node takes numbers off the name,   *)
(* add_alias does not; the file is written when they say that they changed.*)
Updates ==
    /\ events # <<>>
    /\ LET e   == Head(events)
           new == IF e.kind = "probed"
                  THEN [map EXCEPT !.nodes = @ \cup {Canonical(e.to, @)}]
                  ELSE [map EXCEPT !.nodes = @ \cup {e.to}, !.alias[e.from] = e.to]
       IN  /\ map' = new
           /\ file' = IF (IF e.kind = "probed" THEN map.nodes # new.nodes
                          ELSE map.alias # new.alias)
                      THEN new ELSE file
    /\ events' = Tail(events)
    /\ UNCHANGED <<hub, starts, calls, up, real, scan, shown, scanner, poller>>

(* Machines go and come back, all but the one this runs on; and are renamed.*)
GoesDown(m) ==
    /\ m \in up \ {Local}
    /\ up' = up \ {m}
    /\ UNCHANGED <<hub, starts, calls, real, scan, shown, map, file, events, scanner, poller>>

ComesUp(m) ==
    /\ m \notin up
    /\ up' = up \cup {m}
    /\ UNCHANGED <<hub, starts, calls, real, scan, shown, map, file, events, scanner, poller>>

IsRenamed(m) ==
    /\ m \in up /\ calls[m] < Len(Called[m])
    /\ calls' = [calls EXCEPT ![m] = @ + 1]
    /\ UNCHANGED <<hub, starts, up, real, scan, shown, map, file, events, scanner, poller>>

-----------------------------------------------------------------------------
Scans == AsksSeeds \/ AsksAll \/ SeedsAreIn \/ ScanIsIn \/ \E n \in Name : Probes(n)
Polls == PollBegins \/ PollIsIn \/ \E n \in Name : Collects(n)

Next ==
    \/ Scans \/ Polls \/ HubEnters \/ Updates \/ Restarts
    \/ \E m \in Machine : GoesDown(m) \/ ComesUp(m) \/ IsRenamed(m)

Spec     == Init /\ [][Next]_vars
Fairness == WF_vars(Scans) /\ WF_vars(Polls) /\ WF_vars(Updates)
FairSpec == Spec /\ Fairness

-----------------------------------------------------------------------------
Shows(m) == {n \in Name : shown[n] # None /\ shown[n].of = m}

(* A machine whose names all lead to one known node is shown once: a rename *)
(* does not leave a second, stale entry beside the new one.                 *)
OneEntry ==
    \A m \in Machine :
        (real # {} /\ \A i, j \in DOMAIN Called[m] : Key(Called[m][i]) = Key(Called[m][j]))
            => Cardinality(Shows(m)) <= 1

(* What a scan has reached goes on being asked: of a machine that is gone   *)
(* for good no entry stays online that the scans have ever reached.         *)
Watched(n) == starts = MaxStarts /\ \E k \in Name : scan[k] = "ok" /\ Key(Resolve(k)) = n
GoneIsOffline ==
    \A m \in Machine \ {Local}, n \in Name :
        []<>(m \in up) \/ []~Watched(n) \/ <>[](n \notin Shows(m))

(* A seed that keeps its name and stays up comes to be shown, and stays.    *)
SteadyIsShown ==
    \A m \in Machine \ {Local} :
        <>[](m \in up /\ NameOf(m) \in Seeds) /\ [](calls[m] = 1) => <>[](Shows(m) # {})
=============================================================================
