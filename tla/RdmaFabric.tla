------------------------------ MODULE RdmaFabric ------------------------------
(***************************************************************************)
(* Addresses, topology and hostfiles of machines cabled by Thunderbolt:    *)
(* the automatic setup that each daemon runs when it starts and on         *)
(* POST /rdma/setup (rdma_autosetup.rs), the hub's scans of the topology   *)
(* (daemon_startup.rs) and the /config/sync, /jaccl/config and /rdma       *)
(* handlers (daemon.rs), while cables are moved, daemons restarted and     *)
(* machines rebooted.                                                      *)
(*                                                                         *)
(* An address 192.168.10.x is the number x; LinkLocal stands for all of    *)
(* 169.254.0.0/16. An interface has one IPv4 address: ifconfig puts a new  *)
(* one in the place of the old.                                            *)
(***************************************************************************)
EXTENDS Topology

CONSTANTS
    Hub,          \* the machine whose daemon is started with --cluster
    Plugged,      \* the cables that there are in the beginning
    Listed,       \* of each machine: the nodes of its NodeMap
    Static,       \* of each port: static_ips in settings.json, or NoAddress
    Tool,         \* the machines that have mlx.distributed_config
    Asked,        \* the lists of hosts that POST /rdma/setup may bring
    Cuts,         \* the sets of machines that may stop at one time
    Restarts,     \* the sets of daemons that may
    OldLinks,     \* rdma_links of the hub's NodeMap
    OldIps,       \* of each machine: rdma_ips of its NodeMap, {<<node, address>>}
    MaxAttempts,  \* of a discovery (12 in the code)
    MaxEvents     \* bound on what happens to the machines, cables and handlers

NoAddress == 0
LinkLocal == 4 * Cardinality(Cable) + 4

(* A port has one cable at a time.                                         *)
OneCableEach(cables) ==
    /\ cables \subseteq Cable
    /\ \A c, d \in cables : {c[1], c[2]} \cap {d[1], d[2]} # {} => c = d

ASSUME FabricAssumption ==
    /\ Hub \in Node /\ OneCableEach(Plugged) /\ Tool \subseteq Node /\ Cuts \cup Restarts \subseteq SUBSET Node
    /\ Listed \in [Node -> Seq(Node)] /\ Asked \subseteq Seq(Node)
    /\ Static \in [Port -> 0..LinkLocal] /\ OldLinks \subseteq Port \X Node
    /\ OldIps \in [Node -> SUBSET (Node \X (1..LinkLocal))]
    /\ MaxAttempts \in Nat \ {0} /\ MaxEvents \in Nat

VARIABLES
    events,   \* how much has happened, up to MaxEvents
    plugged,  \* the cables
    on,       \* the machines that are on: SSH reaches them
    serving,  \* those whose daemon answers
    addr,     \* of each port: its address
    scanned, seen,  \* thunderbolt_cache: the daemons that have one, what is in it
    setup,    \* of each machine: how far its automatic setup is
    auto,     \* of each machine: the hosts in ~/.r1o/hostfiles/auto.json
    ips,      \* of each machine: rdma_ips of its NodeMap
    cache,    \* topology_cache of the hub
    hash,     \* last_hash: the links of the hub's last scan, or None
    sync,     \* a /config/sync at the hub: "none", "asked" or "cleared"
    hostfile, \* of each number n: what is in ~/hostfile-jaccl-{n}node.json
    whole     \* has every map of the first machine been of all the cables?

boxes == <<on, serving, addr>>
scans == <<scanned, seen>>
hubs  == <<cache, hash, sync, hostfile>>
vars  == <<events, plugged, boxes, scans, setup, auto, ips, hubs, whole>>

PortsOf(n) == {p \in Port : p[1] = n}
Idle       == [at |-> "idle", hosts |-> <<>>, tries |-> 0, best |-> <<>>, again |-> FALSE,
               todo |-> <<>>, given |-> FALSE]
IsFile(f)  == \E S \in SUBSET Node : f \in [live : BOOLEAN, rdma : [S \X S -> Port \cup {None}]]

(* Every variable holds what the code can store in it.                     *)
TypeOK ==
    /\ events \in 0..MaxEvents /\ plugged \subseteq Cable
    /\ serving \subseteq on /\ on \subseteq Node /\ scanned \subseteq Node
    /\ addr \in [Port -> 0..LinkLocal]
    /\ \A n \in Node :
        /\ seen[n] \subseteq PortsOf(n) \X Port /\ auto[n] \subseteq Node
        /\ setup[n].at \in {"idle", "scan", "apply", "fallback", "file"}
        /\ setup[n].tries \in 0..MaxAttempts
        /\ setup[n].best \in Seq(Link) /\ setup[n].again \in BOOLEAN /\ setup[n].given \in BOOLEAN
        /\ \A i \in DOMAIN setup[n].todo : setup[n].todo[i].port \in Port
        /\ \A x \in ips[n] : x \in Node \X (1..LinkLocal)
    /\ cache = None \/ (cache.nodes \in Seq(Node) /\ cache.links \in Seq(Link) /\ cache.ready \in BOOLEAN)
    /\ sync \in {"none", "asked", "cleared"} /\ whole \in BOOLEAN
    /\ \A n \in DOMAIN hostfile : hostfile[n] = None \/ IsFile(hostfile[n])

Sees(n, cables) == {x \in PortsOf(n) \X Port : x \in cables \/ <<x[2], x[1]>> \in cables}

Happens == events < MaxEvents /\ events' = events + 1
CutHappens == events + 2 <= MaxEvents /\ events' = events + 2

Init ==
    /\ events = 0 /\ plugged = Plugged /\ on = Node
    /\ serving = Node /\ scanned = Node
    /\ addr = Static
    /\ seen = [n \in Node |-> Sees(n, Plugged)]
    /\ setup = [n \in Node |-> Idle]
    /\ auto = [n \in Node |-> {}] /\ ips = OldIps
    /\ cache = None /\ hash = None /\ sync = "none"
    /\ hostfile = [n \in 1..Cardinality(Node) |-> None] /\ whole = TRUE

-----------------------------------------------------------------------------
First(hosts) == CHOOSE n \in hosts : \A m \in hosts : n <= m

(* Variant for CablesAgree: any machine that is in the list takes the lead.*)
IsAny(n, hosts) == n \in Elements(hosts)

IsFirst(n, hosts) == hosts # <<>> /\ n = First(Elements(hosts))

Leads(n, hosts) == IsFirst(n, hosts) /\ Len(hosts) >= 2

(* Of the fallback: an entry of static_ips each, or, without static_ips,   *)
(* a link-local address for each port with a cable.                        *)
StaticEntries(n) == {[port |-> p, octet |-> Static[p], raw |-> FALSE] :
                        p \in {q \in PortsOf(n) : Static[q] # NoAddress}}
LinkLocalEntries(n) ==
    {[port |-> p, octet |-> LinkLocal, raw |-> FALSE] :
        p \in {q \in PortsOf(n) : \E c \in plugged : q \in {c[1], c[2]}}}
Fallback(n) ==
    InOrder([e \in (IF StaticEntries(n) # {} THEN StaticEntries(n) ELSE LinkLocalEntries(n)) |-> e.port])

FallsBack(s, n) == [s EXCEPT !.at = "fallback", !.todo = Fallback(n), !.given = Fallback(n) # <<>>]

Begin(n, hosts) ==
    LET s == [Idle EXCEPT !.hosts = hosts]
    IN  IF Leads(n, hosts) THEN [s EXCEPT !.at = "scan"] ELSE FallsBack(s, n)

-----------------------------------------------------------------------------
(* Cables and machines.                                                    *)
Replug ==
    /\ Happens
    /\ \E c \in Cable :
        plugged' = IF c \in plugged THEN plugged \ {c}
                   ELSE {d \in plugged : {c[1], c[2]} \cap {d[1], d[2]} = {}} \cup {c}
    /\ whole' = FALSE
    /\ UNCHANGED <<boxes, scans, setup, auto, ips, hubs>>

Stop(gone) ==
    /\ serving' = serving \ gone /\ scanned' = scanned \ gone
    /\ seen' = [n \in Node |-> IF n \in gone THEN {} ELSE seen[n]]
    /\ setup' = [n \in Node |-> IF n \in gone THEN Idle ELSE setup[n]]
    /\ cache' = IF Hub \in gone THEN None ELSE cache
    /\ hash' = IF Hub \in gone THEN None ELSE hash
    /\ sync' = IF Hub \in gone THEN "none" ELSE sync

DaemonsStop ==
    /\ Happens
    /\ \E gone \in Restarts : gone \subseteq on /\ Stop(gone)
    /\ UNCHANGED <<plugged, on, addr, auto, ips, hostfile, whole>>

MachinesStop ==
    /\ CutHappens
    /\ \E gone \in Cuts :
        /\ gone \subseteq on /\ Stop(gone) /\ on' = on \ gone
        /\ addr' = [p \in Port |-> IF p[1] \in gone THEN NoAddress ELSE addr[p]]
    /\ UNCHANGED <<plugged, auto, ips, hostfile, whole>>

MachineStarts(n) ==
    /\ n \notin on /\ on' = on \cup {n}
    /\ UNCHANGED <<events, plugged, serving, addr, scans, setup, auto, ips, hubs, whole>>

DaemonStarts(n) ==
    /\ n \in on \ serving /\ setup[n].at = "idle"
    /\ setup' = [setup EXCEPT ![n] = Begin(n, Listed[n])]
    /\ UNCHANGED <<events, plugged, boxes, scans, auto, ips, hubs, whole>>

(* The setup does not keep the daemon from answering.                      *)
DaemonServes(n) ==
    /\ n \in on \ serving /\ setup[n].at # "idle" /\ serving' = serving \cup {n}
    /\ UNCHANGED <<events, plugged, on, addr, scans, setup, auto, ips, hubs, whole>>

(* Each daemon looks at its own ports, every minute, and tells what it saw.*)
ScansPorts(n) ==
    /\ n \in serving
    /\ scanned' = scanned \cup {n}
    /\ seen' = [seen EXCEPT ![n] = Sees(n, plugged)]
    /\ UNCHANGED <<events, plugged, boxes, setup, auto, ips, hubs, whole>>

-----------------------------------------------------------------------------
OverHttp(hosts) == Only(hosts, serving)
OverSsh(hosts)  == Only(hosts, on)
RunsTool(n, hosts) == IF n \in Tool THEN {OfTool(hosts, plugged)} ELSE {}

(* What a discovery by n may come to. It asks the daemons; if only one or  *)
(* none answers, mlx.distributed_config; without that, the ARP tables.     *)
Discoveries(n, hosts) ==
    LET answer == OverHttp(hosts)
        tool   == IF Len(OverSsh(hosts)) >= 2 THEN RunsTool(n, OverSsh(hosts)) ELSE {}
    IN  IF Len(answer) >= 2 THEN {Report(answer, hosts, Native(answer, seen, scanned))}
        ELSE IF tool # {} THEN {Report(OverSsh(hosts), hosts, links) : links \in tool}
        ELSE {Report(hosts, hosts, links) :
                links \in OfArp(OverSsh(hosts), plugged, {p \in Port : addr[p] = LinkLocal})}

(* Discoveries are repeated until the most links so far are found again.   *)
Stable(s, links) ==
    LET more == Len(links) > Len(s.best)
        same == Len(links) = Len(s.best) /\ links # <<>>
    IN  [s EXCEPT !.tries = @ + 1, !.best = IF more THEN links ELSE @,
                  !.again = IF more THEN FALSE ELSE same \/ @]

(* Variant for TypeOK: only a stable topology ends the discoveries.        *)
DoneWhenStable(s) == s.best # <<>> /\ s.again

Done(s) == (s.best # <<>> /\ s.again) \/ s.tries = MaxAttempts

Discovers(n) ==
    /\ setup[n].at = "scan"
    /\ \E r \in Discoveries(n, setup[n].hosts) :
        LET s == Stable(setup[n], r.links)
        IN  /\ setup' = [setup EXCEPT ![n] =
                    IF ~Done(s) THEN s
                    ELSE IF s.best = <<>> THEN FallsBack(s, n)
                    ELSE [s EXCEPT !.at = "apply", !.todo = Assignment(s.best)]]
            /\ whole' = (whole /\ (Done(s) /\ n = First(Node) => Len(s.best) \in {0, Cardinality(plugged)}))
    /\ UNCHANGED <<events, plugged, boxes, scans, auto, ips, hubs>>

(* One address is given, here or over SSH to a machine that is on; iface:en5 *)
(* is no interface.                                                        *)
GivesHere(e)  == addr' = IF e.raw THEN addr ELSE [addr EXCEPT ![e.port] = e.octet]
GivesThere(e) == addr' = IF e.raw \/ e.port[1] \notin on THEN addr ELSE [addr EXCEPT ![e.port] = e.octet]

(* When no address was given here, the fallback follows.                   *)
Applies(n) ==
    LET s == setup[n]
        mine == \E l \in Elements(s.best) : ~l.raw /\ n \in {l.p[1], l.q[1]}
    IN  /\ s.at = "apply" /\ s.todo # <<>>
        /\ IF Head(s.todo).port[1] = n THEN GivesHere(Head(s.todo)) ELSE GivesThere(Head(s.todo))
        /\ setup' = [setup EXCEPT ![n] =
                IF Tail(s.todo) # <<>> THEN [s EXCEPT !.todo = Tail(@)]
                ELSE IF mine THEN [s EXCEPT !.at = "file", !.todo = <<>>, !.given = TRUE]
                ELSE FallsBack(s, n)]
        /\ UNCHANGED <<events, plugged, on, serving, scans, auto, ips, hubs, whole>>

FallbackGives(n) ==
    LET s == setup[n]
    IN  /\ s.at = "fallback"
        /\ IF s.todo = <<>>
           THEN /\ setup' = [setup EXCEPT ![n].at = "file"] /\ UNCHANGED addr
           ELSE /\ setup' = [setup EXCEPT ![n].todo = Tail(@)] /\ GivesHere(Head(s.todo))
        /\ UNCHANGED <<events, plugged, on, serving, scans, auto, ips, hubs, whole>>

(* n can send to the other end of a cable if the two are in one subnet.    *)
Reaches(n, octet) ==
    \E c \in plugged : \E p \in {c[1], c[2]} : \E q \in {c[1], c[2]} \ {p} :
        /\ p[1] = n /\ q[1] \in on /\ addr[q] = octet
        /\ octet # NoAddress /\ Subnet(addr[p]) = Subnet(octet)

(* The peers that answer at an address that the NodeMap has of them.       *)
Probed(n) == {x[1] : x \in {y \in ips[n] : y[1] # n /\ Reaches(n, y[2])}}

(* mlx.distributed_config writes those that it reaches; if it fails, the   *)
(* file of an earlier time is taken for its own.                           *)
ToolWrites(n, hosts) ==
    IF n \notin Tool THEN {} ELSE {Elements(hosts) \cap on} \cup ({auto[n]} \ {{}})
AutoFile(n, found) == IF found = {} THEN auto[n] ELSE found \cup {n}

(* Last, auto.json is written, by mlx.distributed_config or, if that does  *)
(* not do it, from the probes through the interfaces given an address.     *)
WritesAuto(n) ==
    LET s == setup[n]
        probed == AutoFile(n, IF s.given THEN Probed(n) ELSE {})
    IN  /\ s.at = "file"
        /\ \E hosts \in IF s.hosts = <<>> THEN {auto[n]}
                         ELSE ToolWrites(n, s.hosts) \cup
                              (IF n \in Tool /\ auto[n] # {} THEN {} ELSE {probed}) :
            auto' = [auto EXCEPT ![n] = hosts]
        /\ setup' = [setup EXCEPT ![n] = [Idle EXCEPT !.best = s.best]]
        /\ UNCHANGED <<events, plugged, boxes, scans, ips, hubs, whole>>

(* POST /rdma/setup; an empty list is none.                                *)
SetupIsAsked(n) ==
    /\ Happens /\ n \in serving /\ setup[n].at = "idle"
    /\ \E hosts \in Asked :
        setup' = [setup EXCEPT ![n] = Begin(n, IF hosts = <<>> THEN Listed[n] ELSE hosts)]
    /\ UNCHANGED <<plugged, boxes, scans, auto, ips, hubs, whole>>

(* GET /rdma/check, which GET /rdma/mesh asks of every node, pings what is *)
(* in the NodeMap and what the ARP table shows, and adds what answers under *)
(* the name of this machine.                                               *)
Neighbours(n) ==
    {addr[p] : p \in {q \in Port : \E c \in plugged : q \in {c[1], c[2]}
                                   /\ \E o \in {c[1], c[2]} \ {q} : o[1] = n}} \ {NoAddress}
Candidates(n, arp) == ({x[2] : x \in ips[n]} \cup arp) \ {addr[p] : p \in PortsOf(n)}

Checks(n) ==
    /\ Happens /\ n \in serving
    /\ \E arp \in SUBSET Neighbours(n) :
        ips' = [ips EXCEPT ![n] = @ \cup {<<n, a>> : a \in {b \in Candidates(n, arp) : Reaches(n, b)}}]
    /\ UNCHANGED <<plugged, boxes, scans, setup, auto, hubs, whole>>

-----------------------------------------------------------------------------
(* The hub looks for the topology every minute. If the links have changed, *)
(* it sends itself a /config/sync.                                         *)
ScansTopology ==
    /\ Hub \in serving /\ sync # "asked" /\ Listed[Hub] # <<>>
    /\ \E r \in Discoveries(Hub, Listed[Hub]) :
        /\ cache' = r /\ hash' = Elements(r.links)
        /\ sync' = IF hash \notin {None, Elements(r.links)} THEN "asked" ELSE sync
    /\ UNCHANGED <<events, plugged, boxes, scans, setup, auto, ips, hostfile, whole>>

SyncIsAsked ==
    /\ Happens /\ Hub \in serving /\ sync = "none" /\ sync' = "asked"
    /\ UNCHANGED <<plugged, boxes, scans, setup, auto, ips, cache, hash, hostfile, whole>>

(* /config/sync: the caches are emptied, and then a hostfile is asked for. *)
SyncClears ==
    /\ sync = "asked" /\ sync' = "cleared" /\ cache' = None
    /\ scanned' = scanned \ {Hub} /\ seen' = [seen EXCEPT ![Hub] = {}]
    /\ UNCHANGED <<events, plugged, boxes, setup, auto, ips, hash, hostfile, whole>>

(* POST /jaccl/config: of the cached topology if it has links, or else of  *)
(* the links in the NodeMap, if it has any.                                *)
Generated == IF cache # None /\ cache.links # <<>> THEN OfReport(cache)
             ELSE OfNodeMap(Elements(Listed[Hub]), Hub, OldLinks)

(* GET /jaccl/config: a cached topology without links is not passed over.  *)
Served == IF cache # None /\ cache.links = <<>> THEN None ELSE Generated

HostsOf(f) == {x[1] : x \in DOMAIN f.rdma}

Writes ==
    LET f == Generated
    IN  hostfile' = IF (~f.live /\ OldLinks = {}) \/ HostsOf(f) = {} THEN hostfile
                    ELSE [hostfile EXCEPT ![Cardinality(HostsOf(f))] = f]

SyncWrites ==
    /\ sync = "cleared" /\ sync' = "none" /\ Writes
    /\ UNCHANGED <<events, plugged, boxes, scans, setup, auto, ips, cache, hash, whole>>

HostfileIsAsked ==
    /\ Happens /\ Hub \in serving /\ Writes
    /\ UNCHANGED <<plugged, boxes, scans, setup, auto, ips, cache, hash, sync, whole>>

(* In GET /rdma/mesh: for each peer of n the first address that the links  *)
(* in the cache would give it and that answers.                            *)
BestIp(n) ==
    LET given == Assignment(cache.links)
        mine  == {k \in DOMAIN given : given[k].port[1] # n /\ Reaches(n, given[k].octet)
                    /\ \E j \in {k - 1, k + 1} \cap DOMAIN given :
                        Subnet(given[j].octet) = Subnet(given[k].octet) /\ given[j].port[1] = n}
    IN  [m \in {given[k].port[1] : k \in mine} |->
            given[CHOOSE k \in mine : given[k].port[1] = m /\ \A j \in mine : given[j].port[1] = m => k <= j].octet]

Next ==
    \/ Replug \/ DaemonsStop \/ MachinesStop
    \/ ScansTopology \/ SyncIsAsked \/ SyncClears \/ SyncWrites \/ HostfileIsAsked
    \/ \E n \in Node :
        \/ MachineStarts(n) \/ DaemonStarts(n)
        \/ DaemonServes(n) \/ ScansPorts(n) \/ Discovers(n) \/ Applies(n)
        \/ FallbackGives(n) \/ WritesAuto(n) \/ SetupIsAsked(n) \/ Checks(n)

Spec == Init /\ [][Next]_vars

-----------------------------------------------------------------------------
Settled == on = Node /\ serving = Node /\ \A n \in Node : setup[n].at = "idle"

Agree(c) == /\ NoAddress \notin {addr[c[1]], addr[c[2]]} /\ addr[c[1]] # addr[c[2]]
            /\ Subnet(addr[c[1]]) = Subnet(addr[c[2]])

(* The settings that go with the cables: every NodeMap lists the machines, *)
(* no two cables have the same place in the order of the addresses, and    *)
(* static_ips says what the first machine gives.                           *)
KeyOf(c) == Key([p |-> c[1], q |-> c[2], raw |-> FALSE])
Turn(c)  == Cardinality({d \in Plugged : Before(KeyOf(d), KeyOf(c))})
WellKept ==
    /\ \A n \in Node : Elements(Listed[n]) = Node
    /\ \A hosts \in Asked : hosts = <<>> \/ Elements(hosts) = Node
    /\ \A c, d \in Plugged : KeyOf(c) = KeyOf(d) => c = d
    /\ \A c \in Plugged : Static[c[1]] = 4 * Turn(c) + 1 /\ Static[c[2]] = 4 * Turn(c) + 2

(* When no setup is going on, the ends of each cable have two addresses of *)
(* one subnet, and no two cables share a subnet, however the daemons and   *)
(* machines were restarted: as long as the first machine saw every cable   *)
(* each time, and static_ips says what it gives. It is what the remark     *)
(* about the coordinator in autosetup promises. And the address that        *)
(* /rdma/mesh calls the best for a peer is one of that peer.               *)
CablesAgree ==
    Settled /\ whole =>
        /\ \A c \in plugged : Agree(c)
        /\ \A c, d \in plugged : Subnet(addr[c[1]]) = Subnet(addr[d[1]]) => c = d
        /\ cache # None /\ Len(cache.links) = Cardinality(plugged) =>
              \A m \in DOMAIN BestIp(Hub) : \E p \in PortsOf(m) : addr[p] = BestIp(Hub)[m]

(* In a hostfile made of the cached topology, written or served, the       *)
(* devices that two hosts have for each other are the two ends of one      *)
(* cable, and if the report says that the mesh is complete none is left    *)
(* out.                                                                    *)
PairsUp(f) ==
    \A x \in DOMAIN f.rdma :
        LET d == f.rdma[x]
            e == f.rdma[<<x[2], x[1]>>]
        IN  /\ d = None <=> e = None
            /\ d # None => d[1] = x[1] /\ e[1] = x[2] /\ (<<d, e>> \in Cable \/ <<e, d>> \in Cable)
HostfilePairsUp ==
    /\ \A n \in DOMAIN hostfile : hostfile[n] # None /\ hostfile[n].live => PairsUp(hostfile[n])
    /\ Served # None /\ Served.live =>
        /\ PairsUp(Served)
        /\ cache.missing = {} => \A x \in DOMAIN Served.rdma : x[1] # x[2] => Served.rdma[x] # None
        /\ cache.ready => \A i, j \in DOMAIN cache.links :
              LET m == cache.links[i].p[1]
                  n == cache.links[j].q[1]
              IN  {m, n} \subseteq HostsOf(Served) /\ m # n => Served.rdma[<<m, n>>] # None
=============================================================================
