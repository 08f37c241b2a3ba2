------------------------------- MODULE Topology -------------------------------
(***************************************************************************)
(* The algorithms on Thunderbolt cables: topology.rs, the choice of        *)
(* addresses in rdma_autosetup.rs and the matrix of devices that the /jaccl *)
(* handlers of daemon.rs and NodeMap::hostfile_jaccl make.                 *)
(*                                                                         *)
(* A machine is the place of its name in the order of the names. A port is *)
(* <<machine, interface>>: <<2, 5>> is en5 of the second machine. A link   *)
(* has its ends p and q, and raw says that it names interfaces instead of  *)
(* RDMA devices.                                                           *)
(***************************************************************************)
EXTENDS Naturals, Sequences, FiniteSets

CONSTANTS
    Node,   \* the machines
    Port,   \* their Thunderbolt ports
    Cable,  \* the cables that there may be
    None

ASSUME TopologyAssumption ==
    /\ Node \subseteq Nat /\ Port \subseteq Node \X Nat /\ IsFiniteSet(Node) /\ IsFiniteSet(Port)
    /\ Cable \subseteq {c \in Port \X Port : c[1][1] < c[2][1]}
    /\ None \notin Node /\ None \notin Port

Link     == [p : Port, q : Port, raw : BOOLEAN]
Ends(l)  == {l.p, l.q}
Joins(l) == <<l.p[1], l.q[1]>>
LinkOf(p, q, raw) == IF p[1] < q[1] THEN [p |-> p, q |-> q, raw |-> raw]
                                    ELSE [p |-> q, q |-> p, raw |-> raw]

Elements(s) == {s[i] : i \in DOMAIN s}
IndexIn(s, x) == CHOOSE i \in DOMAIN s : s[i] = x
Smaller(m, n) == IF m < n THEN m ELSE n

(* The lexicographic order of tuples of numbers of one length.             *)
Before(x, y) == \E i \in DOMAIN x : x[i] < y[i] /\ \A j \in 1..(i - 1) : x[j] = y[j]

(* The domain of key as a sequence, in the order of its values, which are  *)
(* such tuples.                                                            *)
InOrder(key) ==
    [i \in 1..Cardinality(DOMAIN key) |->
        CHOOSE x \in DOMAIN key : Cardinality({y \in DOMAIN key : Before(key[y], key[x])}) = i - 1]

(* The members of a set that a sequence has, in the order of the sequence. *)
Only(s, S) ==
    LET at == InOrder([i \in {j \in DOMAIN s : s[j] \in S} |-> <<i>>])
    IN  [k \in DOMAIN at |-> s[at[k]]]

-----------------------------------------------------------------------------
(* What the hosts tell of their ports: seen[n] is a set of <<port, port>>, *)
(* of each port with the one at the other end. The port at the other end   *)
(* counts if its machine is another one and tells of its ports too.        *)
Told(answers, seen) ==
    {x \in UNION {seen[n] : n \in answers} : x[2][1] \in answers /\ x[1][1] # x[2][1]}

(* The links come in the order in which the hosts, and the ports of each,  *)
(* are gone through.                                                       *)
Native(hosts, seen, scanned) ==
    LET told == Told(Elements(hosts) \cap scanned, seen)
        Sight(p) == <<IndexIn(hosts, p[1]), p[2]>>
        First(l) == LET by == {x[1] : x \in {y \in told : Ends(l) = {y[1], y[2]}}}
                    IN  Sight(CHOOSE p \in by : \A q \in by \ {p} : Before(Sight(p), Sight(q)))
    IN  InOrder([l \in {LinkOf(x[1], x[2], FALSE) : x \in told} |-> First(l)])

Among(hosts, plugged) == {c \in plugged : {c[1][1], c[2][1]} \subseteq Elements(hosts)}
ByEnds(links) == InOrder([l \in links |-> <<l.p[1], l.q[1], l.p[2], l.q[2]>>])

(* mlx.distributed_config looks at the machines themselves.                *)
OfTool(hosts, plugged) ==
    ByEnds({LinkOf(c[1], c[2], FALSE) : c \in Among(hosts, plugged)})

(* An ARP table shows some of the cables whose ends have link-local        *)
(* addresses.                                                              *)
ArpEntries(hosts, plugged, local) ==
    SUBSET {c \in Among(hosts, plugged) : {c[1], c[2]} \subseteq local}

(* From these one link is made for two machines, of interfaces.            *)
OfArp(hosts, plugged, local) ==
    {ByEnds({LinkOf(c[1], c[2], TRUE) : c \in s}) :
        s \in {t \in ArpEntries(hosts, plugged, local) : \A c, d \in t :
                    <<c[1][1], c[2][1]>> = <<d[1][1], d[2][1]>> => c = d}}

-----------------------------------------------------------------------------
Connected(links) == {Joins(links[i]) : i \in DOMAIN links}
FullMesh(S, links) == \A m, n \in S : m < n => <<m, n>> \in Connected(links)

(* The pairs are taken in the order of the hosts, and looked for in the    *)
(* order of the names.                                                     *)
Missing(nodes, links) ==
    {<<nodes[x[1]], nodes[x[2]]>> : x \in
        {y \in (DOMAIN nodes) \X (DOMAIN nodes) :
            y[1] < y[2] /\ <<nodes[y[1]], nodes[y[2]]>> \notin Connected(links)}}

(* Sets of places in the list of hosts, of three hosts at least and never  *)
(* all of them, and none within another.                                   *)
Subsets(nodes, links) ==
    LET mesh == {S \in SUBSET DOMAIN nodes :
                    /\ Cardinality(S) >= 3 /\ S # DOMAIN nodes
                    /\ FullMesh({nodes[i] : i \in S}, links)}
    IN  {S \in mesh : \A T \in mesh : S \subseteq T => S = T}

JacclReady(links) ==
    LET on == UNION {{links[i].p[1], links[i].q[1]} : i \in DOMAIN links}
    IN  Cardinality(on) >= 2 /\ FullMesh(on, links)

(* What is kept of a discovery: the hosts that answered, then the others,  *)
(* the links and what the mesh of them lacks.                              *)
Report(reached, hosts, links) ==
    LET nodes == reached \o Only(hosts, Elements(hosts) \ Elements(reached))
    IN  [nodes |-> nodes, links |-> links, missing |-> Missing(nodes, links),
         ready |-> JacclReady(links), subsets |-> Subsets(nodes, links)]

-----------------------------------------------------------------------------
Key(l) == <<l.p[1], l.q[1], Smaller(l.p[2], l.q[2])>>

(* The place of a link after a stable sort by Key; the first has place 0.  *)
Place(links, i) ==
    Cardinality({j \in DOMAIN links : \/ Before(Key(links[j]), Key(links[i]))
                                      \/ Key(links[j]) = Key(links[i]) /\ j < i})

(* The last part of the address, 192.168.10.x, that each end is to have.   *)
Octet(links, i, p) == 4 * Place(links, i) + (IF p = links[i].p THEN 1 ELSE 2)
Subnet(octet) == octet \div 4

(* In that order: which port of which link is to have which address.       *)
Assignment(links) ==
    LET sorted == [k \in DOMAIN links |-> CHOOSE i \in DOMAIN links : Place(links, i) = k - 1]
    IN  [k \in 1..(2 * Len(links)) |->
            LET i == sorted[(k + 1) \div 2]
                p == IF k % 2 = 1 THEN links[i].p ELSE links[i].q
            IN  [port |-> p, octet |-> Octet(links, i, p), raw |-> links[i].raw]]

-----------------------------------------------------------------------------
(* Of the largest ready subsets the last one in the order of combinations; *)
(* without any, all the hosts.                                             *)
Chosen(report) ==
    LET ready == report.subsets
        most  == {S \in ready : \A T \in ready : Cardinality(T) <= Cardinality(S)}
        Apart(S, T) == (S \ T) \cup (T \ S)
        Later(S, T) == \E x \in T \ S : \A y \in Apart(S, T) : x <= y
        last  == CHOOSE S \in most : \A T \in most \ {S} : Later(S, T)
    IN  {report.nodes[i] : i \in IF ready = {} THEN DOMAIN report.nodes ELSE last}

(* Variant for HostfilePairsUp: the first device of the link, whosever.    *)
DeviceOfLink(links, m, n) ==
    LET on == {i \in DOMAIN links : {links[i].p[1], links[i].q[1]} = {m, n}}
    IN  IF on = {} \/ m = n THEN None ELSE links[CHOOSE i \in on : \A j \in on : i <= j].p

(* The device of m on the first link between m and n.                      *)
Device(links, m, n) ==
    LET on == {i \in DOMAIN links : {links[i].p[1], links[i].q[1]} = {m, n}}
        l  == links[CHOOSE i \in on : \A j \in on : i <= j]
    IN  IF on = {} \/ m = n THEN None ELSE IF l.p[1] = m THEN l.p ELSE l.q

OfReport(report) ==
    LET hosts == Chosen(report)
    IN  [live |-> TRUE, rdma |-> [x \in hosts \X hosts |-> Device(report.links, x[1], x[2])]]

(* known is what the NodeMap has: the ports of this machine and, for each, *)
(* the machine at the other end. For a machine at the other end the device *)
(* of this one is put.                                                     *)
OfNodeMap(nodes, local, known) ==
    LET to(n)  == {k \in known : k[2] = n}
        least(n) == (CHOOSE k \in to(n) : \A j \in to(n) : k[1][2] <= j[1][2])[1]
        hosts  == {n \in nodes : n = local \/ to(n) # {}}
        dev(n) == IF to(n) = {} THEN None ELSE least(n)
    IN  [live |-> FALSE,
         rdma |-> [x \in hosts \X hosts |->
                      IF x[1] = x[2] THEN None
                      ELSE IF x[1] = local THEN dev(x[2])
                      ELSE IF x[2] = local THEN dev(x[1]) ELSE None]]
=============================================================================
