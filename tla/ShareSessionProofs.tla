------------------------- MODULE ShareSessionProofs -------------------------
(***************************************************************************)
(* Why rank 0 never starts without its crew, why a worker on a peer can be *)
(* stopped, and why the file names what the hub has reported Ready, for    *)
(* any machines, sessions, lists of hosts and process ids and any choice   *)
(* of events.                                                              *)
(***************************************************************************)
EXTENDS ShareSession, SequenceTheorems, TLAPS

USE ShareSessionAssumption

(* Every rank from 1 up to n, without n, is in the crew c.                 *)
Crewed(n, c) == \A r \in Nat : 1 <= r /\ r < n => r \in c

(* What a load knows of its crew c. While no peer has failed, each rank    *)
(* that it has asked has a worker; it goes on to rank 0 only after all.    *)
Knows(l, c) ==
    /\ l.pc = "awaiting" => l.next < Len(l.hosts)
    /\ l.pc \in {"recruiting", "awaiting"} => l.hosts \in Hostfile
    /\ l.pc \in {"recruiting", "awaiting"} /\ ~l.failed => Crewed(l.next, c)
    /\ l.pc \in {"spawning", "remote", "polling", "settling"} => Crewed(Len(l.hosts), c)

(* A peer that has started a worker is in the crew.                        *)
Started(j) == j.pc \in {"spawned", "ok"}
JoinsCount == \A s \in Session, r \in Rank : Started(join[s][r]) => r \in crew[s]

(* The session that the hub reports Ready has begun, and has its crew.     *)
ReadyHasCrew ==
    LET s == mgr[Hub].session IN
    mgr[Hub].state = "Ready" =>
        /\ s \in Session /\ load[s].pc # "new"
        /\ Crewed(Len(load[s].hosts), crew[s])

Types ==
    /\ mgr \in [Node -> Managed]
    /\ load \in [Session -> Loads]
    /\ join \in [Session -> [Rank -> Joins]]
    /\ crew \in [Session -> SUBSET Rank]

Inv == Types /\ (\A s \in Session : Knows(load[s], crew[s])) /\ JoinsCount /\ ReadyHasCrew

-----------------------------------------------------------------------------
LEMMA RanksAre ==
  /\ Rank \subseteq Nat
  /\ \A hosts \in Hostfile : Len(hosts) \in Nat /\ \A r \in Nat : r < Len(hosts) => r \in Rank
<1>1. \A hosts \in Hostfile : Len(hosts) \in Nat
  BY LenProperties
<1>2. \A n \in Size : n \in Nat
  BY <1>1 DEF Size
<1> QED BY <1>1, <1>2 DEF Rank, Size

LEMMA HostsLength ==
  ASSUME Types, NEW s \in Session
  PROVE  Len(load[s].hosts) \in Nat /\ load[s].hosts \in Hostfile \cup {<<>>} /\ load[s].next \in Nat
<1>1. load[s].hosts \in Hostfile \cup {<<>>} /\ load[s].next \in Nat
  BY DEF Types, Loads
<1> QED BY <1>1, RanksAre

(* What is known of a crew stays known when it grows.                      *)
LEMMA KnowsMore ==
  ASSUME NEW l, NEW c, NEW d, c \subseteq d, Knows(l, c)
  PROVE  Knows(l, d)
BY DEF Knows, Crewed

(* One session's load moves on, crews grow, requests that have started a   *)
(* worker are counted, and the hub says Ready of this session or of the    *)
(* one it did.                                                             *)
LEMMA OneMoves ==
  ASSUME Inv, Types', NEW s \in Session,
         \A t \in Session : crew[t] \subseteq crew'[t],
         \A t \in Session \ {s} : load'[t] = load[t],
         Knows(load'[s], crew'[s]),
         \A t \in Session, r \in Rank : Started(join'[t][r]) => Started(join[t][r]) \/ r \in crew'[t],
         load[s].pc # "new" => load'[s].pc # "new" /\ load'[s].hosts = load[s].hosts,
         mgr'[Hub].state = "Ready" =>
            \/ mgr[Hub].state = "Ready" /\ mgr'[Hub].session = mgr[Hub].session
            \/ /\ mgr'[Hub].session = s /\ load'[s].pc # "new"
               /\ Crewed(Len(load'[s].hosts), crew'[s])
  PROVE  Inv'
<1>1. \A t \in Session : Knows(load'[t], crew'[t])
  BY KnowsMore DEF Inv
<1>2. JoinsCount'
  BY DEF Inv, JoinsCount
<1>3. ReadyHasCrew'
  <2> SUFFICES ASSUME mgr'[Hub].state = "Ready" PROVE ReadyHasCrew'
    BY DEF ReadyHasCrew
  <2> USE DEF Crewed
  <2>1. CASE mgr[Hub].state = "Ready" /\ mgr'[Hub].session = mgr[Hub].session
    <3>1. /\ mgr[Hub].session \in Session /\ load[mgr[Hub].session].pc # "new"
          /\ Crewed(Len(load[mgr[Hub].session].hosts), crew[mgr[Hub].session])
      BY <2>1 DEF Inv, ReadyHasCrew
    <3>2. load'[mgr[Hub].session].pc # "new" /\ load'[mgr[Hub].session].hosts = load[mgr[Hub].session].hosts
      BY <3>1
    <3> QED BY <2>1, <3>1, <3>2 DEF ReadyHasCrew
  <2>2. CASE mgr'[Hub].session = s /\ load'[s].pc # "new" /\ Crewed(Len(load'[s].hosts), crew'[s])
    BY <2>2 DEF ReadyHasCrew
  <2> QED BY <2>1, <2>2
<1> QED BY <1>1, <1>2, <1>3 DEF Inv

(* No load moves.                                                          *)
LEMMA NoneMoves ==
  ASSUME Inv, Types', UNCHANGED load,
         \A t \in Session : crew[t] \subseteq crew'[t],
         \A t \in Session, r \in Rank : Started(join'[t][r]) => Started(join[t][r]) \/ r \in crew'[t],
         mgr'[Hub].state = "Ready" => mgr[Hub].state = "Ready" /\ mgr'[Hub].session = mgr[Hub].session
  PROVE  Inv'
<1>1. \A t \in Session : Knows(load'[t], crew'[t])
  BY KnowsMore DEF Inv
<1>2. JoinsCount'
  BY DEF Inv, JoinsCount
<1>3. ReadyHasCrew'
  BY DEF Inv, ReadyHasCrew, Crewed
<1> QED BY <1>1, <1>2, <1>3 DEF Inv

-----------------------------------------------------------------------------
(* The steps of the hub.                                                   *)

LEMMA Relies ==
  ASSUME Inv, NEW s \in Session
  PROVE  /\ load[s] \in Loads /\ Knows(load[s], crew[s])
         /\ Len(load[s].hosts) \in Nat /\ load[s].next \in Nat
         /\ load[s].hosts \in Hostfile \cup {<<>>}
         /\ World(s) = Len(load[s].hosts)
BY HostsLength DEF Inv, Types, World

LEMMA HubIs == ASSUME Inv PROVE mgr[Hub] \in Managed
BY DEF Inv, Types

(* A load that is given a new record, and a hub that is.                   *)
LEMMA Replaced ==
  ASSUME Inv, NEW s \in Session, NEW l \in Loads, load' = [load EXCEPT ![s] = l]
  PROVE  load' \in [Session -> Loads] /\ load'[s] = l /\ \A t \in Session \ {s} : load'[t] = load[t]
BY DEF Inv, Types

LEMMA HubReplaced ==
  ASSUME Inv, NEW n \in Node, NEW m \in Managed, mgr' = [mgr EXCEPT ![n] = m]
  PROVE  mgr' \in [Node -> Managed] /\ mgr'[n] = m /\ \A k \in Node \ {n} : mgr'[k] = mgr[k]
BY DEF Inv, Types

(* A step of a load that starts no worker and does not make the hub Ready. *)
LEMMA LoadGoesOn ==
  ASSUME Inv, NEW s \in Session, NEW l \in Loads, load' = [load EXCEPT ![s] = l],
         NEW m \in Managed, mgr' = [mgr EXCEPT ![Hub] = m],
         join' \in [Session -> [Rank -> Joins]], UNCHANGED crew,
         \A t \in Session, r \in Rank : Started(join'[t][r]) => Started(join[t][r]),
         Knows(l, crew[s]),
         load[s].pc # "new" => l.pc # "new" /\ l.hosts = load[s].hosts,
         m.state = "Ready" =>
            \/ mgr[Hub].state = "Ready" /\ m.session = mgr[Hub].session
            \/ /\ m.session = s /\ l.pc # "new"
               /\ Crewed(Len(l.hosts), crew[s])
  PROVE  Inv'
<1>1. load' \in [Session -> Loads] /\ load'[s] = l /\ \A t \in Session \ {s} : load'[t] = load[t]
  BY Replaced
<1>2. mgr' \in [Node -> Managed] /\ mgr'[Hub] = m
  BY HubReplaced
<1>3. Types'
  BY <1>1, <1>2 DEF Inv, Types
<1> QED BY <1>1, <1>2, <1>3, OneMoves

LEMMA Starting ==
  ASSUME Inv, NEW s \in Session, Start(s)
  PROVE  Inv'
<1>1. load[s].pc = "new" /\ UNCHANGED <<join, crew>>
  BY DEF Start
<1>2. PICK hosts \in Hostfile \cup {<<>>} :
             load' = [load EXCEPT ![s] = [@ EXCEPT !.pc = "queued", !.hosts = hosts]]
  BY DEF Start
<1>3. PICK l : l = [load[s] EXCEPT !.pc = "queued", !.hosts = hosts] /\ load' = [load EXCEPT ![s] = l]
  BY <1>2
<1>4. PICK m : m = [mgr[Hub] EXCEPT !.state = "Loading", !.child = NoPid, !.pid = NoPid] /\ mgr' = [mgr EXCEPT ![Hub] = m]
  BY DEF Start
<1>5. l \in Loads /\ l.pc = "queued"
  BY <1>3, Relies DEF Loads, LoadPcs
<1>6. m \in Managed /\ m.state = "Loading"
  BY <1>4, HubIs DEF Managed, MaybePid
<1>7. Knows(l, crew[s])
  BY <1>5 DEF Knows
<1> QED BY <1>1, <1>3, <1>4, <1>5, <1>6, <1>7, LoadGoesOn DEF Inv, Types

LEMMA Killing ==
  ASSUME Inv, NEW s \in Session, TaskKills(s)
  PROVE  Inv'
<1>1. load[s].pc = "queued" /\ UNCHANGED <<join, crew>>
  BY DEF TaskKills
<1> DEFINE where == IF World(s) = 0 THEN "spawning" ELSE IF World(s) = 1 THEN "failing" ELSE "recruiting"
           first == IF World(s) > 1 /\ HubIsRank0(s) THEN 1 ELSE 0
<1>2. load' = [load EXCEPT ![s] = [@ EXCEPT !.pc = where, !.next = first]]
  BY DEF TaskKills
<1>3. PICK l : l = [load[s] EXCEPT !.pc = where, !.next = first] /\ load' = [load EXCEPT ![s] = l]
  BY <1>2
<1>4. PICK m : m = [mgr[Hub] EXCEPT !.child = NoPid, !.pid = NoPid] /\ mgr' = [mgr EXCEPT ![Hub] = m]
  BY DEF TaskKills
<1>5. m \in Managed /\ m.state = mgr[Hub].state /\ m.session = mgr[Hub].session
  BY <1>4, HubIs DEF Managed, MaybePid
<1>6. World(s) \in Nat /\ World(s) = Len(load[s].hosts) /\ load[s].hosts \in Hostfile \cup {<<>>}
  BY Relies
<1>7. /\ first \in {0, 1} /\ where \in {"spawning", "failing", "recruiting"}
      /\ where = "spawning" => World(s) = 0
      /\ where = "recruiting" => World(s) > 1
  <2>1. first \in {0, 1}
    OBVIOUS
  <2>2. where \in {"spawning", "failing", "recruiting"}
    OBVIOUS
  <2>3. where = "spawning" => World(s) = 0
    OBVIOUS
  <2>4. where = "recruiting" => World(s) # 0 /\ World(s) # 1
    OBVIOUS
  <2>5. World(s) # 0 /\ World(s) # 1 => World(s) > 1
    <3>1. World(s) \in Nat
      BY <1>6
    <3> QED BY ONLY <3>1
  <2> QED BY ONLY <2>1, <2>2, <2>3, <2>4, <2>5
<1>8. load[s].hosts = <<>> => World(s) = 0
  BY <1>6
<1> HIDE DEF where, first
<1>9. l \in Loads /\ l.pc = where /\ l.next = first /\ l.hosts = load[s].hosts
  <2>1. load[s] \in Loads /\ first \in Nat
    BY <1>7, Relies
  <2>2. where \in LoadPcs
    BY <1>7 DEF LoadPcs
  <2> QED BY <1>3, <2>1, <2>2 DEF Loads
<1>10. Knows(l, crew[s])
  BY <1>6, <1>7, <1>8, <1>9 DEF Knows, Crewed
<1> QED BY <1>1, <1>3, <1>4, <1>5, <1>7, <1>9, <1>10, LoadGoesOn DEF Inv, Types

LEMMA JoinReplaced ==
  ASSUME Inv, NEW s \in Session, NEW r \in Rank, NEW j \in Joins, join' = [join EXCEPT ![s][r] = j]
  PROVE  /\ join' \in [Session -> [Rank -> Joins]] /\ join'[s][r] = j
         /\ \A t \in Session, q \in Rank : t # s \/ q # r => join'[t][q] = join[t][q]
         /\ ~Started(j) => \A t \in Session, q \in Rank : Started(join'[t][q]) => Started(join[t][q])
<1>1. /\ join' \in [Session -> [Rank -> Joins]] /\ join'[s][r] = j
      /\ \A t \in Session, q \in Rank : t # s \/ q # r => join'[t][q] = join[t][q]
  BY DEF Inv, Types
<1>2. ASSUME ~Started(j), NEW t \in Session, NEW q \in Rank, Started(join'[t][q]) PROVE Started(join[t][q])
  BY <1>1, <1>2
<1> QED BY <1>1, <1>2

LEMMA Asked ==
  ASSUME Inv, NEW s \in Session, load[s].pc \in {"recruiting", "awaiting"}, load[s].next < World(s)
  PROVE  load[s].next \in Rank /\ load[s].hosts \in Hostfile /\ join[s][load[s].next] \in Joins
<1>1. load[s].hosts \in Hostfile /\ load[s].next \in Nat
  BY Relies DEF Knows
<1>2. load[s].next \in Rank
  BY <1>1, RanksAre DEF World
<1> QED BY <1>1, <1>2 DEF Inv, Types

LEMMA Recruiting ==
  ASSUME Inv, NEW s \in Session, Recruits(s)
  PROVE  Inv'
<1>1. load[s].pc = "recruiting" /\ load[s].next < World(s) /\ UNCHANGED <<mgr, crew>>
  BY DEF Recruits
<1>2. load[s].next \in Rank /\ join[s][load[s].next] \in Joins
  BY <1>1, Asked
<1>3. PICK j : j = [join[s][load[s].next] EXCEPT !.pc = "sent"] /\ join' = [join EXCEPT ![s][load[s].next] = j]
  BY DEF Recruits
<1>4. j \in Joins /\ ~Started(j)
  BY <1>2, <1>3 DEF Joins, Started
<1>5. /\ join' \in [Session -> [Rank -> Joins]]
      /\ \A t \in Session, r \in Rank : Started(join'[t][r]) => Started(join[t][r])
  BY <1>2, <1>3, <1>4, JoinReplaced
<1>6. PICK l : l = [load[s] EXCEPT !.pc = "awaiting"] /\ load' = [load EXCEPT ![s] = l]
  BY DEF Recruits
<1>7. load[s] \in Loads
  BY Relies
<1>8. l \in Loads /\ l.pc = "awaiting" /\ l.hosts = load[s].hosts /\ l.next = load[s].next /\ l.failed = load[s].failed
  BY <1>6, <1>7 DEF Loads, LoadPcs
<1>9. Knows(l, crew[s])
  BY <1>1, <1>8, Relies DEF Knows
<1>10. mgr' = [mgr EXCEPT ![Hub] = mgr[Hub]]
  BY <1>1 DEF Inv, Types
<1> QED BY <1>1, <1>5, <1>6, <1>8, <1>9, <1>10, HubIs, LoadGoesOn

(* The next rank is done with, for better or worse.                        *)
LEMMA Counting ==
  ASSUME Inv, NEW s \in Session, NEW ok \in BOOLEAN, load[s].pc = "awaiting", Result(s, ok),
         ok => load[s].next \in crew[s],
         join' \in [Session -> [Rank -> Joins]], UNCHANGED <<mgr, crew>>,
         \A t \in Session, r \in Rank : Started(join'[t][r]) => Started(join[t][r])
  PROVE  Inv'
<1>1. PICK l : /\ l = [load[s] EXCEPT !.pc = "recruiting", !.next = load[s].next + 1, !.failed = load[s].failed \/ ~ok]
               /\ load' = [load EXCEPT ![s] = l]
  BY DEF Result
<1>2. load[s] \in Loads /\ load[s].next + 1 \in Nat /\ load[s].failed \in BOOLEAN
  BY Relies DEF Loads
<1>3. (load[s].failed \/ ~ok) \in BOOLEAN
  OBVIOUS
<1>4. /\ l \in Loads /\ l.pc = "recruiting" /\ l.hosts = load[s].hosts /\ l.next = load[s].next + 1
      /\ l.failed = (load[s].failed \/ ~ok)
  BY <1>1, <1>2, <1>3 DEF Loads, LoadPcs
<1>5. Knows(l, crew[s])
  <2>1. load[s].hosts \in Hostfile /\ load[s].next \in Nat
    BY Relies DEF Knows
  <2>2. ASSUME ~l.failed, NEW r \in Nat, 1 <= r, r < l.next PROVE r \in crew[s]
    <3>1. CASE r = load[s].next
      BY <1>4, <2>2, <3>1
    <3>2. CASE r # load[s].next
      <4>1. ~load[s].failed /\ r < load[s].next
        <5>1. r < load[s].next + 1
          BY <1>4, <2>2
        <5>2. ~load[s].failed
          BY <1>4, <2>2
        <5> QED BY <2>1, <2>2, <3>2, <5>1, <5>2
      <4> QED BY <2>2, <4>1, Relies DEF Knows, Crewed
    <3> QED BY <3>1, <3>2
  <2> QED BY <1>4, <2>1, <2>2 DEF Knows, Crewed
<1>6. mgr' = [mgr EXCEPT ![Hub] = mgr[Hub]]
  BY DEF Inv, Types
<1> QED BY <1>1, <1>4, <1>5, <1>6, HubIs, LoadGoesOn

LEMMA Answering ==
  ASSUME Inv, NEW s \in Session, Answered(s)
  PROVE  Inv'
<1> DEFINE ok == join[s][load[s].next].pc = "ok"
<1>1. load[s].pc = "awaiting" /\ Result(s, ok) /\ UNCHANGED <<mgr, join, crew>>
  BY DEF Answered
<1>2. load[s].next \in Rank
  BY <1>1, Asked, Relies DEF Knows
<1>3. ok => load[s].next \in crew[s]
  BY <1>2 DEF Inv, JoinsCount, Started
<1>4. ok \in BOOLEAN
  OBVIOUS
<1> HIDE DEF ok
<1> QED BY <1>1, <1>3, <1>4, Counting DEF Inv, Types

LEMMA TimingOut ==
  ASSUME Inv, NEW s \in Session, TimesOut(s)
  PROVE  Inv'
<1>1. load[s].pc = "awaiting" /\ Result(s, FALSE) /\ UNCHANGED <<mgr, crew>>
  BY DEF TimesOut
<1>2. load[s].next \in Rank /\ join[s][load[s].next] \in Joins
  BY <1>1, Asked, Relies DEF Knows
<1>3. /\ join' \in [Session -> [Rank -> Joins]]
      /\ \A t \in Session, r \in Rank : Started(join'[t][r]) => Started(join[t][r])
  <2>1. CASE UNCHANGED join
    BY <2>1 DEF Inv, Types
  <2>2. CASE join' = [join EXCEPT ![s][load[s].next].pc = "gone"]
    <3>1. PICK j : j = [join[s][load[s].next] EXCEPT !.pc = "gone"] /\ join' = [join EXCEPT ![s][load[s].next] = j]
      BY <2>2
    <3>2. j \in Joins /\ ~Started(j)
      BY <1>2, <3>1 DEF Joins, Started
    <3> QED BY <1>2, <3>1, <3>2, JoinReplaced
  <2> QED BY <2>1, <2>2 DEF TimesOut
<1> QED BY <1>1, <1>3, Counting

(* Later steps change the position, and neither the hosts nor the ranks.   *)
LEMMA Onwards ==
  ASSUME Inv, NEW s \in Session, NEW l \in Loads, load' = [load EXCEPT ![s] = l],
         load[s].pc # "new", l.hosts = load[s].hosts,
         l.pc \in {"spawning", "remote", "polling", "settling"} =>
            Crewed(Len(load[s].hosts), crew[s]),
         l.pc \in {"spawning", "remote", "polling", "settling", "failing", "done"},
         NEW m \in Managed, mgr' = [mgr EXCEPT ![Hub] = m], UNCHANGED <<join, crew>>,
         m.state = "Ready" => \/ m.session = s /\ Crewed(Len(load[s].hosts), crew[s])
                              \/ m = mgr[Hub]
  PROVE  Inv'
<1>1. Knows(l, crew[s])
  BY DEF Knows
<1> QED BY <1>1, LoadGoesOn DEF Inv, Types

LEMMA Completing ==
  ASSUME Inv, NEW s \in Session, CrewIsComplete(s)
  PROVE  Inv'
<1> DEFINE where == IF load[s].failed THEN "failing" ELSE IF HubIsRank0(s) THEN "spawning" ELSE "remote"
<1>1. load[s].pc = "recruiting" /\ load[s].next = World(s) /\ UNCHANGED <<mgr, join, crew>>
  BY DEF CrewIsComplete
<1>2. PICK l : l = [load[s] EXCEPT !.pc = where] /\ load' = [load EXCEPT ![s] = l]
  BY DEF CrewIsComplete
<1>3. where \in {"failing", "spawning", "remote"} /\ (where # "failing" => ~load[s].failed)
  OBVIOUS
<1> HIDE DEF where
<1>4. l \in Loads /\ l.pc = where /\ l.hosts = load[s].hosts
  <2>1. load[s] \in Loads /\ where \in LoadPcs
    BY <1>3, Relies DEF LoadPcs
  <2> QED BY <1>2, <2>1 DEF Loads
<1>5. where # "failing" => Crewed(Len(load[s].hosts), crew[s])
  BY <1>1, <1>3, Relies DEF Knows
<1>6. mgr' = [mgr EXCEPT ![Hub] = mgr[Hub]]
  BY <1>1 DEF Inv, Types
<1>7. mgr[Hub].state = "Ready" => mgr[Hub] = mgr[Hub]
  OBVIOUS
<1> QED BY <1>1, <1>2, <1>3, <1>4, <1>5, <1>6, HubIs, Onwards

LEMMA AnsweringRemotely ==
  ASSUME Inv, NEW s \in Session, RemoteAnswers(s)
  PROVE  Inv'
<1>1. load[s].pc = "remote" /\ UNCHANGED <<join, crew>>
  BY DEF RemoteAnswers
<1>2. PICK l : l = [load[s] EXCEPT !.pc = "done"] /\ load' = [load EXCEPT ![s] = l]
  BY DEF RemoteAnswers
<1>3. l \in Loads /\ l.pc = "done" /\ l.hosts = load[s].hosts
  BY <1>2, Relies DEF Loads, LoadPcs
<1>4. Crewed(Len(load[s].hosts), crew[s])
  BY <1>1, Relies DEF Knows
<1>5. PICK m : /\ \/ m = [mgr[Hub] EXCEPT !.state = "Ready", !.session = s]
                  \/ m = [mgr[Hub] EXCEPT !.state = "Error"]
               /\ mgr' = [mgr EXCEPT ![Hub] = m]
  <2>1. CASE mgr' = [mgr EXCEPT ![Hub] = [@ EXCEPT !.state = "Ready", !.session = s]]
    BY <2>1
  <2>2. CASE mgr' = [mgr EXCEPT ![Hub].state = "Error"]
    BY <2>2
  <2> QED BY <2>1, <2>2 DEF RemoteAnswers
<1>6. m \in Managed /\ (m.state = "Ready" => m.session = s)
  BY <1>5, HubIs DEF Managed, MaybeSession
<1> QED BY <1>1, <1>2, <1>3, <1>4, <1>5, <1>6, Onwards

(* A load that goes on, or gives up, and leaves the hub's manager alone.   *)
LEMMA HubStays ==
  ASSUME Inv, NEW s \in Session, NEW l \in Loads, load' = [load EXCEPT ![s] = l],
         load[s].pc \in {"spawning", "polling"}, l.hosts = load[s].hosts,
         l.pc \in {"polling", "settling", "failing"}, UNCHANGED <<mgr, join, crew>>
  PROVE  Inv'
<1>1. mgr' = [mgr EXCEPT ![Hub] = mgr[Hub]]
  BY DEF Inv, Types
<1>2. Crewed(Len(load[s].hosts), crew[s])
  BY Relies DEF Knows
<1>3. PICK m : m = mgr[Hub]
  OBVIOUS
<1> QED BY <1>1, <1>2, <1>3, HubIs, Onwards

LEMMA Spawning ==
  ASSUME Inv, NEW s \in Session, Spawns(s)
  PROVE  Inv'
<1>1. load[s].pc = "spawning" /\ UNCHANGED <<mgr, join, crew>> /\ load[s] \in Loads
  BY Relies DEF Spawns
<1>2. ASSUME NEW p \in Pid, load' = [load EXCEPT ![s] = [@ EXCEPT !.pc = "polling", !.pid = p]]
      PROVE  Inv'
  <2>1. PICK l : l = [load[s] EXCEPT !.pc = "polling", !.pid = p] /\ load' = [load EXCEPT ![s] = l]
    BY <1>2
  <2>2. l \in Loads /\ l.pc = "polling" /\ l.hosts = load[s].hosts
    BY <1>1, <2>1 DEF Loads, LoadPcs, MaybePid
  <2> QED BY <1>1, <2>1, <2>2, HubStays
<1>3. CASE load' = [load EXCEPT ![s].pc = "failing"]
  <2>1. PICK l : l = [load[s] EXCEPT !.pc = "failing"] /\ load' = [load EXCEPT ![s] = l]
    BY <1>3
  <2>2. l \in Loads /\ l.pc = "failing" /\ l.hosts = load[s].hosts
    BY <1>1, <2>1 DEF Loads, LoadPcs
  <2> QED BY <1>1, <2>1, <2>2, HubStays
<1> QED BY <1>2, <1>3 DEF Spawns

LEMMA PollingReady ==
  ASSUME Inv, NEW s \in Session, Polls(s)
  PROVE  Inv'
<1>1. load[s].pc = "polling" /\ UNCHANGED <<mgr, join, crew>> /\ load[s] \in Loads
  BY Relies DEF Polls
<1>2. ASSUME NEW note \in {"healthy", "timeout", "error"},
             load' = [load EXCEPT ![s] = [@ EXCEPT !.pc = "settling", !.note = note]]
      PROVE  Inv'
  <2>1. PICK l : l = [load[s] EXCEPT !.pc = "settling", !.note = note] /\ load' = [load EXCEPT ![s] = l]
    BY <1>2
  <2>2. l \in Loads /\ l.pc = "settling" /\ l.hosts = load[s].hosts
    BY <1>1, <2>1 DEF Loads, LoadPcs
  <2> QED BY <1>1, <2>1, <2>2, HubStays
<1>3. CASE load' = [load EXCEPT ![s] = [@ EXCEPT !.pc = "failing", !.pid = NoPid]]
  <2>1. PICK l : l = [load[s] EXCEPT !.pc = "failing", !.pid = NoPid] /\ load' = [load EXCEPT ![s] = l]
    BY <1>3
  <2>2. l \in Loads /\ l.pc = "failing" /\ l.hosts = load[s].hosts
    BY <1>1, <2>1 DEF Loads, LoadPcs, MaybePid
  <2> QED BY <1>1, <2>1, <2>2, HubStays
<1> QED BY <1>2, <1>3 DEF Polls

LEMMA Settling ==
  ASSUME Inv, NEW s \in Session, SettlesReady(s) \/ SettlesError(s) \/ Fails(s)
  PROVE  Inv'
<1>1. load[s].pc \in {"settling", "failing"} /\ UNCHANGED <<join, crew>> /\ load[s] \in Loads
  BY Relies DEF SettlesReady, SettlesError, Fails
<1>2. PICK l : l = [load[s] EXCEPT !.pc = "done"] /\ load' = [load EXCEPT ![s] = l]
  BY DEF SettlesReady, SettlesError, Fails
<1>3. l \in Loads /\ l.pc = "done" /\ l.hosts = load[s].hosts
  BY <1>1, <1>2 DEF Loads, LoadPcs
<1>4. CASE SettlesReady(s)
  <2>1. PICK m : m = [state |-> "Ready", session |-> s, child |-> load[s].pid, pid |-> load[s].pid]
                 /\ mgr' = [mgr EXCEPT ![Hub] = m]
    BY <1>4 DEF SettlesReady
  <2>2. m \in Managed /\ m.session = s
    BY <1>1, <2>1 DEF Managed, MaybeSession, Loads
  <2>3. load[s].pc = "settling"
    BY <1>4 DEF SettlesReady
  <2>4. Crewed(Len(load[s].hosts), crew[s])
    BY <2>3, Relies DEF Knows
  <2> QED BY <1>1, <1>2, <1>3, <2>1, <2>2, <2>4, Onwards
<1>5. CASE mgr' = [mgr EXCEPT ![Hub].state = "Error"]
  <2>1. PICK m : m = [mgr[Hub] EXCEPT !.state = "Error"] /\ mgr' = [mgr EXCEPT ![Hub] = m]
    BY <1>5
  <2>2. m \in Managed /\ m.state = "Error"
    BY <2>1, HubIs DEF Managed
  <2> QED BY <1>1, <1>2, <1>3, <2>1, <2>2, Onwards
<1> QED BY <1>4, <1>5 DEF SettlesError, Fails

LEMMA TaskSteps ==
  ASSUME Inv, NEW s \in Session, TaskStep(s)
  PROVE  Inv'
BY Killing, Recruiting, Answering, TimingOut, Completing, AnsweringRemotely, Spawning, PollingReady, Settling
   DEF TaskStep

-----------------------------------------------------------------------------
(* The peers, the stops, the crash and the processes.                      *)
LEMMA JoiningSpawns ==
  ASSUME Inv, NEW s \in Session, NEW r \in Rank, JoinSpawns(s, r)
  PROVE  Inv'
<1>1. UNCHANGED <<mgr, load>>
  BY DEF JoinSpawns
<1>2. ASSUME NEW p \in Pid, join' = [join EXCEPT ![s][r] = [pc |-> "spawned", pid |-> p]],
             crew' = [crew EXCEPT ![s] = @ \cup {r}]
      PROVE  Inv'
  <2>1. PICK j : j = [pc |-> "spawned", pid |-> p] /\ join' = [join EXCEPT ![s][r] = j]
    BY <1>2
  <2>2. j \in Joins
    BY <2>1 DEF Joins, MaybePid
  <2>3. /\ join' \in [Session -> [Rank -> Joins]]
        /\ \A t \in Session, q \in Rank : t # s \/ q # r => join'[t][q] = join[t][q]
    BY <2>1, <2>2 DEF Inv, Types
  <2>4. /\ crew' \in [Session -> SUBSET Rank] /\ r \in crew'[s]
        /\ \A t \in Session : crew[t] \subseteq crew'[t]
    BY <1>2 DEF Inv, Types
  <2>5. Types'
    BY <1>1, <2>3, <2>4 DEF Inv, Types
  <2>6. \A t \in Session, q \in Rank : Started(join'[t][q]) => Started(join[t][q]) \/ q \in crew'[t]
    BY <2>3, <2>4
  <2> QED BY <1>1, <2>4, <2>5, <2>6, NoneMoves
<1>3. CASE join' = [join EXCEPT ![s][r].pc = "refused"] /\ UNCHANGED crew
  <2>1. PICK j : j = [join[s][r] EXCEPT !.pc = "refused"] /\ join' = [join EXCEPT ![s][r] = j]
    BY <1>3
  <2>2. j \in Joins /\ ~Started(j)
    <3>1. join[s][r] \in Joins
      BY DEF Inv, Types
    <3> QED BY <2>1, <3>1 DEF Joins, Started
  <2>3. /\ join' \in [Session -> [Rank -> Joins]]
        /\ \A t \in Session, q \in Rank : Started(join'[t][q]) => Started(join[t][q])
    BY <2>1, <2>2, JoinReplaced
  <2>4. Types'
    BY <1>1, <1>3, <2>3 DEF Inv, Types
  <2> QED BY <1>1, <1>3, <2>3, <2>4, NoneMoves
<1> QED BY <1>2, <1>3 DEF JoinSpawns

LEMMA JoiningAdopts ==
  ASSUME Inv, NEW s \in Session, NEW r \in Rank, JoinAdopts(s, r) \/ JoinDropped(s, r)
  PROVE  Inv'
<1>1. UNCHANGED <<load, crew>>
  BY DEF JoinAdopts, JoinDropped
<1>2. ASSUME NEW j \in Joins, join' = [join EXCEPT ![s][r] = j],
             Started(j) => Started(join[s][r]), mgr' \in [Node -> Managed],
             mgr'[Hub].state = "Ready" => mgr'[Hub] = mgr[Hub]
      PROVE  Inv'
  <2>1. /\ join' \in [Session -> [Rank -> Joins]] /\ join'[s][r] = j
        /\ \A t \in Session, q \in Rank : t # s \/ q # r => join'[t][q] = join[t][q]
    BY <1>2 DEF Inv, Types
  <2>2. Types'
    BY <1>1, <1>2, <2>1 DEF Inv, Types
  <2>3. \A t \in Session, q \in Rank : Started(join'[t][q]) => Started(join[t][q])
    BY <1>2, <2>1
  <2> QED BY <1>1, <1>2, <2>2, <2>3, NoneMoves
<1>3. CASE JoinAdopts(s, r)
  <2>1. join[s][r].pc = "spawned" /\ join[s][r].pid \in MaybePid
    BY <1>3 DEF JoinAdopts, Inv, Types, Joins
  <2>2. PICK j : j = [pc |-> "ok", pid |-> NoPid] /\ join' = [join EXCEPT ![s][r] = j]
    BY <1>3 DEF JoinAdopts
  <2>3. j \in Joins
    BY <2>2 DEF Joins, MaybePid
  <2>4. PICK m, n : m = [state |-> "Loading", session |-> s, child |-> join[s][r].pid, pid |-> join[s][r].pid]
                    /\ mgr' = [mgr EXCEPT ![n] = m]
    BY <1>3 DEF JoinAdopts
  <2>5. m \in Managed /\ m.state = "Loading"
    BY <2>1, <2>4 DEF Managed, MaybeSession
  <2>6. mgr' \in [Node -> Managed] /\ (mgr'[Hub].state = "Ready" => mgr'[Hub] = mgr[Hub])
    BY <2>4, <2>5 DEF Inv, Types
  <2>7. Started(join[s][r])
    BY <2>1 DEF Started
  <2> QED BY <1>2, <2>2, <2>3, <2>6, <2>7
<1>4. CASE JoinDropped(s, r)
  <2>1. PICK j : j = [pc |-> "gone", pid |-> NoPid] /\ join' = [join EXCEPT ![s][r] = j]
    BY <1>4 DEF JoinDropped
  <2>2. j \in Joins /\ ~Started(j)
    BY <2>1 DEF Joins, MaybePid, Started
  <2>3. mgr' = mgr /\ mgr' \in [Node -> Managed]
    BY <1>4 DEF JoinDropped, Inv, Types
  <2> QED BY <1>2, <2>1, <2>2, <2>3
<1> QED BY <1>3, <1>4

LEMMA Stopping ==
  ASSUME Inv, NEW n \in Node, Stop(n) \/ EmergencyStop(n)
  PROVE  Inv'
<1>1. UNCHANGED <<load, join, crew>>
  BY DEF Stop, EmergencyStop
<1>2. Fresh \in Managed /\ Fresh.state = "Idle"
  BY DEF Fresh, Managed, MaybePid, MaybeSession
<1>3. PICK m : m \in {Fresh, [Fresh EXCEPT !.state = "Error"]} /\ mgr' = [mgr EXCEPT ![n] = m]
  BY DEF Stop, EmergencyStop
<1>4. m \in Managed /\ m.state # "Ready"
  BY <1>2, <1>3 DEF Managed
<1>5. mgr' \in [Node -> Managed] /\ (mgr'[Hub].state = "Ready" => mgr'[Hub] = mgr[Hub])
  BY <1>3, <1>4 DEF Inv, Types
<1>6. Types'
  BY <1>1, <1>5 DEF Inv, Types
<1> QED BY <1>1, <1>5, <1>6, NoneMoves

LEMMA Restarting ==
  ASSUME Inv, HubRestarts
  PROVE  Inv'
<1>1. UNCHANGED crew
  BY DEF HubRestarts
<1> DEFINE dropped == [pc |-> "gone", pid |-> NoPid]
<1>2. dropped \in Joins /\ ~Started(dropped)
  BY DEF Joins, MaybePid, Started
<1> HIDE DEF dropped
<1>3. join' = [s \in Session |-> [r \in Rank |->
                 IF join[s][r].pc \in {"sent", "spawned"} /\ Host(s, r) = Hub THEN dropped ELSE join[s][r]]]
  BY DEF HubRestarts, dropped
<1>4. join' \in [Session -> [Rank -> Joins]] /\ \A s \in Session, r \in Rank : join'[s][r] \in {dropped, join[s][r]}
  BY <1>2, <1>3 DEF Inv, Types
<1>5. JoinsCount'
  BY <1>1, <1>2, <1>4 DEF Inv, JoinsCount
<1>6. PICK m : mgr' = [mgr EXCEPT ![Hub] = m] /\ m \in {Fresh, [Fresh EXCEPT !.state = "Loading"]}
  BY DEF HubRestarts
<1>7. m \in Managed /\ m.state # "Ready"
  <2>1. Fresh \in Managed /\ Fresh.state = "Idle"
    BY DEF Fresh, Managed, MaybePid, MaybeSession
  <2> QED BY <1>6, <2>1 DEF Managed
<1>8. mgr' \in [Node -> Managed] /\ ReadyHasCrew'
  BY <1>6, <1>7 DEF Inv, Types, ReadyHasCrew
<1>9. \A t \in Session : Ended(load[t]) \in Loads /\ Ended(load[t]).pc \in {"new", "done"}
  <2> SUFFICES ASSUME NEW t \in Session PROVE Ended(load[t]) \in Loads /\ Ended(load[t]).pc \in {"new", "done"}
    OBVIOUS
  <2>1. PICK pc \in {"new", "done"} : Ended(load[t]) = [load[t] EXCEPT !.pc = pc]
    BY DEF Ended
  <2>2. load[t] \in Loads
    BY Relies
  <2> QED BY <2>1, <2>2 DEF Loads, LoadPcs
<1>10. load' \in [Session -> Loads] /\ \A t \in Session : load'[t].pc \in {"new", "queued", "done"}
  <2>1. CASE load' = [t \in Session |-> Ended(load[t])]
    BY <1>9, <2>1
  <2>2. ASSUME NEW s \in Session, NEW hosts \in Hostfile \cup {<<>>},
               load' = [t \in Session |-> IF t = s THEN [load[s] EXCEPT !.pc = "queued", !.hosts = hosts]
                                          ELSE Ended(load[t])]
        PROVE  load' \in [Session -> Loads] /\ \A t \in Session : load'[t].pc \in {"new", "queued", "done"}
    <3>1. PICK l : l = [load[s] EXCEPT !.pc = "queued", !.hosts = hosts]
      OBVIOUS
    <3>2. l \in Loads /\ l.pc = "queued"
      BY <3>1, Relies DEF Loads, LoadPcs
    <3>3. load' = [t \in Session |-> IF t = s THEN l ELSE Ended(load[t])]
      BY <2>2, <3>1
    <3> QED BY <1>9, <3>2, <3>3
  <2> QED BY <2>1, <2>2 DEF HubRestarts
<1>11. \A t \in Session : Knows(load'[t], crew'[t])
  BY <1>10 DEF Knows
<1>12. Types'
  BY <1>1, <1>4, <1>8, <1>10 DEF Inv, Types
<1> QED BY <1>5, <1>8, <1>11, <1>12 DEF Inv

LEMMA StayingPut ==
  ASSUME Inv, UNCHANGED <<mgr, load, join, crew>>
  PROVE  Inv'
BY DEF Inv, Types, JoinsCount, ReadyHasCrew

LEMMA InitInv == Init => Inv
<1> SUFFICES ASSUME Init PROVE Inv
  OBVIOUS
<1>1. Fresh \in Managed /\ Fresh.state = "Idle"
  BY DEF Fresh, Managed, MaybePid, MaybeSession
<1>2. NotSent \in Joins /\ ~Started(NotSent)
  BY DEF NotSent, Joins, MaybePid, Started
<1>3. PICK l : l = [pc |-> "new", hosts |-> <<>>, next |-> 0, failed |-> FALSE, pid |-> NoPid, note |-> "none"]
  OBVIOUS
<1>4. l \in Loads /\ l.pc = "new"
  BY <1>3 DEF Loads, LoadPcs, MaybePid
<1>5. load = [s \in Session |-> l] /\ crew = [s \in Session |-> {}] /\ mgr = [n \in Node |-> Fresh]
      /\ join = [s \in Session |-> [r \in Rank |-> NotSent]]
  BY <1>3 DEF Init
<1>6. Types
  BY <1>1, <1>2, <1>4, <1>5 DEF Types
<1>7. \A s \in Session : Knows(load[s], crew[s])
  BY <1>4, <1>5 DEF Knows
<1>8. JoinsCount
  BY <1>2, <1>5 DEF JoinsCount
<1>9. ReadyHasCrew
  BY <1>1, <1>5 DEF ReadyHasCrew
<1> QED BY <1>6, <1>7, <1>8, <1>9 DEF Inv

LEMMA StepsKeepInv == Inv /\ [Next]_vars => Inv'
<1> SUFFICES ASSUME Inv, [Next]_vars PROVE Inv'
  OBVIOUS
<1>1. CASE \E s \in Session : Start(s) \/ TaskStep(s)
  BY <1>1, Starting, TaskSteps
<1>2. CASE \E s \in Session, r \in Rank : JoinSpawns(s, r) \/ JoinAdopts(s, r) \/ JoinDropped(s, r)
  BY <1>2, JoiningSpawns, JoiningAdopts
<1>3. CASE \E n \in Node : Stop(n) \/ EmergencyStop(n)
  BY <1>3, Stopping
<1>4. CASE HubRestarts
  BY <1>4, Restarting
<1>5. CASE \E p \in Pid : Boots(p) \/ Exits(p)
  BY <1>5, StayingPut DEF Boots, Exits
<1>6. CASE UNCHANGED vars
  BY <1>6, StayingPut DEF vars
<1> QED BY <1>1, <1>2, <1>3, <1>4, <1>5, <1>6 DEF Next

-----------------------------------------------------------------------------
(* A rank 0 that runs at the hub, or a session that the hub says is Ready, *)
(* has had a worker started for every other rank, whatever requests fail,  *)
(* come late or are dropped and whichever sessions, stops and restarts     *)
(* come between.                                                           *)
THEOREM NoRankZeroAlone == Spec => []RankZeroHasCrew
<1>1. Inv => RankZeroHasCrew
  <2> SUFFICES ASSUME Inv PROVE RankZeroHasCrew
    OBVIOUS
  <2>1. ASSUME NEW s \in Session, Crewed(Len(load[s].hosts), crew[s])
        PROVE  HasCrew(s)
    <3>1. World(s) \in Nat /\ World(s) = Len(load[s].hosts)
      BY Relies
    <3>2. ASSUME NEW r \in 1 .. World(s) - 1 PROVE r \in crew[s]
      BY <2>1, <3>1 DEF Crewed
    <3> QED BY <3>2 DEF HasCrew
  <2>2. mgr[Hub].state = "Ready" => HasCrew(mgr[Hub].session)
    BY <2>1 DEF Inv, ReadyHasCrew
  <2>3. \A s \in Session : load[s].pc \in {"polling", "settling"} => HasCrew(s)
    BY <2>1, Relies DEF Knows
  <2> QED BY <2>2, <2>3 DEF RankZeroHasCrew
<1> QED BY InitInv, StepsKeepInv, <1>1, PTL DEF Spec

-----------------------------------------------------------------------------
(* Who can stop a worker, and whether the file names the model.            *)

(* The peers are asked in the order of their ranks, each once, and never   *)
(* rank 0 when that is the hub.                                            *)
InOrder(l, j) ==
    /\ \A r \in Rank : j[r].pc # "none" =>
          /\ l.pc \notin {"new", "queued"} /\ r < Len(l.hosts)
          /\ r = 0 => l.hosts[1] # Hub
          /\ l.pc = "recruiting" => r < l.next
          /\ l.pc = "awaiting" => r <= l.next
    /\ l.pc \in {"recruiting", "awaiting"} /\ l.hosts[1] = Hub => l.next >= 1

(* Whoever has a Child handle has that of a process of its own, and nobody *)
(* else has it.                                                            *)
Runs(p)      == proc[p].status # "free"
Waits(l)     == l.pc \in {"polling", "settling"}
Unmanaged(p) == \A n \in Node : mgr[n].child # p

ManagersHold == \A n \in Node :
    /\ mgr[n].pid = mgr[n].child
    /\ mgr[n].child # NoPid =>
          /\ Runs(mgr[n].child) /\ proc[mgr[n].child].node = n
          /\ n = Hub /\ proc[mgr[n].child].rank = 0 => disk

LoadsHold == \A s \in Session : Waits(load[s]) =>
    /\ load[s].pid \in Pid /\ Runs(load[s].pid) /\ Unmanaged(load[s].pid)
    /\ proc[load[s].pid].node = Hub /\ proc[load[s].pid].session = s /\ proc[load[s].pid].rank = 0

JoinsHold == \A s \in Session, r \in Rank :
    /\ join[s][r].pc # "spawned" => join[s][r].pid = NoPid
    /\ join[s][r].pc = "spawned" =>
          /\ join[s][r].pid \in Pid /\ Runs(join[s][r].pid) /\ Unmanaged(join[s][r].pid)
          /\ proc[join[s][r].pid].node = Host(s, r)
          /\ proc[join[s][r].pid].session = s /\ proc[join[s][r].pid].rank = r

(* Who answers for a worker p that runs on a peer: the request that started *)
(* it, the manager it was given to unless the machine has joined again, or  *)
(* nobody because the request was dropped.                                  *)
Reached(p, s, r) ==
    /\ s \in Session /\ r \in Rank
    /\ proc[p].node = Host(s, r)
    /\ \/ join[s][r].pc = "spawned" /\ join[s][r].pid = p
       \/ join[s][r].pc = "ok" /\ mgr[proc[p].node].child = p
       \/ join[s][r].pc = "ok" /\ \E sr \in JoinsTo(proc[p].node) : sr # <<s, r>>
       \/ join[s][r].pc = "gone"

Tended == \A p \in Pid : Live(p) /\ proc[p].rank > 0 /\ proc[p].node # Hub =>
             Reached(p, proc[p].session, proc[p].rank)

Holds   == ManagersHold /\ LoadsHold /\ JoinsHold
Ordered == \A s \in Session : InOrder(load[s], join[s])
Tracked == /\ Inv /\ proc \in [Pid -> Processes] /\ disk \in BOOLEAN /\ log \in BOOLEAN
           /\ Ordered /\ Holds /\ Tended

-----------------------------------------------------------------------------
(* A process that a step leaves running, if it did not exit.               *)
Stays(p) ==
    /\ Runs(p)' /\ (Live(p)' => Live(p))
    /\ proc'[p].node = proc[p].node /\ proc'[p].session = proc[p].session /\ proc'[p].rank = proc[p].rank

(* A step that gives the handle of p away, or nobody has it.               *)
GivenUp(p) ==
    \/ ~Held(p)
    \/ \E n \in Node : mgr[n].child = p /\ mgr'[n].child # p
    \/ \E s \in Session : Waits(load[s]) /\ load[s].pid = p /\ ~Waits(load'[s])
    \/ \E s \in Session, r \in Rank :
          join[s][r].pc = "spawned" /\ join[s][r].pid = p /\ join'[s][r].pc # "spawned"

BornForLoad(p, s)    == ~Runs(p) /\ p \in Pid /\ proc'[p] = Spawned(p, Hub, s, 0)
BornForJoin(p, s, r) == ~Runs(p) /\ p \in Pid /\ proc'[p] = Spawned(p, Host(s, r), s, r)

(* What a step may do to the managers, the loads, the requests, the        *)
(* processes and the file.                                                 *)
ManagersLose == \A n \in Node : mgr'[n].pid = mgr'[n].child /\ mgr'[n].child \in {NoPid, mgr[n].child}
LoadsMove == \A s \in Session :
    /\ load[s].pc # "new" => load'[s].hosts = load[s].hosts
    /\ Waits(load'[s]) => \/ Waits(load[s]) /\ load'[s].pid = load[s].pid
                          \/ BornForLoad(load'[s].pid, s)
JoinsMove == \A s \in Session, r \in Rank :
    /\ join'[s][r].pc # "spawned" => join'[s][r].pid = NoPid
    /\ join[s][r].pc \in {"ok", "gone"} => join'[s][r].pc = join[s][r].pc
    /\ join'[s][r].pc = "spawned" => /\ join[s][r].pc # "none"
                                     /\ \/ join[s][r].pc = "spawned" /\ join'[s][r].pid = join[s][r].pid
                                        \/ BornForJoin(join'[s][r].pid, s, r)
ProcessesMove == \A p \in Pid :
    \/ Runs(p) /\ Stays(p)
    \/ Runs(p) /\ ~Runs(p)' /\ GivenUp(p)
    \/ ~Runs(p) /\ ~Runs(p)'
    \/ \E s \in Session : BornForLoad(p, s)
    \/ \E s \in Session, r \in Rank : join'[s][r].pc = "spawned" /\ join'[s][r].pid = p /\ BornForJoin(p, s, r)
FileMoves == disk /\ ~disk' => mgr'[Hub].child = NoPid

-----------------------------------------------------------------------------
LEMMA TrackedFacts ==
  ASSUME Tracked
  PROVE  /\ mgr \in [Node -> Managed] /\ load \in [Session -> Loads] /\ join \in [Session -> [Rank -> Joins]]
         /\ \A n \in Node : mgr[n].child \in Pid \cup {NoPid}
         /\ \A s \in Session : load[s].hosts \in Hostfile \cup {<<>>} /\ Len(load[s].hosts) \in Nat /\ load[s].next \in Nat
         /\ \A s \in Session : InOrder(load[s], join[s])
         /\ Hub \in Node /\ NoPid \notin Pid
<1>1. Types
  BY DEF Tracked, Inv
<1>2. \A n \in Node : mgr[n].child \in Pid \cup {NoPid}
  BY <1>1 DEF Types, Managed, MaybePid
<1>3. \A s \in Session : load[s].hosts \in Hostfile \cup {<<>>} /\ Len(load[s].hosts) \in Nat /\ load[s].next \in Nat
  BY <1>1, HostsLength
<1> QED BY <1>1, <1>2, <1>3 DEF Tracked, Types, Ordered

LEMMA AskedPeers ==
  ASSUME Tracked, NEW s \in Session, NEW r \in Rank, join[s][r].pc # "none"
  PROVE  /\ load[s].pc \notin {"new", "queued"} /\ Host(s, r) \in Node
         /\ r = 0 => Host(s, r) # Hub
<1>1. InOrder(load[s], join[s]) /\ load[s].hosts \in Hostfile \cup {<<>>} /\ Len(load[s].hosts) \in Nat
  BY TrackedFacts
<1>2. r \in Nat /\ r < Len(load[s].hosts) /\ (r = 0 => load[s].hosts[1] # Hub) /\ load[s].pc \notin {"new", "queued"}
  BY <1>1, RanksAre DEF InOrder
<1>3. r + 1 \in 1 .. Len(load[s].hosts) /\ (r = 0 => r + 1 = 1)
  BY <1>1, <1>2
<1>4. load[s].hosts \in Seq(Node)
  <2>1. load[s].hosts # <<>>
    BY <1>3
  <2> QED BY <1>1, <2>1
<1>5. load[s].hosts[r + 1] \in Node
  BY <1>3, <1>4
<1> QED BY <1>2, <1>3, <1>5 DEF Host

(* Nobody shares a handle.                                                 *)
LEMMA OneHolder ==
  ASSUME Tracked, NEW p \in Pid
  PROVE  /\ \A n, k \in Node : mgr[n].child = p /\ mgr[k].child = p => n = k
         /\ \A s, t \in Session : Waits(load[s]) /\ load[s].pid = p /\ Waits(load[t]) /\ load[t].pid = p => s = t
         /\ \A s \in Session, r \in Rank, t \in Session, q \in Rank :
               join[s][r].pc = "spawned" /\ join[s][r].pid = p /\ join[t][q].pc = "spawned" /\ join[t][q].pid = p
                  => s = t /\ r = q
         /\ \A s \in Session, t \in Session, q \in Rank :
               ~(Waits(load[s]) /\ load[s].pid = p /\ join[t][q].pc = "spawned" /\ join[t][q].pid = p)
         /\ \A n \in Node, s \in Session : ~(mgr[n].child = p /\ Waits(load[s]) /\ load[s].pid = p)
         /\ \A n \in Node, s \in Session, r \in Rank : ~(mgr[n].child = p /\ join[s][r].pc = "spawned" /\ join[s][r].pid = p)
<1>0. p # NoPid
  BY TrackedFacts
<1>1. \A n, k \in Node : mgr[n].child = p /\ mgr[k].child = p => n = k
  BY <1>0 DEF Tracked, Holds, ManagersHold
<1>2. \A s, t \in Session : Waits(load[s]) /\ load[s].pid = p /\ Waits(load[t]) /\ load[t].pid = p => s = t
  BY DEF Tracked, Holds, LoadsHold
<1>3. \A s \in Session, r \in Rank, t \in Session, q \in Rank :
         join[s][r].pc = "spawned" /\ join[s][r].pid = p /\ join[t][q].pc = "spawned" /\ join[t][q].pid = p
            => s = t /\ r = q
  BY DEF Tracked, Holds, JoinsHold
<1>4. ASSUME NEW s \in Session, NEW t \in Session, NEW q \in Rank,
             Waits(load[s]), load[s].pid = p, join[t][q].pc = "spawned", join[t][q].pid = p
      PROVE  FALSE
  <2>1. proc[p].node = Hub /\ proc[p].rank = 0
    BY <1>4 DEF Tracked, Holds, LoadsHold
  <2>2. proc[p].node = Host(t, q) /\ proc[p].rank = q
    BY <1>4 DEF Tracked, Holds, JoinsHold
  <2> QED BY <1>4, <2>1, <2>2, AskedPeers
<1>5. \A n \in Node, s \in Session : ~(mgr[n].child = p /\ Waits(load[s]) /\ load[s].pid = p)
  BY DEF Tracked, Holds, LoadsHold, Unmanaged
<1>6. \A n \in Node, s \in Session, r \in Rank : ~(mgr[n].child = p /\ join[s][r].pc = "spawned" /\ join[s][r].pid = p)
  BY DEF Tracked, Holds, JoinsHold, Unmanaged
<1> QED BY <1>1, <1>2, <1>3, <1>4, <1>5, <1>6

(* The hosts of a request that has been sent do not change.                *)
LEMMA SameHost ==
  ASSUME Tracked, LoadsMove, NEW s \in Session, NEW r \in Rank, join[s][r].pc # "none"
  PROVE  Host(s, r)' = Host(s, r)
<1>1. load[s].pc # "new"
  BY AskedPeers
<1> QED BY <1>1 DEF LoadsMove, Host

LEMMA SameHolder ==
  ASSUME Tracked, ManagersLose, LoadsMove, JoinsMove, NEW p \in Pid, Runs(p), Held(p)'
  PROVE  ~GivenUp(p)
<1> USE OneHolder
<1>0. p # NoPid
  BY TrackedFacts
<1>1. ASSUME NEW n \in Node, mgr'[n].child = p PROVE ~GivenUp(p)
  <2>1. mgr[n].child = p
    BY <1>0, <1>1 DEF ManagersLose
  <2>2. Held(p)
    BY <2>1 DEF Held
  <2> QED BY <1>1, <2>1, <2>2 DEF GivenUp
<1>2. ASSUME NEW s \in Session, Waits(load'[s]), load'[s].pid = p PROVE ~GivenUp(p)
  <2>1. Waits(load[s]) /\ load[s].pid = p
    BY <1>2 DEF LoadsMove, BornForLoad
  <2>2. Held(p)
    BY <2>1 DEF Held, Waits
  <2> QED BY <1>2, <2>1, <2>2 DEF GivenUp
<1>3. ASSUME NEW s \in Session, NEW r \in Rank, join'[s][r].pc = "spawned", join'[s][r].pid = p PROVE ~GivenUp(p)
  <2>1. join[s][r].pc = "spawned" /\ join[s][r].pid = p
    BY <1>3 DEF JoinsMove, BornForJoin
  <2>2. Held(p)
    BY <2>1 DEF Held
  <2> QED BY <1>3, <2>1, <2>2 DEF GivenUp
<1> QED BY <1>1, <1>2, <1>3 DEF Held, Waits

LEMMA Keeping ==
  ASSUME Tracked, ManagersLose, LoadsMove, JoinsMove, ProcessesMove, FileMoves
  PROVE  Holds'
<1>1. ASSUME NEW p \in Pid, Runs(p), Held(p)'
      PROVE  Stays(p)
  BY <1>1, SameHolder DEF ProcessesMove, BornForLoad, BornForJoin
<1>2. ManagersHold'
  <2> SUFFICES ASSUME NEW n \in Node, NEW p, p = mgr'[n].child, p # NoPid
               PROVE  /\ Runs(p)' /\ proc'[p].node = n
                      /\ n = Hub /\ proc'[p].rank = 0 => disk'
    BY DEF ManagersHold, ManagersLose, Runs
  <2>1. p = mgr'[n].child
    OBVIOUS
  <2>2. p = mgr[n].child /\ p \in Pid
    BY <2>1, TrackedFacts DEF ManagersLose
  <2>3. Runs(p) /\ proc[p].node = n /\ (n = Hub /\ proc[p].rank = 0 => disk)
    BY <2>1, <2>2 DEF Tracked, Holds, ManagersHold
  <2>4. Stays(p)
    BY <1>1, <2>1, <2>2, <2>3 DEF Held
  <2> QED BY <2>1, <2>2, <2>3, <2>4 DEF Stays, Runs, FileMoves
<1>3. ASSUME NEW p \in Pid, ~Runs(p) \/ Unmanaged(p) PROVE Unmanaged(p)'
  <2>1. p # NoPid
    BY TrackedFacts
  <2>2. ASSUME NEW n \in Node PROVE mgr[n].child # p
    BY <1>3, <2>1 DEF Unmanaged, Tracked, Holds, ManagersHold
  <2> QED BY <2>1, <2>2 DEF Unmanaged, ManagersLose
<1>4. LoadsHold'
  <2> SUFFICES ASSUME NEW s \in Session, Waits(load'[s]), NEW p, p = load'[s].pid
               PROVE  /\ p \in Pid /\ Runs(p)' /\ Unmanaged(p)'
                      /\ proc'[p].node = Hub /\ proc'[p].session = s /\ proc'[p].rank = 0
    BY DEF LoadsHold, Runs, Unmanaged, Waits
  <2>1. CASE Waits(load[s]) /\ load[s].pid = p
    <3>1. /\ p \in Pid /\ Runs(p) /\ Unmanaged(p)
          /\ proc[p].node = Hub /\ proc[p].session = s /\ proc[p].rank = 0
      BY <2>1 DEF Tracked, Holds, LoadsHold
    <3>2. Stays(p)
      BY <1>1, <3>1 DEF Held, Waits
    <3> QED BY <1>3, <3>1, <3>2 DEF Stays, Runs
  <2>2. CASE BornForLoad(p, s)
    <3>1. p \in Pid /\ Unmanaged(p)'
      BY <1>3, <2>2 DEF BornForLoad
    <3>2. proc'[p] = Spawned(p, Hub, s, 0)
      BY <2>2 DEF BornForLoad
    <3> QED BY <3>1, <3>2 DEF Spawned, Runs
  <2> QED BY <2>1, <2>2 DEF LoadsMove
<1>5. JoinsHold'
  <2> SUFFICES ASSUME NEW s \in Session, NEW r \in Rank, join'[s][r].pc = "spawned", NEW p, p = join'[s][r].pid
               PROVE  /\ p \in Pid /\ Runs(p)' /\ Unmanaged(p)'
                      /\ proc'[p].node = Host(s, r)' /\ proc'[p].session = s /\ proc'[p].rank = r
    BY DEF JoinsHold, JoinsMove, Runs, Unmanaged, Host
  <2>0. Host(s, r)' = Host(s, r)
    BY SameHost DEF JoinsMove
  <2>1. CASE join[s][r].pc = "spawned" /\ join[s][r].pid = p
    <3>1. /\ p \in Pid /\ Runs(p) /\ Unmanaged(p)
          /\ proc[p].node = Host(s, r) /\ proc[p].session = s /\ proc[p].rank = r
      BY <2>1 DEF Tracked, Holds, JoinsHold
    <3>2. Stays(p)
      BY <1>1, <3>1 DEF Held
    <3> QED BY <1>3, <2>0, <3>1, <3>2 DEF Stays, Runs
  <2>2. CASE BornForJoin(p, s, r)
    <3>1. p \in Pid /\ Unmanaged(p)'
      BY <1>3, <2>2 DEF BornForJoin
    <3>2. proc'[p] = Spawned(p, Host(s, r), s, r)
      BY <2>2 DEF BornForJoin
    <3> QED BY <2>0, <3>1, <3>2 DEF Spawned, Runs
  <2> QED BY <2>1, <2>2 DEF JoinsMove
<1> QED BY <1>2, <1>4, <1>5 DEF Holds

(* A request that has been answered, or dropped, stays so, and one that is *)
(* answered has given its worker to the manager. Another join is the only  *)
(* way for a peer's manager to give up a worker that runs.                 *)
JoinsEnd == \A s \in Session, r \in Rank :
    join[s][r].pc = "spawned" =>
       \/ join'[s][r] = join[s][r] \/ join'[s][r].pc = "gone"
       \/ join'[s][r].pc = "ok" /\ mgr'[Host(s, r)].child = join[s][r].pid
PeersKeep == \A n \in Node \ {Hub} :
    \/ mgr'[n].child = mgr[n].child
    \/ \A p \in Pid : p = mgr[n].child => ~Live(p)'
    \/ \E s \in Session, r \in Rank : join[s][r].pc = "spawned" /\ join'[s][r].pc = "ok" /\ Host(s, r) = n

LEMMA Tending ==
  ASSUME Tracked, LoadsMove, JoinsMove, ProcessesMove, JoinsEnd, PeersKeep
  PROVE  Tended'
<1> SUFFICES ASSUME NEW p \in Pid, NEW s, NEW r, s = proc'[p].session, r = proc'[p].rank,
                    Live(p)', r > 0, proc'[p].node # Hub
             PROVE  Reached(p, s, r)'
  BY DEF Tended
<1>1. CASE Runs(p)
  <2>0. Stays(p)
    BY <1>1 DEF ProcessesMove, BornForLoad, BornForJoin, Runs, Live
  <2>1. Live(p) /\ proc[p].rank > 0 /\ proc[p].node # Hub
    BY <2>0 DEF Stays
  <2>2. PICK n : n = proc[p].node
    OBVIOUS
  <2>3. Reached(p, s, r) /\ s = proc[p].session /\ r = proc[p].rank /\ n = proc'[p].node
    BY <2>0, <2>1, <2>2 DEF Tracked, Tended, Stays
  <2>4. s \in Session /\ r \in Rank /\ n = Host(s, r) /\ join[s][r].pc # "none"
    BY <2>2, <2>3 DEF Reached
  <2>5. n = Host(s, r)' /\ n \in Node \ {Hub}
    BY <2>1, <2>2, <2>4, SameHost, AskedPeers
  <2>6. \A sr \in JoinsTo(n) : sr \in JoinsTo(n)'
    <3> SUFFICES ASSUME NEW sr \in JoinsTo(n) PROVE sr \in JoinsTo(n)'
      OBVIOUS
    <3>1. /\ sr \in Session \X Rank /\ sr[1] \in Session /\ sr[2] \in Rank
          /\ join[sr[1]][sr[2]].pc = "ok" /\ Host(sr[1], sr[2]) = n
      BY DEF JoinsTo
    <3>2. join'[sr[1]][sr[2]].pc = "ok" /\ Host(sr[1], sr[2])' = n
      BY <3>1, SameHost DEF JoinsMove
    <3> QED BY <3>1, <3>2 DEF JoinsTo
  <2>7. CASE join[s][r].pc = "gone"
    BY <2>3, <2>4, <2>5, <2>7 DEF Reached, JoinsMove
  <2>8. CASE join[s][r].pc = "spawned" /\ join[s][r].pid = p
    <3>1. \/ join'[s][r].pc = "spawned" /\ join'[s][r].pid = p
          \/ join'[s][r].pc = "gone"
          \/ join'[s][r].pc = "ok" /\ mgr'[n].child = p
      BY <2>4, <2>8 DEF JoinsEnd
    <3> QED BY <2>3, <2>4, <2>5, <3>1 DEF Reached
  <2>9. CASE join[s][r].pc = "ok" /\ \E sr \in JoinsTo(n) : sr # <<s, r>>
    BY <2>3, <2>4, <2>5, <2>6, <2>9 DEF Reached, JoinsMove
  <2>10. CASE join[s][r].pc = "ok" /\ mgr[n].child = p
    <3>1. CASE mgr'[n].child = mgr[n].child
      BY <2>3, <2>4, <2>5, <2>10, <3>1 DEF Reached, JoinsMove
    <3>2. ASSUME NEW t \in Session, NEW q \in Rank,
                 join[t][q].pc = "spawned", join'[t][q].pc = "ok", Host(t, q) = n
          PROVE  Reached(p, s, r)'
      <4>1. Host(t, q)' = n
        BY <3>2, SameHost
      <4>2. <<t, q>> \in JoinsTo(n)'
        BY <3>2, <4>1 DEF JoinsTo
      <4>3. <<t, q>> # <<s, r>>
        BY <2>10, <3>2
      <4>4. join'[s][r].pc = "ok"
        BY <2>4, <2>10 DEF JoinsMove
      <4> QED BY <2>3, <2>4, <2>5, <4>2, <4>3, <4>4 DEF Reached
    <3> QED BY <2>3, <2>5, <2>10, <3>1, <3>2 DEF PeersKeep
  <2>11. \/ join[s][r].pc = "gone"
         \/ join[s][r].pc = "spawned" /\ join[s][r].pid = p
         \/ join[s][r].pc = "ok" /\ \E sr \in JoinsTo(n) : sr # <<s, r>>
         \/ join[s][r].pc = "ok" /\ mgr[n].child = p
    BY <2>2, <2>3 DEF Reached
  <2> QED BY <2>7, <2>8, <2>9, <2>10, <2>11
<1>2. CASE ~Runs(p)
  <2>1. ASSUME NEW t \in Session, BornForLoad(p, t) PROVE FALSE
    BY <2>1 DEF BornForLoad, Spawned
  <2>2. ASSUME NEW t \in Session, NEW q \in Rank, join'[t][q].pc = "spawned", join'[t][q].pid = p, BornForJoin(p, t, q)
        PROVE  Reached(p, s, r)'
    <3>1. proc'[p].node = Host(s, r) /\ t = s /\ q = r
      BY <2>2 DEF BornForJoin, Spawned
    <3>2. Host(t, q)' = Host(t, q)
      BY <2>2, SameHost DEF JoinsMove
    <3>3. Host(s, r)' = Host(s, r) /\ s \in Session /\ r \in Rank
      BY <3>1, <3>2
    <3> QED BY <2>2, <3>1, <3>3 DEF Reached
  <2> QED BY <1>2, <2>1, <2>2 DEF ProcessesMove, Runs, Live
<1> QED BY <1>1, <1>2

LEMMA Tracks ==
  ASSUME Tracked, Inv', proc' \in [Pid -> Processes], disk' \in BOOLEAN, log' \in BOOLEAN,
         \A s \in Session : InOrder(load'[s], join'[s]),
         ManagersLose, PeersKeep, LoadsMove, JoinsMove, JoinsEnd, ProcessesMove, FileMoves
  PROVE  Tracked'
BY Keeping, Tending DEF Tracked, Ordered

-----------------------------------------------------------------------------
(* The parts of a step.                                                    *)

LEMMA ManagersStay ==
  ASSUME Tracked, UNCHANGED mgr
  PROVE  ManagersLose /\ PeersKeep
BY DEF Tracked, Holds, ManagersHold, ManagersLose, PeersKeep

LEMMA HubMoves ==
  ASSUME Tracked, NEW m, mgr' = [mgr EXCEPT ![Hub] = m],
         m.pid = m.child, m.child \in {NoPid, mgr[Hub].child}
  PROVE  ManagersLose /\ PeersKeep /\ mgr'[Hub] = m
<1>1. mgr'[Hub] = m /\ \A n \in Node \ {Hub} : mgr'[n] = mgr[n]
  BY TrackedFacts
<1> QED BY <1>1 DEF Tracked, Holds, ManagersHold, ManagersLose, PeersKeep

(* The processes of dead are reaped, and nobody keeps a handle of them.    *)
LEMMA Reaped ==
  ASSUME Tracked, NEW dead, proc' = [p \in Pid |-> IF p \in dead THEN Gone ELSE proc[p]],
         \A p \in Pid : p \in dead /\ Runs(p) => GivenUp(p)
  PROVE  /\ ProcessesMove /\ proc' \in [Pid -> Processes]
         /\ \A p \in Pid : p \in dead => ~Live(p)'
<1>1. Gone \in Processes /\ Gone.status = "free"
  BY DEF Gone, Processes, MaybeSession
<1>2. \A p \in Pid : proc'[p] = IF p \in dead THEN Gone ELSE proc[p]
  OBVIOUS
<1>3. proc' \in [Pid -> Processes]
  BY <1>1 DEF Tracked
<1>4. ASSUME NEW p \in Pid, p \in dead PROVE ~Runs(p)' /\ ~Live(p)'
  BY <1>1, <1>2, <1>4 DEF Runs, Live
<1>5. ASSUME NEW p \in Pid, p \notin dead PROVE (Runs(p) /\ Stays(p)) \/ (~Runs(p) /\ ~Runs(p)')
  BY <1>2, <1>5 DEF Runs, Live, Stays
<1> QED BY <1>3, <1>4, <1>5 DEF ProcessesMove

LEMMA NobodyExits ==
  ASSUME Tracked, UNCHANGED proc
  PROVE  ProcessesMove /\ proc' \in [Pid -> Processes]
BY DEF Tracked, ProcessesMove, Stays, Runs, Live

(* kill_child: the process is the one whose handle the manager gives up.   *)
LEMMA KillsOwn ==
  ASSUME Tracked, NEW n \in Node, proc' = Killed(n), mgr'[n].child = NoPid
  PROVE  /\ ProcessesMove /\ proc' \in [Pid -> Processes]
         /\ \A p \in Pid : p = mgr[n].child => ~Live(p)'
<1>1. mgr[n].pid = mgr[n].child
  BY DEF Tracked, Holds, ManagersHold
<1>2. \A p \in Pid : p \in {mgr[n].child, mgr[n].pid} => GivenUp(p)
  BY <1>1, TrackedFacts DEF GivenUp
<1> QED BY <1>1, <1>2, Reaped DEF Killed

Later == {"spawning", "remote", "polling", "settling", "failing", "done"}

LEMMA JoinsStay ==
  ASSUME Tracked, UNCHANGED join
  PROVE  JoinsMove /\ JoinsEnd
BY DEF JoinsMove, JoinsEnd, Tracked, Holds, JoinsHold

(* A load that has asked all it will ask.                                  *)
LEMMA LoadIsLater ==
  ASSUME Tracked, NEW s \in Session, load[s].pc \notin {"new", "queued"}, UNCHANGED join,
         \A t \in Session \ {s} : load'[t] = load[t],
         load'[s].hosts = load[s].hosts, load'[s].pc \in Later,
         Waits(load'[s]) => \/ Waits(load[s]) /\ load'[s].pid = load[s].pid
                            \/ BornForLoad(load'[s].pid, s)
  PROVE  /\ \A t \in Session : InOrder(load'[t], join'[t])
         /\ LoadsMove /\ JoinsMove /\ JoinsEnd
<1>1. JoinsMove /\ JoinsEnd
  BY JoinsStay
<1>2. LoadsMove
  BY DEF LoadsMove
<1>3. InOrder(load'[s], join'[s])
  BY TrackedFacts DEF InOrder, Later
<1>4. \A t \in Session \ {s} : InOrder(load'[t], join'[t])
  BY TrackedFacts
<1> QED BY <1>1, <1>2, <1>3, <1>4

LEMMA LoadsStay ==
  ASSUME Tracked, UNCHANGED load
  PROVE  LoadsMove
BY DEF LoadsMove

-----------------------------------------------------------------------------
(* The steps of the hub.                                                   *)

LEMMA TrackedStart ==
  ASSUME Tracked, Inv', NEW s \in Session, Start(s)
  PROVE  Tracked'
<1>1. load[s].pc = "new" /\ UNCHANGED <<join, disk, log>> /\ proc' = Killed(Hub)
  BY DEF Start
<1>2. PICK m : m = [mgr[Hub] EXCEPT !.state = "Loading", !.child = NoPid, !.pid = NoPid] /\ mgr' = [mgr EXCEPT ![Hub] = m]
  BY DEF Start
<1>3. m.child = NoPid /\ m.pid = NoPid
  BY <1>2, TrackedFacts DEF Managed
<1>4. ManagersLose /\ PeersKeep /\ mgr'[Hub] = m
  BY <1>2, <1>3, HubMoves
<1>5. ProcessesMove /\ proc' \in [Pid -> Processes]
  BY <1>1, <1>3, <1>4, KillsOwn, TrackedFacts
<1>6. load'[s].pc = "queued" /\ \A t \in Session \ {s} : load'[t] = load[t]
  BY TrackedFacts DEF Start, Loads
<1>7. LoadsMove /\ JoinsMove /\ JoinsEnd
  BY <1>1, <1>6, JoinsStay DEF LoadsMove, Waits
<1>8. \A r \in Rank : join[s][r].pc = "none"
  BY <1>1, TrackedFacts DEF InOrder
<1>9. \A t \in Session : InOrder(load'[t], join'[t])
  <2>1. InOrder(load'[s], join'[s])
    BY <1>1, <1>6, <1>8 DEF InOrder
  <2> QED BY <1>1, <1>6, <2>1, TrackedFacts
<1>10. FileMoves
  BY <1>1 DEF FileMoves
<1> QED BY <1>1, <1>4, <1>5, <1>7, <1>9, <1>10, Tracks DEF Tracked

LEMMA TrackedKill ==
  ASSUME Tracked, Inv', NEW s \in Session, TaskKills(s)
  PROVE  Tracked'
<1>1. load[s].pc = "queued" /\ UNCHANGED <<join, disk, log>> /\ proc' = Killed(Hub)
  BY DEF TaskKills
<1>2. PICK m : m = [mgr[Hub] EXCEPT !.child = NoPid, !.pid = NoPid] /\ mgr' = [mgr EXCEPT ![Hub] = m]
  BY DEF TaskKills
<1>3. m.child = NoPid /\ m.pid = NoPid
  BY <1>2, TrackedFacts DEF Managed
<1>4. ManagersLose /\ PeersKeep /\ mgr'[Hub] = m
  BY <1>2, <1>3, HubMoves
<1>5. ProcessesMove /\ proc' \in [Pid -> Processes]
  BY <1>1, <1>3, <1>4, KillsOwn, TrackedFacts
<1>6. /\ load'[s].pc \in {"spawning", "failing", "recruiting"} /\ load'[s].hosts = load[s].hosts
      /\ load'[s].pc = "recruiting" /\ HubIsRank0(s) => load'[s].next = 1
      /\ \A t \in Session \ {s} : load'[t] = load[t]
  <2>1. load[s] \in Loads /\ World(s) \in Nat
    BY TrackedFacts DEF World
  <2>2. \A t \in Session \ {s} : load'[t] = load[t]
    BY TrackedFacts DEF TaskKills
  <2>3. load'[s] = [load[s] EXCEPT
          !.pc = IF World(s) = 0 THEN "spawning" ELSE IF World(s) = 1 THEN "failing" ELSE "recruiting",
          !.next = IF World(s) > 1 /\ HubIsRank0(s) THEN 1 ELSE 0]
    BY TrackedFacts DEF TaskKills
  <2>4. /\ load'[s].pc = IF World(s) = 0 THEN "spawning" ELSE IF World(s) = 1 THEN "failing" ELSE "recruiting"
        /\ load'[s].next = IF World(s) > 1 /\ HubIsRank0(s) THEN 1 ELSE 0
        /\ load'[s].hosts = load[s].hosts
    BY <2>1, <2>3 DEF Loads
  <2>5. load'[s].pc = "recruiting" => World(s) > 1
    BY <2>1, <2>4
  <2> QED BY <2>2, <2>4, <2>5
<1>7. LoadsMove /\ JoinsMove /\ JoinsEnd
  BY <1>1, <1>6, JoinsStay DEF LoadsMove, Waits
<1>8. \A r \in Rank : join[s][r].pc = "none"
  BY <1>1, TrackedFacts DEF InOrder
<1>9. \A t \in Session : InOrder(load'[t], join'[t])
  <2>1. load'[s].pc = "recruiting" /\ load'[s].hosts[1] = Hub => load'[s].next >= 1
    BY <1>6 DEF HubIsRank0, Host
  <2>2. InOrder(load'[s], join'[s])
    BY <1>1, <1>6, <1>8, <2>1 DEF InOrder
  <2> QED BY <1>1, <1>6, <2>2, TrackedFacts
<1>10. FileMoves
  BY <1>1 DEF FileMoves
<1> QED BY <1>1, <1>4, <1>5, <1>7, <1>9, <1>10, Tracks DEF Tracked

(* The next request: none of the ranks from next on has been asked.        *)
LEMMA TrackedRecruits ==
  ASSUME Tracked, Inv', NEW s \in Session, Recruits(s)
  PROVE  Tracked'
<1>1. /\ load[s].pc = "recruiting" /\ load[s].next < World(s)
      /\ UNCHANGED <<mgr, disk, log, proc>>
  BY DEF Recruits
<1>2. load[s].next \in Rank /\ load[s].next \in Nat
  BY <1>1, Asked, TrackedFacts DEF Tracked
<1>3. InOrder(load[s], join[s]) /\ join[s][load[s].next].pc = "none"
  <2>1. InOrder(load[s], join[s]) /\ ~(load[s].next < load[s].next)
    BY <1>2, TrackedFacts
  <2> QED BY <1>1, <1>2, <2>1 DEF InOrder
<1>4. PICK j : j = [join[s][load[s].next] EXCEPT !.pc = "sent"] /\ join' = [join EXCEPT ![s][load[s].next] = j]
  BY DEF Recruits
<1>5. j.pc = "sent" /\ j.pid = NoPid
  <2>1. join[s][load[s].next] \in Joins /\ join[s][load[s].next].pid = NoPid
    BY <1>2, <1>3, TrackedFacts DEF Tracked, Holds, JoinsHold
  <2> QED BY <1>4, <2>1 DEF Joins
<1>6. /\ join'[s][load[s].next] = j
      /\ \A t \in Session, r \in Rank : t # s \/ r # load[s].next => join'[t][r] = join[t][r]
  BY <1>2, <1>4, TrackedFacts
<1>7. /\ load'[s].pc = "awaiting" /\ load'[s].hosts = load[s].hosts /\ load'[s].next = load[s].next
      /\ \A t \in Session \ {s} : load'[t] = load[t]
  BY TrackedFacts DEF Recruits, Loads
<1>8. LoadsMove
  BY <1>7 DEF LoadsMove, Waits
<1>9. JoinsMove /\ JoinsEnd
  BY <1>3, <1>5, <1>6 DEF JoinsMove, JoinsEnd, Tracked, Holds, JoinsHold
<1>10. InOrder(load'[s], join'[s])
  <2>1. \A r \in Rank : r \in Nat
    BY RanksAre
  <2>2. load[s].next = 0 => load[s].hosts[1] # Hub
    BY <1>1, <1>3 DEF InOrder
  <2>3. load[s].next < Len(load[s].hosts)
    BY <1>1 DEF World
  <2>4. ASSUME NEW r \in Rank, join'[s][r].pc # "none"
        PROVE  r < Len(load[s].hosts) /\ (r = 0 => load[s].hosts[1] # Hub) /\ r <= load[s].next
    <3>1. CASE r = load[s].next
      BY <1>2, <2>2, <2>3, <3>1
    <3>2. CASE r # load[s].next
      <4>1. join[s][r].pc # "none"
        BY <1>6, <2>4, <3>2
      <4> QED BY <1>1, <1>2, <1>3, <2>1, <4>1 DEF InOrder
    <3> QED BY <3>1, <3>2
  <2>5. load[s].hosts[1] = Hub => load[s].next >= 1
    BY <1>1, <1>3 DEF InOrder
  <2> QED BY <1>7, <2>4, <2>5 DEF InOrder
<1>11. \A t \in Session : InOrder(load'[t], join'[t])
  <2>1. ASSUME NEW t \in Session \ {s} PROVE InOrder(load'[t], join'[t])
    <3>1. load'[t] = load[t] /\ InOrder(load[t], join[t]) /\ \A r \in Rank : join'[t][r] = join[t][r]
      BY <1>6, <1>7, TrackedFacts
    <3> QED BY <3>1 DEF InOrder
  <2> QED BY <1>10, <2>1
<1>12. FileMoves /\ ManagersLose /\ PeersKeep
  BY <1>1, ManagersStay DEF FileMoves
<1>13. ProcessesMove /\ proc' \in [Pid -> Processes]
  BY <1>1, NobodyExits
<1> QED BY <1>1, <1>8, <1>9, <1>11, <1>12, <1>13, Tracks DEF Tracked

(* A request that has not been sent is not, one that was answered stays.   *)
LEMMA TrackedCounts ==
  ASSUME Tracked, Inv', NEW s \in Session, NEW ok \in BOOLEAN, load[s].pc = "awaiting", Result(s, ok),
         UNCHANGED <<mgr, disk, log, proc>>, JoinsMove, JoinsEnd,
         \A t \in Session, r \in Rank : join'[t][r].pc # "none" => join[t][r].pc # "none"
  PROVE  Tracked'
<1>1. /\ load'[s].pc = "recruiting" /\ load'[s].hosts = load[s].hosts /\ load'[s].next = load[s].next + 1
      /\ \A t \in Session \ {s} : load'[t] = load[t]
  BY TrackedFacts DEF Result, Loads
<1>2. LoadsMove
  BY <1>1 DEF LoadsMove, Waits
<1>3. InOrder(load'[s], join'[s])
  <2>1. load[s].next \in Nat /\ InOrder(load[s], join[s])
    BY TrackedFacts
  <2>2. ASSUME NEW r \in Rank, join'[s][r].pc # "none"
        PROVE  r < Len(load[s].hosts) /\ (r = 0 => load[s].hosts[1] # Hub) /\ r < load[s].next + 1
    <3>1. join[s][r].pc # "none" /\ r \in Nat
      BY <2>2, RanksAre
    <3>2. r < Len(load[s].hosts) /\ (r = 0 => load[s].hosts[1] # Hub) /\ r <= load[s].next
      BY <2>1, <3>1 DEF InOrder
    <3> QED BY <2>1, <3>1, <3>2
  <2>3. load[s].hosts[1] = Hub => load[s].next + 1 >= 1
    BY <2>1
  <2> QED BY <1>1, <2>2, <2>3 DEF InOrder
<1>4. \A t \in Session : InOrder(load'[t], join'[t])
  <2>1. ASSUME NEW t \in Session \ {s} PROVE InOrder(load'[t], join'[t])
    BY <1>1, TrackedFacts DEF InOrder
  <2> QED BY <1>3, <2>1
<1>5. FileMoves /\ ManagersLose /\ PeersKeep
  BY ManagersStay DEF FileMoves
<1>6. ProcessesMove /\ proc' \in [Pid -> Processes]
  BY NobodyExits
<1> QED BY <1>2, <1>4, <1>5, <1>6, Tracks DEF Tracked

LEMMA TrackedAnswers ==
  ASSUME Tracked, Inv', NEW s \in Session, Answered(s) \/ TimesOut(s)
  PROVE  Tracked'
<1>1. load[s].pc = "awaiting" /\ UNCHANGED <<mgr, disk, log, proc>>
  BY DEF Answered, TimesOut
<1>2. PICK ok \in BOOLEAN : Result(s, ok)
  <2>1. (join[s][load[s].next].pc = "ok") \in BOOLEAN
    OBVIOUS
  <2> QED BY <2>1 DEF Answered, TimesOut
<1>3. CASE UNCHANGED join
  <2>1. JoinsMove /\ JoinsEnd
    BY <1>3, JoinsStay
  <2> QED BY <1>1, <1>2, <1>3, <2>1, TrackedCounts
<1>4. CASE join[s][load[s].next].pc = "sent" /\ join' = [join EXCEPT ![s][load[s].next].pc = "gone"]
  <2>1. load[s].next \in Rank /\ join[s][load[s].next] \in Joins /\ join[s][load[s].next].pid = NoPid
    BY <1>1, <1>4, Asked, Relies DEF Knows, Tracked, Holds, JoinsHold
  <2>2. /\ join'[s][load[s].next].pc = "gone" /\ join'[s][load[s].next].pid = NoPid
        /\ \A t \in Session, r \in Rank : t # s \/ r # load[s].next => join'[t][r] = join[t][r]
    BY <1>4, <2>1, TrackedFacts DEF Joins
  <2>3. /\ JoinsMove /\ JoinsEnd
        /\ \A t \in Session, r \in Rank : join'[t][r].pc # "none" => join[t][r].pc # "none"
    BY <1>4, <2>2 DEF JoinsMove, JoinsEnd, Tracked, Holds, JoinsHold
  <2> QED BY <1>1, <1>2, <2>3, TrackedCounts
<1> QED BY <1>3, <1>4 DEF Answered, TimesOut

LEMMA TrackedCompletes ==
  ASSUME Tracked, Inv', NEW s \in Session, CrewIsComplete(s)
  PROVE  Tracked'
<1>1. load[s].pc = "recruiting" /\ UNCHANGED <<mgr, join, disk, log, proc>>
  BY DEF CrewIsComplete
<1>2. /\ load'[s].pc \in {"failing", "spawning", "remote"} /\ load'[s].hosts = load[s].hosts
      /\ \A t \in Session \ {s} : load'[t] = load[t]
  BY TrackedFacts DEF CrewIsComplete, Loads
<1>3. /\ \A t \in Session : InOrder(load'[t], join'[t])
      /\ LoadsMove /\ JoinsMove /\ JoinsEnd
  BY <1>1, <1>2, LoadIsLater DEF Later, Waits
<1>4. FileMoves /\ ManagersLose /\ PeersKeep /\ ProcessesMove /\ proc' \in [Pid -> Processes]
  BY <1>1, ManagersStay, NobodyExits DEF FileMoves
<1> QED BY <1>1, <1>3, <1>4, Tracks DEF Tracked

LEMMA TrackedEnds ==
  ASSUME Tracked, Inv', NEW s \in Session, RemoteAnswers(s) \/ SettlesError(s) \/ Fails(s)
  PROVE  Tracked'
<1>1. load[s].pc \in {"remote", "settling", "failing"} /\ UNCHANGED <<join, disk, log>>
  BY DEF RemoteAnswers, SettlesError, Fails
<1>2. /\ load'[s].pc = "done" /\ load'[s].hosts = load[s].hosts
      /\ \A t \in Session \ {s} : load'[t] = load[t]
  BY TrackedFacts DEF RemoteAnswers, SettlesError, Fails, Loads
<1>3. /\ \A t \in Session : InOrder(load'[t], join'[t])
      /\ LoadsMove /\ JoinsMove /\ JoinsEnd
  BY <1>1, <1>2, LoadIsLater DEF Later, Waits
<1>4. PICK m : /\ m \in {[mgr[Hub] EXCEPT !.state = "Ready", !.session = s], [mgr[Hub] EXCEPT !.state = "Error"]}
               /\ mgr' = [mgr EXCEPT ![Hub] = m]
  BY DEF RemoteAnswers, SettlesError, Fails
<1>5. m.child = mgr[Hub].child /\ m.pid = mgr[Hub].pid /\ mgr[Hub].pid = mgr[Hub].child
  <2>1. mgr[Hub] \in Managed /\ mgr[Hub].pid = mgr[Hub].child
    BY TrackedFacts DEF Tracked, Holds, ManagersHold
  <2> QED BY <1>4, <2>1 DEF Managed
<1>6. ManagersLose /\ PeersKeep
  BY <1>4, <1>5, HubMoves
<1>7. ProcessesMove /\ proc' \in [Pid -> Processes]
  <2>1. CASE UNCHANGED proc
    BY <2>1, NobodyExits
  <2>2. CASE SettlesError(s) /\ proc' = [proc EXCEPT ![load[s].pid] = Gone]
    <3>1. load[s].pc = "settling"
      BY <2>2 DEF SettlesError
    <3>2. \A p \in Pid : p \in {load[s].pid} => GivenUp(p)
      BY <1>2, <3>1 DEF GivenUp, Waits
    <3>3. proc' = [p \in Pid |-> IF p \in {load[s].pid} THEN Gone ELSE proc[p]]
      BY <2>2 DEF Tracked
    <3> QED BY <3>2, <3>3, Reaped
  <2> QED BY <2>1, <2>2 DEF RemoteAnswers, SettlesError, Fails
<1>8. FileMoves
  BY <1>1 DEF FileMoves
<1> QED BY <1>1, <1>3, <1>6, <1>7, <1>8, Tracks DEF Tracked

LEMMA TrackedSpawns ==
  ASSUME Tracked, Inv', NEW s \in Session, Spawns(s)
  PROVE  Tracked'
<1>1. load[s].pc = "spawning" /\ UNCHANGED <<mgr, join, disk>> /\ log' \in BOOLEAN
  BY DEF Spawns, Tracked
<1>2. FileMoves /\ ManagersLose /\ PeersKeep
  BY <1>1, ManagersStay DEF FileMoves
<1>3. ASSUME NEW p \in Pid, proc[p] = Gone, proc' = [proc EXCEPT ![p] = Spawned(p, Hub, s, 0)],
             load' = [load EXCEPT ![s] = [@ EXCEPT !.pc = "polling", !.pid = p]]
      PROVE  Tracked'
  <2>1. /\ load'[s].pc = "polling" /\ load'[s].hosts = load[s].hosts /\ load'[s].pid = p
        /\ \A t \in Session \ {s} : load'[t] = load[t]
    BY <1>3, TrackedFacts DEF Loads
  <2>2. proc' \in [Pid -> Processes] /\ proc'[p] = Spawned(p, Hub, s, 0) /\ \A q \in Pid \ {p} : proc'[q] = proc[q]
    BY <1>3, TrackedFacts DEF Tracked, Spawned, Processes, MaybeSession
  <2>3. BornForLoad(p, s)
    BY <1>3, <2>2 DEF BornForLoad, Runs, Gone
  <2>4. ProcessesMove
    BY <2>2, <2>3 DEF ProcessesMove, Stays, Runs, Live
  <2>5. /\ \A t \in Session : InOrder(load'[t], join'[t])
        /\ LoadsMove /\ JoinsMove /\ JoinsEnd
    BY <1>1, <2>1, <2>3, LoadIsLater DEF Later
  <2> QED BY <1>1, <1>2, <2>2, <2>4, <2>5, Tracks DEF Tracked
<1>4. CASE load' = [load EXCEPT ![s].pc = "failing"] /\ UNCHANGED proc
  <2>1. /\ load'[s].pc = "failing" /\ load'[s].hosts = load[s].hosts
        /\ \A t \in Session \ {s} : load'[t] = load[t]
    BY <1>4, TrackedFacts DEF Loads
  <2>2. /\ \A t \in Session : InOrder(load'[t], join'[t])
        /\ LoadsMove /\ JoinsMove /\ JoinsEnd
    BY <1>1, <2>1, LoadIsLater DEF Later, Waits
  <2> QED BY <1>1, <1>2, <1>4, <2>2, NobodyExits, Tracks DEF Tracked
<1> QED BY <1>3, <1>4 DEF Spawns

LEMMA TrackedPolls ==
  ASSUME Tracked, Inv', NEW s \in Session, Polls(s)
  PROVE  Tracked'
<1>1. load[s].pc = "polling" /\ UNCHANGED <<mgr, join, disk, log>>
  BY DEF Polls
<1>2. FileMoves /\ ManagersLose /\ PeersKeep
  BY <1>1, ManagersStay DEF FileMoves
<1>3. ASSUME NEW note, load' = [load EXCEPT ![s] = [@ EXCEPT !.pc = "settling", !.note = note]], UNCHANGED proc
      PROVE  Tracked'
  <2>1. /\ load'[s].pc = "settling" /\ load'[s].hosts = load[s].hosts /\ load'[s].pid = load[s].pid
        /\ \A t \in Session \ {s} : load'[t] = load[t]
    BY <1>3, TrackedFacts DEF Loads
  <2>2. /\ \A t \in Session : InOrder(load'[t], join'[t])
        /\ LoadsMove /\ JoinsMove /\ JoinsEnd
    BY <1>1, <2>1, LoadIsLater DEF Later, Waits
  <2> QED BY <1>1, <1>2, <1>3, <2>2, NobodyExits, Tracks DEF Tracked
<1>4. CASE /\ proc' = [proc EXCEPT ![load[s].pid] = Gone]
           /\ load' = [load EXCEPT ![s] = [@ EXCEPT !.pc = "failing", !.pid = NoPid]]
  <2>1. /\ load'[s].pc = "failing" /\ load'[s].hosts = load[s].hosts
        /\ \A t \in Session \ {s} : load'[t] = load[t]
    BY <1>4, TrackedFacts DEF Loads
  <2>2. /\ \A t \in Session : InOrder(load'[t], join'[t])
        /\ LoadsMove /\ JoinsMove /\ JoinsEnd
    BY <1>1, <2>1, LoadIsLater DEF Later, Waits
  <2>3. \A p \in Pid : p \in {load[s].pid} => GivenUp(p)
    BY <1>1, <2>1 DEF GivenUp, Waits
  <2>4. proc' = [p \in Pid |-> IF p \in {load[s].pid} THEN Gone ELSE proc[p]]
    BY <1>4 DEF Tracked
  <2>5. ProcessesMove /\ proc' \in [Pid -> Processes]
    BY <2>3, <2>4, Reaped
  <2> QED BY <1>1, <1>2, <2>2, <2>5, Tracks DEF Tracked
<1> QED BY <1>3, <1>4 DEF Polls

(* A handle goes from the load, or the request, that has it to the manager *)
(* of its machine, which drops the one it had.                             *)
LEMMA HandedOver ==
  ASSUME Tracked, NEW n \in Node, NEW q \in Pid, Unmanaged(q), Runs(q), proc[q].node = n,
         n = Hub /\ proc[q].rank = 0 => disk', disk => disk',
         mgr'[n].child = q, mgr'[n].pid = q, \A k \in Node \ {n} : mgr'[k] = mgr[k],
         proc' = [p \in Pid |-> IF p = mgr[n].child /\ proc[p].status = "zombie" THEN Gone ELSE proc[p]],
         \A s \in Session : Waits(load'[s]) =>
            Waits(load[s]) /\ load'[s].pid = load[s].pid /\ load[s].pid # q,
         JoinsMove, LoadsMove,
         \A s \in Session, r \in Rank : join'[s][r].pc = "spawned" =>
            join[s][r].pc = "spawned" /\ join'[s][r].pid = join[s][r].pid /\ join[s][r].pid # q
  PROVE  Holds' /\ ProcessesMove /\ proc' \in [Pid -> Processes]
<1> USE TrackedFacts
<1>1. /\ \A p \in Pid : p # mgr[n].child => proc'[p] = proc[p]
      /\ mgr[n].child # q
  BY DEF Unmanaged
<1>2. ProcessesMove /\ proc' \in [Pid -> Processes]
  <2> DEFINE dead == {p \in Pid : p = mgr[n].child /\ proc[p].status = "zombie"}
  <2>1. proc' = [p \in Pid |-> IF p \in dead THEN Gone ELSE proc[p]]
    OBVIOUS
  <2>2. \A p \in Pid : p \in dead => GivenUp(p)
    BY <1>1 DEF GivenUp
  <2> HIDE DEF dead
  <2> QED BY <2>1, <2>2, Reaped
<1>3. ManagersHold'
  <2>1. Runs(q)' /\ proc'[q] = proc[q]
    BY <1>1 DEF Runs
  <2>2. ASSUME NEW k \in Node \ {n}, mgr[k].child # NoPid
        PROVE  /\ proc'[mgr[k].child] = proc[mgr[k].child] /\ Runs(mgr[k].child)
               /\ proc[mgr[k].child].node = k /\ (k = Hub /\ proc[mgr[k].child].rank = 0 => disk')
    <3>1. mgr[k].child \in Pid /\ mgr[k].child # mgr[n].child
      BY <2>2, OneHolder
    <3> QED BY <1>1, <2>2, <3>1 DEF Tracked, Holds, ManagersHold
  <2>3. ASSUME NEW k \in Node \ {n} PROVE mgr'[k].pid = mgr'[k].child
    BY DEF Tracked, Holds, ManagersHold
  <2> QED BY <2>1, <2>2, <2>3 DEF ManagersHold, Runs
<1>4. ASSUME NEW p \in Pid, p # q, Unmanaged(p), Runs(p)
      PROVE  Unmanaged(p)' /\ Runs(p)' /\ proc'[p] = proc[p]
  BY <1>1, <1>4 DEF Unmanaged, Runs
<1>5. LoadsHold'
  <2> SUFFICES ASSUME NEW s \in Session, Waits(load'[s]), NEW p, p = load'[s].pid
               PROVE  /\ p \in Pid /\ Runs(p)' /\ Unmanaged(p)'
                      /\ proc'[p].node = Hub /\ proc'[p].session = s /\ proc'[p].rank = 0
    BY DEF LoadsHold, Runs, Unmanaged, Waits
  <2> QED BY <1>4 DEF Tracked, Holds, LoadsHold
<1>6. JoinsHold'
  <2> SUFFICES ASSUME NEW s \in Session, NEW r \in Rank, join'[s][r].pc = "spawned", NEW p, p = join'[s][r].pid
               PROVE  /\ p \in Pid /\ Runs(p)' /\ Unmanaged(p)'
                      /\ proc'[p].node = Host(s, r)' /\ proc'[p].session = s /\ proc'[p].rank = r
    BY DEF JoinsHold, JoinsMove, Runs, Unmanaged, Host
  <2>1. Host(s, r)' = Host(s, r)
    BY SameHost DEF JoinsMove
  <2> QED BY <1>4, <2>1 DEF Tracked, Holds, JoinsHold
<1> QED BY <1>2, <1>3, <1>5, <1>6 DEF Holds

LEMMA TrackedReady ==
  ASSUME Tracked, Inv', NEW s \in Session, SettlesReady(s)
  PROVE  Tracked'
<1>1. load[s].pc = "settling" /\ UNCHANGED <<join, log>> /\ disk' = TRUE
  BY DEF SettlesReady
<1>2. /\ load'[s].pc = "done" /\ load'[s].hosts = load[s].hosts
      /\ \A t \in Session \ {s} : load'[t] = load[t]
  BY TrackedFacts DEF SettlesReady, Loads
<1>3. /\ \A t \in Session : InOrder(load'[t], join'[t])
      /\ LoadsMove /\ JoinsMove /\ JoinsEnd
  BY <1>1, <1>2, LoadIsLater DEF Later, Waits
<1>4. PICK q : q = load[s].pid
  OBVIOUS
<1>5. /\ q \in Pid /\ Runs(q) /\ Unmanaged(q)
      /\ proc[q].node = Hub /\ Waits(load[s])
  BY <1>1, <1>4 DEF Tracked, Holds, LoadsHold, Waits
<1>6. mgr'[Hub].child = q /\ mgr'[Hub].pid = q /\ \A k \in Node \ {Hub} : mgr'[k] = mgr[k]
  BY <1>4, TrackedFacts DEF SettlesReady
<1>7. proc' = [p \in Pid |-> IF p = mgr[Hub].child /\ proc[p].status = "zombie" THEN Gone ELSE proc[p]]
  BY DEF SettlesReady
<1>8. \A t \in Session : Waits(load'[t]) => Waits(load[t]) /\ load'[t].pid = load[t].pid /\ load[t].pid # q
  <2>1. ASSUME NEW t \in Session, Waits(load'[t])
        PROVE  Waits(load[t]) /\ load'[t].pid = load[t].pid /\ load[t].pid # q
    <3>1. t # s
      BY <1>2, <2>1 DEF Waits
    <3> QED BY <1>2, <1>4, <1>5, <2>1, <3>1, OneHolder
  <2> QED BY <2>1
<1>9. \A t \in Session, r \in Rank : join'[t][r].pc = "spawned" =>
         join[t][r].pc = "spawned" /\ join'[t][r].pid = join[t][r].pid /\ join[t][r].pid # q
  BY <1>1, <1>4, <1>5, OneHolder
<1>10. Holds' /\ ProcessesMove /\ proc' \in [Pid -> Processes]
  BY <1>1, <1>3, <1>5, <1>6, <1>7, <1>8, <1>9, HandedOver, TrackedFacts
<1>11. PeersKeep
  BY <1>6 DEF PeersKeep
<1>12. Tended'
  BY <1>3, <1>10, <1>11, Tending
<1> QED BY <1>1, <1>3, <1>10, <1>12 DEF Tracked, Ordered

LEMMA TrackedTask ==
  ASSUME Tracked, Inv', NEW s \in Session, TaskStep(s)
  PROVE  Tracked'
BY TrackedKill, TrackedRecruits, TrackedAnswers, TrackedCompletes, TrackedEnds, TrackedSpawns, TrackedPolls,
   TrackedReady DEF TaskStep

-----------------------------------------------------------------------------
(* The peers, the stops, the restart and the processes.                    *)

(* One request moves on; the load that waits for it does not.              *)
LEMMA RequestMoves ==
  ASSUME Tracked, UNCHANGED load, NEW s \in Session, NEW r \in Rank, join[s][r].pc \in {"sent", "spawned"},
         \A t \in Session, q \in Rank : t # s \/ q # r => join'[t][q] = join[t][q],
         join'[s][r].pc # "spawned" => join'[s][r].pid = NoPid,
         join'[s][r].pc = "spawned" => BornForJoin(join'[s][r].pid, s, r)
  PROVE  /\ \A t \in Session : InOrder(load'[t], join'[t])
         /\ LoadsMove /\ JoinsMove
<1>1. LoadsMove /\ JoinsMove
  BY LoadsStay DEF JoinsMove, Tracked, Holds, JoinsHold
<1>2. ASSUME NEW t \in Session PROVE InOrder(load'[t], join'[t])
  <2>1. InOrder(load[t], join[t]) /\ load'[t] = load[t]
    BY TrackedFacts
  <2>2. \A q \in Rank : join'[t][q].pc # "none" => join[t][q].pc # "none"
    OBVIOUS
  <2> QED BY <2>1, <2>2 DEF InOrder
<1> QED BY <1>1, <1>2

LEMMA TrackedJoinSpawns ==
  ASSUME Tracked, Inv', NEW s \in Session, NEW r \in Rank, JoinSpawns(s, r)
  PROVE  Tracked'
<1>1. join[s][r].pc = "sent" /\ UNCHANGED <<mgr, load, disk, log>>
  BY DEF JoinSpawns
<1>2. FileMoves /\ ManagersLose /\ PeersKeep
  BY <1>1, ManagersStay DEF FileMoves
<1>3. ASSUME NEW p \in Pid, proc[p] = Gone, proc' = [proc EXCEPT ![p] = Spawned(p, Host(s, r), s, r)],
             join' = [join EXCEPT ![s][r] = [pc |-> "spawned", pid |-> p]]
      PROVE  Tracked'
  <2>1. /\ join'[s][r] = [pc |-> "spawned", pid |-> p]
        /\ \A t \in Session, q \in Rank : t # s \/ q # r => join'[t][q] = join[t][q]
    BY <1>3, TrackedFacts
  <2>2. Host(s, r) \in Node /\ r \in Nat
    BY <1>1, AskedPeers, RanksAre
  <2>3. /\ proc' \in [Pid -> Processes] /\ proc'[p] = Spawned(p, Host(s, r), s, r)
        /\ \A q \in Pid \ {p} : proc'[q] = proc[q]
    BY <1>3, <2>2 DEF Tracked, Spawned, Processes, MaybeSession
  <2>4. BornForJoin(p, s, r)
    BY <1>3, <2>3 DEF BornForJoin, Runs, Gone
  <2>5. ProcessesMove
    BY <2>1, <2>3, <2>4 DEF ProcessesMove, Stays, Runs, Live
  <2>6. /\ \A t \in Session : InOrder(load'[t], join'[t])
        /\ LoadsMove /\ JoinsMove
    BY <1>1, <2>1, <2>4, RequestMoves
  <2>7. JoinsEnd
    BY <1>1, <2>1 DEF JoinsEnd
  <2> QED BY <1>1, <1>2, <2>3, <2>5, <2>6, <2>7, Tracks DEF Tracked
<1>4. CASE join' = [join EXCEPT ![s][r].pc = "refused"] /\ UNCHANGED proc
  <2>1. join[s][r] \in Joins /\ join[s][r].pid = NoPid
    BY <1>1, TrackedFacts DEF Tracked, Holds, JoinsHold
  <2>2. /\ join'[s][r].pc = "refused" /\ join'[s][r].pid = NoPid
        /\ \A t \in Session, q \in Rank : t # s \/ q # r => join'[t][q] = join[t][q]
    BY <1>4, <2>1, TrackedFacts DEF Joins
  <2>3. /\ \A t \in Session : InOrder(load'[t], join'[t])
        /\ LoadsMove /\ JoinsMove
    BY <1>1, <2>2, RequestMoves
  <2>4. JoinsEnd
    BY <1>1, <2>2 DEF JoinsEnd
  <2> QED BY <1>1, <1>2, <1>4, <2>3, <2>4, NobodyExits, Tracks DEF Tracked
<1> QED BY <1>3, <1>4 DEF JoinSpawns

LEMMA TrackedAdopts ==
  ASSUME Tracked, Inv', NEW s \in Session, NEW r \in Rank, JoinAdopts(s, r)
  PROVE  Tracked'
<1>1. join[s][r].pc = "spawned" /\ UNCHANGED <<load, disk, log>>
  BY DEF JoinAdopts
<1>2. PICK q, n : q = join[s][r].pid /\ n = Host(s, r)
  OBVIOUS
<1>3. /\ q \in Pid /\ Runs(q) /\ Unmanaged(q) /\ proc[q].node = n /\ proc[q].rank = r
  BY <1>1, <1>2 DEF Tracked, Holds, JoinsHold
<1>4. n \in Node /\ (r = 0 => n # Hub)
  BY <1>1, <1>2, AskedPeers
<1>5. mgr'[n].child = q /\ mgr'[n].pid = q /\ \A k \in Node \ {n} : mgr'[k] = mgr[k]
  BY <1>2, <1>4, TrackedFacts DEF JoinAdopts
<1>6. proc' = [p \in Pid |-> IF p = mgr[n].child /\ proc[p].status = "zombie" THEN Gone ELSE proc[p]]
  BY <1>2 DEF JoinAdopts
<1>7. /\ join'[s][r] = [pc |-> "ok", pid |-> NoPid]
      /\ \A t \in Session, k \in Rank : t # s \/ k # r => join'[t][k] = join[t][k]
  BY TrackedFacts DEF JoinAdopts
<1>8. /\ \A t \in Session : InOrder(load'[t], join'[t])
      /\ LoadsMove /\ JoinsMove
  BY <1>1, <1>7, RequestMoves
<1>9. \A t \in Session : Waits(load'[t]) => Waits(load[t]) /\ load'[t].pid = load[t].pid /\ load[t].pid # q
  BY <1>1, <1>2, <1>3, OneHolder
<1>10. \A t \in Session, k \in Rank : join'[t][k].pc = "spawned" =>
          join[t][k].pc = "spawned" /\ join'[t][k].pid = join[t][k].pid /\ join[t][k].pid # q
  <2> SUFFICES ASSUME NEW t \in Session, NEW k \in Rank, join'[t][k].pc = "spawned"
               PROVE  join[t][k].pc = "spawned" /\ join'[t][k].pid = join[t][k].pid /\ join[t][k].pid # q
    OBVIOUS
  <2>1. t # s \/ k # r
    BY <1>7
  <2>2. join'[t][k] = join[t][k]
    BY <1>7, <2>1
  <2> QED BY <1>1, <1>2, <1>3, <2>1, <2>2, OneHolder
<1>11. Holds' /\ ProcessesMove /\ proc' \in [Pid -> Processes]
  BY <1>1, <1>3, <1>4, <1>5, <1>6, <1>8, <1>9, <1>10, HandedOver
<1>12. JoinsEnd
  <2>1. ASSUME NEW t \in Session, NEW k \in Rank
        PROVE  \/ join'[t][k] = join[t][k]
               \/ join'[t][k].pc = "ok" /\ mgr'[Host(t, k)].child = join[t][k].pid
    <3>1. CASE t = s /\ k = r
      BY <1>2, <1>5, <1>7, <3>1
    <3>2. CASE t # s \/ k # r
      BY <1>7, <3>2
    <3> QED BY <3>1, <3>2
  <2> QED BY <2>1 DEF JoinsEnd
<1>13. PeersKeep
  BY <1>1, <1>2, <1>5, <1>7 DEF PeersKeep
<1>14. Tended'
  BY <1>8, <1>11, <1>12, <1>13, Tending
<1> QED BY <1>1, <1>8, <1>11, <1>14 DEF Tracked, Ordered

LEMMA TrackedDrops ==
  ASSUME Tracked, Inv', NEW s \in Session, NEW r \in Rank, JoinDropped(s, r)
  PROVE  Tracked'
<1>1. join[s][r].pc \in {"sent", "spawned"} /\ UNCHANGED <<mgr, load, disk, log>>
  BY DEF JoinDropped
<1>2. FileMoves /\ ManagersLose /\ PeersKeep
  BY <1>1, ManagersStay DEF FileMoves
<1>3. /\ join'[s][r] = [pc |-> "gone", pid |-> NoPid]
      /\ \A t \in Session, q \in Rank : t # s \/ q # r => join'[t][q] = join[t][q]
  BY TrackedFacts DEF JoinDropped
<1>4. /\ \A t \in Session : InOrder(load'[t], join'[t])
      /\ LoadsMove /\ JoinsMove
  BY <1>1, <1>3, RequestMoves
<1>5. JoinsEnd
  BY <1>3 DEF JoinsEnd
<1>6. ProcessesMove /\ proc' \in [Pid -> Processes]
  <2> DEFINE dead == {p \in Pid : p = join[s][r].pid /\ proc[p].status = "zombie"}
  <2>1. proc' = [p \in Pid |-> IF p \in dead THEN Gone ELSE proc[p]]
    BY DEF JoinDropped
  <2>2. join[s][r].pc # "spawned" => join[s][r].pid = NoPid
    BY DEF Tracked, Holds, JoinsHold
  <2>3. \A p \in Pid : p \in dead => GivenUp(p)
    BY <1>3, <2>2, TrackedFacts DEF GivenUp
  <2> HIDE DEF dead
  <2> QED BY <2>1, <2>3, Reaped
<1> QED BY <1>1, <1>2, <1>4, <1>5, <1>6, Tracks DEF Tracked

LEMMA TrackedStops ==
  ASSUME Tracked, Inv', NEW n \in Node, Stop(n) \/ EmergencyStop(n)
  PROVE  Tracked'
<1>1. UNCHANGED <<load, join, log>> /\ disk' = (disk /\ n # Hub)
  BY DEF Stop, EmergencyStop
<1>2. /\ mgr'[n].child = NoPid /\ mgr'[n].pid = NoPid
      /\ \A k \in Node \ {n} : mgr'[k] = mgr[k]
  BY TrackedFacts DEF Stop, EmergencyStop, Fresh
<1>3. ManagersLose
  BY <1>2 DEF Tracked, Holds, ManagersHold, ManagersLose
<1>4. /\ ProcessesMove /\ proc' \in [Pid -> Processes]
      /\ \A p \in Pid : p = mgr[n].child => ~Live(p)'
  <2>1. CASE Stop(n)
    BY <1>2, <2>1, KillsOwn DEF Stop
  <2>2. CASE EmergencyStop(n)
    <3>1. mgr[n].pid = mgr[n].child
      BY DEF Tracked, Holds, ManagersHold
    <3>2. Killed(n) = [p \in Pid |-> IF p = mgr[n].child THEN Gone ELSE proc[p]]
      BY <3>1 DEF Killed
    <3> QED BY <1>2, <2>2, <3>2, KillsOwn DEF EmergencyStop
  <2> QED BY <2>1, <2>2
<1>5. PeersKeep
  <2>1. ASSUME NEW k \in Node, k # n PROVE mgr'[k].child = mgr[k].child
    BY <1>2, <2>1
  <2>2. \A p \in Pid : p = mgr[n].child => ~Live(p)'
    BY <1>4
  <2> QED BY <2>1, <2>2 DEF PeersKeep
<1>6. FileMoves /\ disk' \in BOOLEAN
  BY <1>1, <1>2 DEF FileMoves, Tracked
<1>7. LoadsMove /\ JoinsMove /\ JoinsEnd /\ \A t \in Session : InOrder(load'[t], join'[t])
  BY <1>1, LoadsStay, JoinsStay, TrackedFacts
<1> QED BY <1>1, <1>3, <1>4, <1>5, <1>6, <1>7, Tracks DEF Tracked

LEMMA TrackedRestarts ==
  ASSUME Tracked, Inv', HubRestarts
  PROVE  Tracked'
<1>1. UNCHANGED <<disk, log>>
  BY DEF HubRestarts
<1>2. PICK m : mgr' = [mgr EXCEPT ![Hub] = m] /\ m \in {Fresh, [Fresh EXCEPT !.state = "Loading"]}
  BY DEF HubRestarts
<1>3. m.child = NoPid /\ m.pid = NoPid
  BY <1>2 DEF Fresh
<1>4. ManagersLose /\ PeersKeep /\ mgr'[Hub] = m
  BY <1>2, <1>3, HubMoves
<1>5. \A s \in Session, r \in Rank :
         join'[s][r] = IF join[s][r].pc \in {"sent", "spawned"} /\ Host(s, r) = Hub
                       THEN [pc |-> "gone", pid |-> NoPid] ELSE join[s][r]
  BY DEF HubRestarts
<1>6. JoinsMove /\ JoinsEnd
  BY <1>5 DEF JoinsMove, JoinsEnd, Tracked, Holds, JoinsHold
<1>7. \A t \in Session : /\ load[t].pc # "new" => load'[t].hosts = load[t].hosts /\ load'[t].pc = "done"
                         /\ load[t].pc = "new" => load'[t].pc \in {"new", "queued"}
  <2>1. \A t \in Session : /\ load[t].pc # "new" => Ended(load[t]).hosts = load[t].hosts /\ Ended(load[t]).pc = "done"
                           /\ load[t].pc = "new" => Ended(load[t]).pc = "new"
    BY TrackedFacts DEF Ended, Loads
  <2>2. CASE load' = [t \in Session |-> Ended(load[t])]
    BY <2>1, <2>2
  <2>3. ASSUME NEW s \in Session, NEW hosts, load[s].pc = "new",
               load' = [t \in Session |-> IF t = s THEN [load[s] EXCEPT !.pc = "queued", !.hosts = hosts]
                                          ELSE Ended(load[t])]
        PROVE  \A t \in Session : /\ load[t].pc # "new" => load'[t].hosts = load[t].hosts /\ load'[t].pc = "done"
                                  /\ load[t].pc = "new" => load'[t].pc \in {"new", "queued"}
    <3>1. load'[s].pc = "queued"
      BY <2>3, TrackedFacts DEF Loads
    <3>2. \A t \in Session \ {s} : load'[t] = Ended(load[t])
      BY <2>3
    <3> QED BY <2>1, <2>3, <3>1, <3>2
  <2> QED BY <2>2, <2>3 DEF HubRestarts
<1>8. LoadsMove /\ \A t \in Session : ~Waits(load'[t])
  BY <1>7 DEF LoadsMove, Waits
<1>9. ASSUME NEW t \in Session PROVE InOrder(load'[t], join'[t])
  <2>1. InOrder(load[t], join[t])
    BY TrackedFacts
  <2>2. \A r \in Rank : join'[t][r].pc # "none" => join[t][r].pc # "none"
    BY <1>5
  <2>3. CASE load[t].pc = "new"
    <3>1. \A r \in Rank : join'[t][r].pc = "none"
      BY <2>1, <2>2, <2>3 DEF InOrder
    <3> QED BY <1>7, <2>3, <3>1 DEF InOrder
  <2>4. CASE load[t].pc # "new"
    BY <1>7, <2>1, <2>2, <2>4 DEF InOrder
  <2> QED BY <2>3, <2>4
<1>10. ProcessesMove /\ proc' \in [Pid -> Processes]
  <2> DEFINE dead == {p \in Pid : proc[p].status = "zombie" /\ proc[p].node = Hub}
  <2>1. proc' = [p \in Pid |-> IF p \in dead THEN Gone ELSE proc[p]]
    BY DEF HubRestarts
  <2>2. ASSUME NEW p \in Pid, p \in dead, Held(p) PROVE GivenUp(p)
    <3>0. p # NoPid /\ proc[p].node = Hub
      BY <2>2, TrackedFacts
    <3>1. ASSUME NEW n \in Node, mgr[n].child = p PROVE GivenUp(p)
      <4>1. n = Hub
        BY <3>0, <3>1 DEF Tracked, Holds, ManagersHold
      <4> QED BY <1>3, <1>4, <3>0, <3>1, <4>1 DEF GivenUp
    <3>2. ASSUME NEW s \in Session, Waits(load[s]), load[s].pid = p PROVE GivenUp(p)
      BY <1>8, <3>2 DEF GivenUp
    <3>3. ASSUME NEW s \in Session, NEW r \in Rank, join[s][r].pc = "spawned", join[s][r].pid = p PROVE GivenUp(p)
      <4>1. Host(s, r) = Hub
        BY <3>0, <3>3 DEF Tracked, Holds, JoinsHold
      <4>2. join'[s][r].pc = "gone"
        BY <1>5, <3>3, <4>1
      <4> QED BY <3>3, <4>2 DEF GivenUp
    <3> QED BY <2>2, <3>1, <3>2, <3>3 DEF Held, Waits
  <2>3. \A p \in Pid : p \in dead => GivenUp(p)
    BY <2>2 DEF GivenUp
  <2> HIDE DEF dead
  <2> QED BY <2>1, <2>3, Reaped
<1>11. FileMoves
  BY <1>1 DEF FileMoves
<1> QED BY <1>1, <1>4, <1>6, <1>8, <1>9, <1>10, <1>11, Tracks DEF Tracked

LEMMA TrackedRuns ==
  ASSUME Tracked, Inv', NEW p \in Pid, Boots(p) \/ Exits(p)
  PROVE  Tracked'
<1>1. UNCHANGED <<mgr, load, join, disk>> /\ log' \in BOOLEAN
  BY DEF Boots, Exits, Tracked
<1>2. PICK x : /\ proc' = [proc EXCEPT ![p] = x] /\ Runs(p)
               /\ \/ x = [proc[p] EXCEPT !.status = "serving"] /\ Live(p)
                  \/ x = [proc[p] EXCEPT !.status = "zombie"]
                  \/ x = Gone /\ ~Held(p)
  BY DEF Boots, Exits, Runs, Live
<1>3. Gone \in Processes /\ Gone.status = "free" /\ proc[p] \in Processes
  BY DEF Gone, Processes, MaybeSession, Tracked
<1>4. x \in Processes /\ proc' \in [Pid -> Processes] /\ proc'[p] = x /\ \A q \in Pid \ {p} : proc'[q] = proc[q]
  BY <1>2, <1>3 DEF Processes, Tracked
<1>5. Stays(p) \/ (~Runs(p)' /\ GivenUp(p))
  BY <1>2, <1>3, <1>4 DEF Stays, Runs, Live, GivenUp, Processes
<1>6. ProcessesMove
  BY <1>2, <1>4, <1>5 DEF ProcessesMove, Stays, Runs, Live
<1>7. LoadsMove /\ JoinsMove /\ JoinsEnd /\ \A t \in Session : InOrder(load'[t], join'[t])
  BY <1>1, LoadsStay, JoinsStay, TrackedFacts
<1>8. FileMoves /\ ManagersLose /\ PeersKeep
  BY <1>1, ManagersStay DEF FileMoves
<1> QED BY <1>1, <1>4, <1>6, <1>7, <1>8, Tracks DEF Tracked

LEMMA TrackedStill ==
  ASSUME Tracked, Inv', UNCHANGED vars
  PROVE  Tracked'
<1>1. LoadsMove /\ JoinsMove /\ JoinsEnd /\ \A t \in Session : InOrder(load'[t], join'[t])
  BY LoadsStay, JoinsStay, TrackedFacts DEF vars
<1>2. FileMoves /\ ManagersLose /\ PeersKeep /\ ProcessesMove /\ proc' \in [Pid -> Processes]
  BY ManagersStay, NobodyExits DEF FileMoves, vars
<1> QED BY <1>1, <1>2, Tracks DEF Tracked, vars

LEMMA InitTracked == Init => Tracked
<1> SUFFICES ASSUME Init PROVE Tracked
  OBVIOUS
<1>1. Inv
  BY InitInv
<1>2. Gone \in Processes /\ proc = [p \in Pid |-> Gone]
  BY DEF Gone, Processes, MaybeSession, Init
<1>3. \A s \in Session : load[s].pc = "new" /\ \A r \in Rank : join[s][r] = NotSent
  BY DEF Init
<1>4. Ordered
  BY <1>3 DEF Ordered, InOrder, NotSent
<1>5. Holds
  <2>1. \A n \in Node : mgr[n].child = NoPid /\ mgr[n].pid = NoPid
    BY DEF Init, Fresh
  <2> QED BY <1>3, <2>1 DEF Holds, ManagersHold, LoadsHold, JoinsHold, Waits, NotSent
<1>6. Tended
  BY <1>2 DEF Tended, Live, Gone
<1> QED BY <1>1, <1>2, <1>4, <1>5, <1>6 DEF Tracked, Init

LEMMA StepsKeepTracked == Tracked /\ [Next]_vars => Tracked'
<1> SUFFICES ASSUME Tracked, [Next]_vars PROVE Tracked'
  OBVIOUS
<1>0. Inv'
  BY StepsKeepInv DEF Tracked
<1>1. CASE \E s \in Session : Start(s) \/ TaskStep(s)
  BY <1>0, <1>1, TrackedStart, TrackedTask
<1>2. CASE \E s \in Session, r \in Rank : JoinSpawns(s, r) \/ JoinAdopts(s, r) \/ JoinDropped(s, r)
  BY <1>0, <1>2, TrackedJoinSpawns, TrackedAdopts, TrackedDrops
<1>3. CASE \E n \in Node : Stop(n) \/ EmergencyStop(n)
  BY <1>0, <1>3, TrackedStops
<1>4. CASE HubRestarts
  BY <1>0, <1>4, TrackedRestarts
<1>5. CASE \E p \in Pid : Boots(p) \/ Exits(p)
  BY <1>0, <1>5, TrackedRuns
<1>6. CASE UNCHANGED vars
  BY <1>0, <1>6, TrackedStill
<1> QED BY <1>1, <1>2, <1>3, <1>4, <1>5, <1>6 DEF Next

(* The variables keep their types, the processes and the waited-for rank   *)
(* included.                                                               *)
THEOREM TypesHold == Spec => []TypeOK
<1>1. Tracked => TypeOK
  BY DEF Tracked, Inv, Types, Knows, TypeOK
<1> QED BY InitTracked, StepsKeepTracked, <1>1, PTL DEF Spec

(* The state file names a model whenever the hub holds a rank 0 that it has *)
(* said is Ready, whatever stops, restarts and joins come between.         *)
THEOREM ReadyComesBack == Spec => []ReadyIsSaved
<1>1. Tracked => ReadyIsSaved
  BY TrackedFacts DEF Tracked, Holds, ManagersHold, ReadyIsSaved
<1> QED BY InitTracked, StepsKeepTracked, <1>1, PTL DEF Spec

(* A worker that runs on a peer can be stopped by somebody, except in the  *)
(* two ways that WorkerCanBeStopped names.                                 *)
THEOREM NoOtherWayOut == Spec => []WorkerCanBeStopped
<1>1. Tracked => WorkerCanBeStopped
  <2> SUFFICES ASSUME Tracked, NEW p \in Pid, Live(p), proc[p].rank > 0, proc[p].node # Hub
               PROVE  \/ Held(p)
                      \/ join[proc[p].session][proc[p].rank].pc = "gone"
                      \/ \E sr \in JoinsTo(proc[p].node) : sr # <<proc[p].session, proc[p].rank>>
    BY DEF WorkerCanBeStopped
  <2>1. PICK s, r : s = proc[p].session /\ r = proc[p].rank
    OBVIOUS
  <2>2. Reached(p, s, r)
    BY <2>1 DEF Tracked, Tended
  <2>3. join[s][r].pc # "none" => proc[p].node \in Node
    BY <2>2, AskedPeers DEF Reached
  <2> QED BY <2>1, <2>2, <2>3 DEF Reached, Held
<1> QED BY InitTracked, StepsKeepTracked, <1>1, PTL DEF Spec
=============================================================================
