----------------------- MODULE ManagerRegistryProofs -----------------------
(***************************************************************************)
(* The manager registry, for any ports, managers and requests. First, what *)
(* requests rely on when they come back to the map of managers: Inv, which *)
(* needs nothing of the queues. Then the queues themselves: Orderly, which *)
(* says that the line of each lock is the tasks that claim it, each once   *)
(* and in the mode its await asks for; from that the types, that who waits *)
(* for whom goes in no circle, and what a guard protects.                  *)
(***************************************************************************)
EXTENDS ManagerRegistry, SequenceTheorems, TLAPS

USE RegistryAssumption

(* What a task r may rely on while the map is g: the ports it has in hand  *)
(* are ports, the manager it is about to put in is one, and the ports it   *)
(* comes back for have managers.                                           *)
Sound(r, g) ==
    /\ r \in Tasks
    /\ r.op \in PortOps /\ r.at # "idle" => r.port \in Port
    /\ r.at \in {"load", "stopping"} => r.port \in Port /\ g[r.port] # NoMgr
    /\ r.at = "insert" => r.port \in Port /\ r.m \in Mgr
    /\ r.at = "find" => r.port \in Port
    /\ r.at \in {"resetting", "stopping"} => r.op = "reset" /\ \A p \in r.ports : g[p] # NoMgr

RegOK == reg \in [Port -> Mgr \cup {NoMgr}]
TaskOK == DOMAIN task = Task /\ task = [t \in Task |-> task[t]]
Inv == RegOK /\ TaskOK /\ \A t \in Task : Sound(task[t], reg)

-----------------------------------------------------------------------------
(* A map that only gains managers disappoints nobody.                      *)
LEMMA GrowingMap ==
  ASSUME NEW r, NEW g, NEW h, Sound(r, g),
         \A p \in Port : g[p] # NoMgr => h[p] # NoMgr
  PROVE  Sound(r, h)
BY DEF Sound, Tasks

(* One task moves on, the map stays or gains a manager.                    *)
LEMMA OneMoves ==
  ASSUME Inv, NEW t \in Task, NEW r, task' = [task EXCEPT ![t] = r], RegOK',
         \A p \in Port : reg[p] # NoMgr => reg'[p] # NoMgr, Sound(r, reg')
  PROVE  Inv'
<1>1. ASSUME NEW u \in Task PROVE Sound(task'[u], reg')
  <2>1. CASE u = t
    BY <2>1 DEF Inv, TaskOK
  <2>2. CASE u # t
    <3>1. task'[u] = task[u]
      BY <2>2 DEF Inv, TaskOK
    <3>2. Sound(task[u], reg)
      BY DEF Inv
    <3> QED BY <3>1, <3>2, GrowingMap
  <2> QED BY <2>1, <2>2
<1>2. TaskOK'
  BY DEF Inv, TaskOK
<1> QED BY <1>1, <1>2 DEF Inv

LEMMA OneGoes ==
  ASSUME Inv, NEW t \in Task, NEW r, Goes(t, r), UNCHANGED reg, Sound(r, reg)
  PROVE  Inv'
<1>1. RegOK' /\ Sound(r, reg') /\ \A p \in Port : reg[p] # NoMgr => reg'[p] # NoMgr
  BY DEF Inv, RegOK
<1> QED BY <1>1, OneMoves DEF Goes

LEMMA IdleIsSound ==
  ASSUME NEW t \in Task, NEW g
  PROVE  Sound(Idle(IF t = Poll THEN "poll" ELSE "metrics"), g)
BY DEF Sound, Idle, Tasks, Places, PortOps, MapOps, SnapshotOps

LEMMA Ending ==
  ASSUME Inv, NEW t \in Task, Ends(t), UNCHANGED reg
  PROVE  Inv'
BY IdleIsSound, OneGoes DEF Ends

LEMMA IdleIsTask ==
  ASSUME NEW op \in PortOps \cup MapOps \cup SnapshotOps \cup {"poll"}
  PROVE  /\ Idle(op) \in Tasks /\ Idle(op).op = op /\ Idle(op).at = "idle"
         /\ Idle(op).ports = {} /\ Idle(op).m = NoMgr /\ Idle(op).port = NoPort
BY DEF Idle, Tasks, Places

(* A request in its first position.                                        *)
LEMMA Arriving ==
  ASSUME Inv, NEW t \in Handler, NEW ops, NEW l, NEW at \in {"lookup", "snapshot"},
         ops \in {PortOps \cup MapOps, SnapshotOps}, Arrives(t, ops, at, l)
  PROVE  Inv'
<1>1. PICK a \in Asks[t] : a[1] \in ops /\ Goes(t, [Idle(a[1]) EXCEPT !.at = at, !.port = a[2]])
  BY DEF Arrives
<1>2. a \in Requests
  OBVIOUS
<1>3. /\ a[1] \in PortOps \cup MapOps \cup SnapshotOps
      /\ a[2] \in Port \cup {NoPort}
      /\ a[1] \in PortOps => a[2] \in Port
  BY <1>2 DEF Requests, PortOps, MapOps, SnapshotOps
<1>4. PICK r : Goes(t, r) /\ r = [Idle(a[1]) EXCEPT !.at = at, !.port = a[2]]
  BY <1>1
<1>5. Idle(a[1]) \in Tasks /\ Idle(a[1]).op = a[1] /\ at \in Places
  BY <1>3, IdleIsTask DEF Places
<1>6. r \in Tasks /\ r.at = at /\ r.op = a[1] /\ r.port = a[2]
  BY <1>3, <1>4, <1>5 DEF Tasks
<1>7. Sound(r, reg)
  BY <1>3, <1>6 DEF Sound
<1>8. UNCHANGED reg /\ t \in Task
  BY DEF Arrives, Task
<1> QED BY <1>4, <1>7, <1>8, OneGoes

-----------------------------------------------------------------------------
(* The steps of a request.                                                 *)

LEMMA Relies ==
  ASSUME Inv, NEW t \in Task
  PROVE  /\ task[t] \in Tasks /\ Sound(task[t], reg) /\ Op(t) = task[t].op
         /\ task[t].todo \in SUBSET Mgr /\ task[t].ports \in SUBSET Port
         /\ task[t].port \in Port \cup {NoPort} /\ task[t].m \in Mgr \cup {NoMgr}
BY DEF Inv, Sound, Tasks, Op

LEMMA PlacesAre ==
  /\ {"idle", "lookup", "insert", "load", "visiting", "snapshot", "adopting",
      "find", "store", "resetting", "stopping"} \subseteq Places
BY DEF Places

LEMMA FreshIsManager == Fresh \subseteq Mgr
BY DEF Fresh, Unused, Stray

LEMMA RegistryIsManagers == ASSUME RegOK PROVE Registry \in SUBSET Mgr
BY DEF RegOK, Registry

(* A request that goes on to a place where it relies on nothing it did not *)
(* rely on before.                                                         *)
LEMMA GoesOn ==
  ASSUME Inv, NEW t \in Task, NEW r \in Tasks, r.op = task[t].op, Goes(t, r), UNCHANGED reg,
         task[t].at # "idle", r.port = task[t].port,
         r.at \in {"lookup", "visiting", "snapshot", "adopting", "store"}
  PROVE  Inv'
<1>1. Sound(task[t], reg)
  BY Relies
<1>2. Sound(r, reg)
  BY <1>1 DEF Sound
<1> QED BY <1>2, OneGoes

(* A request for a port that has found a manager there, or is about to put *)
(* one in.                                                                 *)
LEMMA GoesOnWithPort ==
  ASSUME Inv, NEW t \in Task, NEW r \in Tasks, r.op = task[t].op, Goes(t, r), UNCHANGED reg,
         task[t].at # "idle", r.port = task[t].port, r.port \in Port,
         \/ r.at = "load" /\ reg[r.port] # NoMgr
         \/ r.at = "insert" /\ r.m \in Mgr
  PROVE  Inv'
<1>1. Sound(task[t], reg)
  BY Relies
<1>2. Sound(r, reg)
  BY <1>1 DEF Sound
<1> QED BY <1>2, OneGoes

LEMMA Loading ==
  ASSUME Inv, NEW t \in Task,
         LoadFinds(t) \/ LoadMakes(t) \/ LoadLoads(t) \/ NotFound(t)
  PROVE  Inv'
<1>1. CASE LoadFinds(t)
  <2>1. PICK r : Goes(t, r) /\ r = [task[t] EXCEPT !.at = "load"]
    BY <1>1 DEF LoadFinds
  <2>2. r \in Tasks /\ r.at = "load" /\ r.op = task[t].op /\ r.port = task[t].port
    <3>1. task[t] \in Tasks /\ "load" \in Places
      BY Relies, PlacesAre
    <3> QED BY <2>1, <3>1 DEF Tasks
  <2>3. task[t].op = "load" /\ task[t].at = "lookup" /\ reg[task[t].port] # NoMgr /\ UNCHANGED reg
    BY <1>1 DEF LoadFinds, At, Op, Mine
  <2>4. task[t].port \in Port
    BY <2>3, Relies DEF Sound, PortOps
  <2> QED BY <2>1, <2>2, <2>3, <2>4, GoesOnWithPort
<1>2. CASE LoadMakes(t)
  <2>1. PICK k \in Fresh : Goes(t, [task[t] EXCEPT !.at = "insert", !.m = k])
    BY <1>2 DEF LoadMakes
  <2>2. PICK r : Goes(t, r) /\ r = [task[t] EXCEPT !.at = "insert", !.m = k]
    BY <2>1
  <2>3. k \in Mgr
    BY FreshIsManager
  <2>4. r \in Tasks /\ r.at = "insert" /\ r.op = task[t].op /\ r.port = task[t].port /\ r.m = k
    <3>1. task[t] \in Tasks /\ "insert" \in Places
      BY Relies, PlacesAre
    <3> QED BY <2>2, <2>3, <3>1 DEF Tasks
  <2>5. task[t].op = "load" /\ task[t].at = "lookup" /\ UNCHANGED reg
    BY <1>2 DEF LoadMakes, At, Op
  <2>6. task[t].port \in Port
    BY <2>5, Relies DEF Sound, PortOps
  <2> QED BY <2>2, <2>3, <2>4, <2>5, <2>6, GoesOnWithPort
<1>3. CASE LoadLoads(t)
  BY <1>3, Ending DEF LoadLoads
<1>4. CASE NotFound(t)
  BY <1>4, Ending DEF NotFound
<1> QED BY <1>1, <1>2, <1>3, <1>4

(* The one step that changes the map puts a manager in.                    *)
LEMMA Inserting ==
  ASSUME Inv, NEW t \in Task, Inserts(t)
  PROVE  Inv'
<1> DEFINE p == task[t].port
           k == task[t].m
<1>1. task[t].at = "insert" /\ p \in Port /\ k \in Mgr /\ reg' = [reg EXCEPT ![p] = k]
  BY Relies DEF Inserts, At, Sound
<1>2. RegOK' /\ (\A q \in Port : reg[q] # NoMgr => reg'[q] # NoMgr) /\ reg'[p] # NoMgr
  BY <1>1 DEF Inv, RegOK
<1>3. PICK a \in {"load", "adopting"} : Goes(t, [task[t] EXCEPT !.at = a, !.m = NoMgr])
  BY DEF Inserts
<1>4. PICK r : Goes(t, r) /\ r = [task[t] EXCEPT !.at = a, !.m = NoMgr]
  BY <1>3
<1>5. r \in Tasks /\ r.at = a /\ r.op = task[t].op /\ r.port = p
  <2>1. task[t] \in Tasks /\ a \in Places
    BY Relies, PlacesAre
  <2> QED BY <1>4, <2>1 DEF Tasks
<1>6. Sound(r, reg')
  BY <1>1, <1>2, <1>5, Relies DEF Sound
<1> HIDE DEF p, k
<1> QED BY <1>2, <1>4, <1>6, OneMoves DEF Goes

LEMMA StoppingAndReloading ==
  ASSUME Inv, NEW t \in Task, ServeStop(t) \/ ServeRestart(t) \/ ServeReload(t)
  PROVE  Inv'
<1>1. CASE ServeStop(t)
  BY <1>1, Ending DEF ServeStop
<1>2. CASE ServeRestart(t) /\ Goes(t, [task[t] EXCEPT !.at = "load"])
  <2>1. PICK r : Goes(t, r) /\ r = [task[t] EXCEPT !.at = "load"]
    BY <1>2
  <2>2. r \in Tasks /\ r.at = "load" /\ r.op = task[t].op /\ r.port = task[t].port
    <3>1. task[t] \in Tasks /\ "load" \in Places
      BY Relies, PlacesAre
    <3> QED BY <2>1, <3>1 DEF Tasks
  <2>3. task[t].op = "restart" /\ task[t].at = "lookup" /\ reg[task[t].port] # NoMgr /\ UNCHANGED reg
    BY <1>2 DEF ServeRestart, Finds, At, Op, Mine
  <2>4. task[t].port \in Port
    BY <2>3, Relies DEF Sound, PortOps
  <2> QED BY <2>1, <2>2, <2>3, <2>4, GoesOnWithPort
<1>3. CASE ServeRestart(t) /\ Ends(t)
  BY <1>3, Ending DEF ServeRestart
<1>4. CASE ServeReload(t)
  BY <1>4, Ending DEF ServeReload
<1> QED BY <1>1, <1>2, <1>3, <1>4 DEF ServeRestart

LEMMA Walking ==
  ASSUME Inv, NEW t \in Task, Walks(t) \/ (\E k \in Mgr : Visits(t, k)) \/ WalkEnds(t)
  PROVE  Inv'
<1>1. CASE Walks(t)
  <2>1. PICK r : Goes(t, r) /\ r = [task[t] EXCEPT !.at = "visiting", !.todo = Registry]
    BY <1>1 DEF Walks
  <2>2. r \in Tasks /\ r.at = "visiting" /\ r.op = task[t].op /\ r.port = task[t].port
    <3>1. task[t] \in Tasks /\ "visiting" \in Places /\ Registry \in SUBSET Mgr
      BY Relies, PlacesAre, RegistryIsManagers DEF Inv
    <3> QED BY <2>1, <3>1 DEF Tasks
  <2> QED BY <1>1, <2>1, <2>2, GoesOn DEF Walks, At
<1>2. CASE \E k \in Mgr : Visits(t, k)
  <2>1. PICK k \in Mgr : Visits(t, k)
    BY <1>2
  <2>2. PICK r : Goes(t, r) /\ r = [task[t] EXCEPT !.todo = task[t].todo \ {k}]
    BY <2>1 DEF Visits
  <2>3. r \in Tasks /\ r.at = task[t].at /\ r.op = task[t].op /\ r.port = task[t].port
    <3>1. task[t] \in Tasks /\ task[t].todo \ {k} \in SUBSET Mgr
      BY Relies
    <3> QED BY <2>2, <3>1 DEF Tasks
  <2> QED BY <2>1, <2>2, <2>3, GoesOn DEF Visits
<1>3. CASE WalkEnds(t) /\ Ends(t)
  BY <1>3, Ending DEF WalkEnds
<1>4. ASSUME NEW a \in {"snapshot", "store"}, WalkEnds(t), Goes(t, [task[t] EXCEPT !.at = a])
      PROVE  Inv'
  <2>1. PICK r : Goes(t, r) /\ r = [task[t] EXCEPT !.at = a]
    BY <1>4
  <2>2. r \in Tasks /\ r.at = a /\ r.op = task[t].op /\ r.port = task[t].port
    <3>1. task[t] \in Tasks /\ a \in Places
      BY Relies, PlacesAre
    <3> QED BY <2>1, <3>1 DEF Tasks
  <2>3. UNCHANGED reg /\ task[t].at = "visiting"
    BY <1>4 DEF WalkEnds
  <2> QED BY <2>1, <2>2, <2>3, GoesOn
<1>5. ASSUME WalkEnds(t), ~Ends(t)
      PROVE  \E a \in {"snapshot", "store"} : Goes(t, [task[t] EXCEPT !.at = a])
  <2>1. CASE Goes(t, [task[t] EXCEPT !.at = "snapshot"])
    BY <2>1
  <2>2. CASE Op(t) = "poll"
    BY <1>5, <2>2 DEF WalkEnds
  <2> QED BY <1>5, <2>1, <2>2 DEF WalkEnds
<1> QED BY <1>1, <1>2, <1>3, <1>4, <1>5

LEMMA Adopting ==
  ASSUME Inv, NEW t \in Task,
         ReadsSnapshot(t) \/ AdoptNext(t) \/ AdoptsExternal(t) \/ AdoptsOnNewPort(t) \/ AdoptEnds(t)
  PROVE  Inv'
<1>1. CASE ReadsSnapshot(t) /\ Ends(t)
  BY <1>1, Ending DEF ReadsSnapshot
<1>2. CASE ReadsSnapshot(t) /\ Goes(t, [task[t] EXCEPT !.at = "lookup"])
  <2>1. PICK r : Goes(t, r) /\ r = [task[t] EXCEPT !.at = "lookup"]
    BY <1>2
  <2>2. r \in Tasks /\ r.at = "lookup" /\ r.op = task[t].op /\ r.port = task[t].port
    <3>1. task[t] \in Tasks /\ "lookup" \in Places
      BY Relies, PlacesAre
    <3> QED BY <2>1, <3>1 DEF Tasks
  <2>3. UNCHANGED reg /\ task[t].at = "snapshot"
    BY <1>2 DEF ReadsSnapshot, At
  <2> QED BY <2>1, <2>2, <2>3, GoesOn
<1>3. ASSUME ReadsSnapshot(t), NEW ports \in SUBSET Port,
             Goes(t, [task[t] EXCEPT !.at = "adopting", !.ports = ports])
      PROVE  Inv'
  <2>1. PICK r : Goes(t, r) /\ r = [task[t] EXCEPT !.at = "adopting", !.ports = ports]
    BY <1>3
  <2>2. r \in Tasks /\ r.at = "adopting" /\ r.op = task[t].op /\ r.port = task[t].port
    <3>1. task[t] \in Tasks /\ "adopting" \in Places
      BY Relies, PlacesAre
    <3> QED BY <2>1, <3>1 DEF Tasks
  <2>3. UNCHANGED reg /\ task[t].at = "snapshot"
    BY <1>3 DEF ReadsSnapshot, At
  <2> QED BY <2>1, <2>2, <2>3, GoesOn
<1>4. ASSUME ReadsSnapshot(t)
      PROVE  \/ Ends(t)
             \/ Goes(t, [task[t] EXCEPT !.at = "lookup"])
             \/ \E ports \in SUBSET Port : Goes(t, [task[t] EXCEPT !.at = "adopting", !.ports = ports])
  BY <1>4 DEF ReadsSnapshot
<1>5. CASE AdoptNext(t)
  <2>1. PICK p \in task[t].ports :
               Goes(t, [task[t] EXCEPT !.at = "find", !.port = p, !.ports = task[t].ports \ {p}])
    BY <1>5 DEF AdoptNext
  <2>2. PICK r : Goes(t, r) /\ r = [task[t] EXCEPT !.at = "find", !.port = p, !.ports = task[t].ports \ {p}]
    BY <2>1
  <2>3. task[t].ports \ {p} \in SUBSET Port /\ p \in Port
    BY Relies
  <2>4. r \in Tasks /\ r.at = "find" /\ r.port = p
    <3>1. task[t] \in Tasks /\ "find" \in Places
      BY Relies, PlacesAre
    <3> QED BY <2>2, <2>3, <3>1 DEF Tasks
  <2>5. Sound(r, reg)
    BY <2>3, <2>4 DEF Sound
  <2> QED BY <1>5, <2>2, <2>5, OneGoes DEF AdoptNext
<1>6. CASE AdoptsExternal(t)
  <2>1. PICK r : Goes(t, r) /\ r = [task[t] EXCEPT !.at = "adopting"]
    BY <1>6 DEF AdoptsExternal
  <2>2. r \in Tasks /\ r.at = "adopting" /\ r.op = task[t].op /\ r.port = task[t].port
    <3>1. task[t] \in Tasks /\ "adopting" \in Places
      BY Relies, PlacesAre
    <3> QED BY <2>1, <3>1 DEF Tasks
  <2>3. UNCHANGED reg /\ task[t].at = "find"
    BY <1>6 DEF AdoptsExternal, At
  <2> QED BY <2>1, <2>2, <2>3, GoesOn
<1>7. CASE AdoptsOnNewPort(t)
  <2>1. PICK k \in Fresh : Goes(t, [task[t] EXCEPT !.at = "insert", !.m = k])
    BY <1>7 DEF AdoptsOnNewPort
  <2>2. PICK r : Goes(t, r) /\ r = [task[t] EXCEPT !.at = "insert", !.m = k]
    BY <2>1
  <2>3. k \in Mgr
    BY FreshIsManager
  <2>4. r \in Tasks /\ r.at = "insert" /\ r.op = task[t].op /\ r.port = task[t].port /\ r.m = k
    <3>1. task[t] \in Tasks /\ "insert" \in Places
      BY Relies, PlacesAre
    <3> QED BY <2>2, <2>3, <3>1 DEF Tasks
  <2>5. task[t].at = "find" /\ UNCHANGED reg
    BY <1>7 DEF AdoptsOnNewPort, At
  <2>6. task[t].port \in Port
    BY <2>5, Relies DEF Sound
  <2> QED BY <2>2, <2>3, <2>4, <2>5, <2>6, GoesOnWithPort
<1>8. CASE AdoptEnds(t)
  <2>1. PICK r : Goes(t, r) /\ r = [Idle("status") EXCEPT !.at = "lookup", !.again = TRUE]
    BY <1>8 DEF AdoptEnds
  <2>2. Idle("status") \in Tasks /\ Idle("status").op = "status" /\ "lookup" \in Places
    BY IdleIsTask, PlacesAre DEF MapOps
  <2>3. r \in Tasks /\ r.at = "lookup" /\ r.op = "status"
    BY <2>1, <2>2 DEF Tasks
  <2>4. Sound(r, reg)
    BY <2>3 DEF Sound, PortOps
  <2> QED BY <1>8, <2>1, <2>4, OneGoes DEF AdoptEnds
<1> QED BY <1>1, <1>2, <1>3, <1>4, <1>5, <1>6, <1>7, <1>8

LEMMA Resetting ==
  ASSUME Inv, NEW t \in Task,
         ResetBegins(t) \/ ResetNext(t) \/ ResetStops(t) \/ ResetKills(t) \/ ResetWaits(t)
  PROVE  Inv'
<1> USE DEF PortOps
<1>1. CASE ResetBegins(t)
  <2> DEFINE served == {p \in Port : reg[p] # NoMgr}
  <2>1. PICK r : Goes(t, r) /\ r = [task[t] EXCEPT !.at = "resetting", !.ports = served]
    BY <1>1 DEF ResetBegins
  <2>2. r \in Tasks /\ r.at = "resetting" /\ r.op = task[t].op /\ r.ports = served
    <3>1. task[t] \in Tasks /\ "resetting" \in Places /\ served \in SUBSET Port
      BY Relies, PlacesAre
    <3> HIDE DEF served
    <3> QED BY <2>1, <3>1 DEF Tasks
  <2>3. Op(t) = "reset"
    BY <1>1 DEF ResetBegins
  <2>4. Sound(r, reg)
    BY <2>2, <2>3 DEF Sound, Op
  <2> QED BY <1>1, <2>1, <2>4, OneGoes DEF ResetBegins
<1>2. CASE ResetNext(t)
  <2>1. PICK p \in task[t].ports :
               Goes(t, [task[t] EXCEPT !.at = "stopping", !.port = p, !.ports = task[t].ports \ {p}])
    BY <1>2 DEF ResetNext
  <2>2. PICK r : Goes(t, r) /\ r = [task[t] EXCEPT !.at = "stopping", !.port = p, !.ports = task[t].ports \ {p}]
    BY <2>1
  <2>3. task[t].ports \ {p} \in SUBSET Port /\ p \in Port
    BY Relies
  <2>4. r \in Tasks /\ r.at = "stopping" /\ r.port = p /\ r.ports = task[t].ports \ {p} /\ r.op = task[t].op
    <3>1. task[t] \in Tasks /\ "stopping" \in Places
      BY Relies, PlacesAre
    <3> QED BY <2>2, <2>3, <3>1 DEF Tasks
  <2>5. task[t].op = "reset" /\ \A q \in task[t].ports : reg[q] # NoMgr
    BY <1>2, Relies DEF ResetNext, Sound
  <2>6. Sound(r, reg)
    BY <2>3, <2>4, <2>5 DEF Sound
  <2> QED BY <1>2, <2>2, <2>6, OneGoes DEF ResetNext
<1>3. CASE ResetStops(t)
  <2>1. PICK r : Goes(t, r) /\ r = [task[t] EXCEPT !.at = "resetting", !.port = NoPort]
    BY <1>3 DEF ResetStops
  <2>2. r \in Tasks /\ r.at = "resetting" /\ r.ports = task[t].ports /\ r.op = task[t].op
    <3>1. task[t] \in Tasks /\ "resetting" \in Places
      BY Relies, PlacesAre
    <3> QED BY <2>1, <3>1 DEF Tasks
  <2>3. task[t].op = "reset" /\ \A q \in task[t].ports : reg[q] # NoMgr
    BY <1>3, Relies DEF ResetStops, At, Sound
  <2>4. Sound(r, reg)
    BY <2>2, <2>3 DEF Sound
  <2> QED BY <1>3, <2>1, <2>4, OneGoes DEF ResetStops
<1>4. CASE ResetKills(t)
  <2>1. PICK r : Goes(t, r) /\ r = [task[t] EXCEPT !.at = "snapshot"]
    BY <1>4 DEF ResetKills
  <2>2. r \in Tasks /\ r.at = "snapshot" /\ r.op = task[t].op /\ r.port = task[t].port
    <3>1. task[t] \in Tasks /\ "snapshot" \in Places
      BY Relies, PlacesAre
    <3> QED BY <2>1, <3>1 DEF Tasks
  <2> QED BY <1>4, <2>1, <2>2, GoesOn DEF ResetKills
<1>5. CASE ResetWaits(t) /\ Goes(t, [task[t] EXCEPT !.again = TRUE])
  <2>1. PICK r : Goes(t, r) /\ r = [task[t] EXCEPT !.again = TRUE]
    BY <1>5
  <2>2. r \in Tasks /\ r.at = task[t].at /\ r.op = task[t].op /\ r.port = task[t].port
    <3>1. task[t] \in Tasks
      BY Relies
    <3> QED BY <2>1, <3>1 DEF Tasks
  <2>3. UNCHANGED reg /\ task[t].at = "snapshot"
    BY <1>5 DEF ResetWaits, At
  <2> QED BY <2>1, <2>2, <2>3, GoesOn
<1>6. CASE ResetWaits(t) /\ Ends(t)
  BY <1>6, Ending DEF ResetWaits
<1> QED BY <1>1, <1>2, <1>3, <1>4, <1>5, <1>6 DEF ResetWaits

-----------------------------------------------------------------------------
(* The poll loop relies on nothing; a load that ends moves no task.        *)
LEMMA Polling ==
  ASSUME Inv, PollRuns
  PROVE  Inv'
<1>1. Poll \in Task
  BY DEF Task
<1>2. CASE PollCollects
  <2>1. PICK r : Goes(Poll, r) /\ r = [Idle("poll") EXCEPT !.at = "lookup"]
    BY <1>2 DEF PollCollects
  <2>2. Idle("poll") \in Tasks /\ Idle("poll").op = "poll" /\ "lookup" \in Places
    BY IdleIsTask, PlacesAre
  <2>3. r \in Tasks /\ r.at = "lookup" /\ r.op = "poll"
    BY <2>1, <2>2 DEF Tasks
  <2>4. Sound(r, reg)
    BY <2>3 DEF Sound, PortOps
  <2> QED BY <1>1, <1>2, <2>1, <2>4, OneGoes DEF PollCollects
<1>3. CASE PollStores
  BY <1>1, <1>3, Ending DEF PollStores
<1> QED BY <1>2, <1>3 DEF PollRuns

LEMMA StayingPut ==
  ASSUME Inv, UNCHANGED <<reg, task>>
  PROVE  Inv'
BY DEF Inv, RegOK, TaskOK

LEMMA InitInv == Init => Inv
<1> SUFFICES ASSUME Init PROVE Inv
  OBVIOUS
<1> DEFINE OneEach(f) == \A p, q \in Managed : f[p] = f[q] => p = q
           f == CHOOSE f \in [Managed -> Mgr] : OneEach(f)
<1>1. f \in [Managed -> Mgr]
  OBVIOUS
<1>2. reg = [p \in Port |-> IF p \in Managed THEN f[p] ELSE NoMgr]
  BY DEF Init
<1> HIDE DEF f
<1>3. RegOK
  BY <1>1, <1>2 DEF RegOK
<1>4. TaskOK /\ \A t \in Task : Sound(task[t], reg)
  BY IdleIsSound DEF Init, TaskOK
<1> QED BY <1>3, <1>4 DEF Inv

LEMMA StepsKeepInv == Inv /\ [Next]_vars => Inv'
<1> SUFFICES ASSUME Inv, [Next]_vars PROVE Inv'
  OBVIOUS
<1>1. CASE \E t \in Handler : MapRequest(t) \/ SnapshotRequest(t)
  BY <1>1, Arriving DEF MapRequest, SnapshotRequest
<1>2. CASE \E t \in Task : Runs(t)
  <2>1. PICK t \in Task : Runs(t)
    BY <1>2
  <2> QED BY <2>1, Loading, Inserting, StoppingAndReloading, Walking, Adopting, Resetting DEF Runs
<1>3. CASE PollRuns
  BY <1>3, Polling
<1>4. CASE \E m \in Mgr : LoadSettles(m)
  BY <1>4, StayingPut DEF LoadSettles
<1>5. CASE UNCHANGED vars
  BY <1>5, StayingPut DEF vars
<1> QED BY <1>1, <1>2, <1>3, <1>4, <1>5 DEF Next

-----------------------------------------------------------------------------
(* The queues. A line q of a lock in which tasks stand as P has it.        *)
Modes == {"-", "r", "w"}
Entry(t, how) == [task |-> t, mode |-> how]
Guard == [task : Task, mode : {"r", "w"}]

Line(q, P) ==
    /\ q \in Seq(Guard)
    /\ \A i \in DOMAIN q : q[i].mode = P[q[i].task]
    /\ \A i, j \in DOMAIN q : q[i].task = q[j].task => i = j
    /\ \A t \in Task : P[t] # "-" => \E i \in DOMAIN q : q[i].task = t

HoldsIn(q, t) ==
    \E i \in DOMAIN q : /\ q[i].task = t
                        /\ i = 1 \/ \A j \in 1..i : q[j].mode = "r"

LEMMA Asking ==
  ASSUME NEW P \in [Task -> Modes], NEW q, Line(q, P), NEW t \in Task, P[t] = "-",
         NEW how \in Modes, how # "-", NEW s, s = Append(q, Entry(t, how))
  PROVE  /\ Line(s, [P EXCEPT ![t] = how])
         /\ \A u : HoldsIn(q, u) => HoldsIn(s, u)
<1> DEFINE e == Entry(t, how)
<1>1. e \in Guard /\ q \in Seq(Guard) /\ e.task = t /\ e.mode = how
  BY DEF Guard, Line, Modes, Entry
<1>2. PICK n \in Nat : n = Len(q) /\ DOMAIN q = 1..n
  BY <1>1, LenProperties
<1>3. PICK N : N = n + 1 /\ N \in Nat /\ n < N
  BY <1>2
<1> HIDE DEF e
<1>4. /\ s \in Seq(Guard) /\ DOMAIN s = 1..N /\ s[N] = e
      /\ \A i \in 1..n : s[i] = q[i]
  <2>1. s = Append(q, e)
    BY DEF e
  <2>2. s \in Seq(Guard) /\ Len(s) = N /\ s[N] = e /\ \A i \in 1..n : s[i] = q[i]
    BY <1>1, <1>2, <1>3, <2>1, AppendProperties
  <2> QED BY <2>2, LenProperties
<1>5. \A i \in 1..N : i \in 1..n \/ i = N
  BY <1>2, <1>3
<1>6. 1..n \subseteq 1..N /\ N \in 1..N /\ N \notin 1..n
  BY <1>2, <1>3
<1>7. \A i \in 1..n : q[i].task \in Task /\ q[i].task # t
  <2>1. \A i \in 1..n : q[i] \in Guard
    BY <1>1, <1>2, ElementOfSeq
  <2> QED BY <1>2, <2>1 DEF Line, Guard
<1>8. \A i \in 1..N : s[i].mode = [P EXCEPT ![t] = how][s[i].task]
  BY <1>1, <1>4, <1>5, <1>7, <1>2 DEF Line
<1>9. \A i, j \in 1..N : s[i].task = s[j].task => i = j
  <2> SUFFICES ASSUME NEW i \in 1..N, NEW j \in 1..N, s[i].task = s[j].task PROVE i = j
    OBVIOUS
  <2>1. CASE i \in 1..n /\ j \in 1..n
    BY <1>2, <1>4, <2>1 DEF Line
  <2>2. CASE i = N \/ j = N
    BY <1>1, <1>4, <1>5, <1>7, <2>2
  <2> QED BY <1>5, <2>1, <2>2
<1>10. \A u \in Task : [P EXCEPT ![t] = how][u] # "-" => \E i \in 1..N : s[i].task = u
  <2> SUFFICES ASSUME NEW u \in Task, [P EXCEPT ![t] = how][u] # "-"
               PROVE  \E i \in 1..N : s[i].task = u
    OBVIOUS
  <2>1. CASE u = t
    BY <1>1, <1>4, <1>6, <2>1
  <2>2. CASE u # t
    <3>1. PICK i \in 1..n : q[i].task = u
      BY <1>2, <2>2 DEF Line
    <3> QED BY <1>4, <1>6, <3>1
  <2> QED BY <2>1, <2>2
<1>11. ASSUME NEW u, HoldsIn(q, u) PROVE HoldsIn(s, u)
  <2>1. PICK i \in 1..n : q[i].task = u /\ (i = 1 \/ \A j \in 1..i : q[j].mode = "r")
    BY <1>2, <1>11 DEF HoldsIn
  <2>2. 1..i \subseteq 1..n
    BY <1>2
  <2> QED BY <1>4, <1>6, <2>1, <2>2 DEF HoldsIn
<1> QED BY <1>4, <1>8, <1>9, <1>10, <1>11 DEF Line

LEMMA Leaving ==
  ASSUME NEW P \in [Task -> Modes], NEW q, Line(q, P), NEW t \in Task, P[t] # "-",
         NEW s, s = RemoveAt(q, PlaceIn(q, t))
  PROVE  /\ Line(s, [P EXCEPT ![t] = "-"])
         /\ \A u : u # t /\ HoldsIn(q, u) => HoldsIn(s, u)
<1>1. q \in Seq(Guard)
  BY DEF Line
<1>2. PICK n \in Nat : n = Len(q) /\ DOMAIN q = 1..n
  BY <1>1, LenProperties
<1>3. PICK k \in 1..n : k = PlaceIn(q, t) /\ q[k].task = t
  BY <1>2 DEF Line, PlaceIn
<1>4. PICK N : N = n - 1 /\ N \in Nat
  BY <1>2
<1>5. /\ s \in Seq(Guard) /\ DOMAIN s = 1..N
      /\ \A i \in 1..N : s[i] = q[IF i < k THEN i ELSE i + 1]
  <2>1. s = SubSeq(q, 1, k - 1) \o SubSeq(q, k + 1, n)
    BY <1>2, <1>3 DEF RemoveAt
  <2>2. PICK a : a = SubSeq(q, 1, k - 1)
    OBVIOUS
  <2>3. PICK b : b = SubSeq(q, k + 1, n)
    OBVIOUS
  <2>4. PICK la \in Nat : la = k - 1
    BY <1>2, <1>3
  <2>5. PICK lb \in Nat : lb = n - k
    BY <1>2, <1>3
  <2>6. /\ a \in Seq(Guard) /\ Len(a) = la /\ \A i \in 1..la : a[i] = q[i]
    <3>1. \A i \in 1..(k-1) : i \in 1..n
      BY <1>2, <1>3
    <3>2. \A i \in 1..(k-1) : q[i] \in Guard
      BY <1>1, <1>2, <3>1, ElementOfSeq
    <3>3. a = [i \in 1..la |-> q[i]]
      BY <2>2, <2>4, SMT
    <3> QED BY <3>3, <3>2, <2>4
  <2>7. /\ b \in Seq(Guard) /\ Len(b) = lb /\ \A i \in 1..lb : b[i] = q[k + i]
    <3>1. \A i \in 1..lb : k + i \in 1..n
      BY <1>2, <1>3, <2>5
    <3>2. \A i \in 1..lb : q[k + i] \in Guard
      BY <1>1, <1>2, <3>1, ElementOfSeq
    <3>3. b = [i \in 1..lb |-> q[k + i]]
      BY <2>3, <2>5, <1>2, <1>3, SMT
    <3> QED BY <3>3, <3>2
  <2>8. /\ s \in Seq(Guard) /\ Len(s) = la + lb
        /\ \A i \in 1..(la + lb) : s[i] = IF i <= la THEN a[i] ELSE b[i - la]
    <3>1. s = a \o b
      BY <2>1, <2>2, <2>3
    <3>2. /\ a \o b \in Seq(Guard) /\ Len(a \o b) = Len(a) + Len(b)
          /\ \A i \in 1..(Len(a) + Len(b)) :
                (a \o b)[i] = IF i <= Len(a) THEN a[i] ELSE b[i - Len(a)]
      <4>1. a \in Seq(Guard) /\ b \in Seq(Guard)
        BY <2>6, <2>7
      <4> QED BY ONLY <4>1, ConcatProperties, Zenon
    <3> QED BY <3>1, <3>2, <2>6, <2>7, Zenon
  <2>9. la + lb = N
    BY <1>2, <1>3, <1>4, <2>4, <2>5
  <2>10. ASSUME NEW i \in 1..N PROVE s[i] = q[IF i < k THEN i ELSE i + 1]
    <3>1. CASE i < k
      <4>1. i <= la /\ i \in 1..la
        BY <1>2, <1>3, <2>4, <3>1
      <4> QED BY <2>6, <2>8, <2>9, <3>1, <4>1
    <3>2. CASE ~(i < k)
      <4>1. ~(i <= la) /\ (i - la) \in 1..lb /\ k + (i - la) = i + 1
        BY <1>2, <1>3, <1>4, <2>4, <2>5, <3>2
      <4> QED BY <2>7, <2>8, <2>9, <3>2, <4>1
    <3> QED BY <3>1, <3>2
  <2> QED BY <2>8, <2>9, <2>10, LenProperties
<1> DEFINE old(i) == IF i < k THEN i ELSE i + 1
<1>6. /\ \A i \in 1..N : old(i) \in 1..n /\ old(i) # k
      /\ \A i, j \in 1..N : old(i) = old(j) => i = j
      /\ \A j \in 1..n : j # k => \E i \in 1..N : old(i) = j
  <2>1. ASSUME NEW j \in 1..n, j # k PROVE \E i \in 1..N : old(i) = j
    <3>1. CASE j < k
      BY <1>2, <1>3, <1>4, <3>1
    <3>2. CASE ~(j < k)
      <4>1. j - 1 \in 1..N /\ ~(j - 1 < k) /\ (j - 1) + 1 = j
        BY <1>2, <1>3, <1>4, <2>1, <3>2
      <4> QED BY <4>1
    <3> QED BY <3>1, <3>2
  <2> QED BY <1>2, <1>3, <1>4, <2>1
<1>7. \A i \in 1..N : s[i] = q[old(i)]
  BY <1>5
<1>8. \A i \in 1..n : q[i].task = t => i = k
  BY <1>2, <1>3 DEF Line
<1>9. \A i \in 1..n : q[i].task \in Task
  <2>1. \A i \in 1..n : q[i] \in Guard
    BY <1>1, <1>2, ElementOfSeq
  <2> QED BY <2>1 DEF Guard
<1>10. ASSUME NEW u, u # t, HoldsIn(q, u) PROVE HoldsIn(s, u)
  <2>1. PICK i \in 1..n : q[i].task = u /\ (i = 1 \/ \A j \in 1..i : q[j].mode = "r")
    BY <1>2, <1>10 DEF HoldsIn
  <2>2. i # k
    BY <1>3, <1>10, <2>1
  <2>3. PICK m \in 1..N : old(m) = i
    BY <1>6, <2>2
  <2>4. i = 1 => m = 1
    BY <1>3, <1>4, <2>2, <2>3
  <2>5. \A j \in 1..m : j \in 1..N /\ old(j) \in 1..i
    BY <1>3, <1>4, <2>3
  <2> HIDE DEF old
  <2>6. s[m].task = u
    BY <1>7, <2>1, <2>3
  <2>7. CASE i = 1
    BY <1>5, <2>3, <2>4, <2>6, <2>7 DEF HoldsIn
  <2>8. CASE \A j \in 1..i : q[j].mode = "r"
    <3>1. \A j \in 1..m : s[j].mode = "r"
      BY <1>7, <2>5, <2>8
    <3> QED BY <1>5, <2>3, <2>6, <3>1 DEF HoldsIn
  <2> QED BY <2>1, <2>7, <2>8
<1> HIDE DEF old
<1>11. \A i \in 1..N : s[i].mode = [P EXCEPT ![t] = "-"][s[i].task]
  <2> SUFFICES ASSUME NEW i \in 1..N PROVE s[i].mode = [P EXCEPT ![t] = "-"][s[i].task]
    OBVIOUS
  <2>1. q[old(i)].task # t /\ q[old(i)].task \in Task /\ q[old(i)].mode = P[q[old(i)].task]
    BY <1>2, <1>6, <1>8, <1>9 DEF Line
  <2> QED BY <1>7, <2>1
<1>12. \A i, j \in 1..N : s[i].task = s[j].task => i = j
  BY <1>2, <1>6, <1>7 DEF Line
<1>13. \A u \in Task : [P EXCEPT ![t] = "-"][u] # "-" => \E i \in 1..N : s[i].task = u
  <2> SUFFICES ASSUME NEW u \in Task, [P EXCEPT ![t] = "-"][u] # "-"
               PROVE  \E i \in 1..N : s[i].task = u
    OBVIOUS
  <2>1. u # t /\ P[u] # "-"
    OBVIOUS
  <2>2. PICK j \in 1..n : q[j].task = u
    BY <1>2, <2>1 DEF Line
  <2>3. j # k
    BY <1>3, <2>1, <2>2
  <2> QED BY <1>6, <1>7, <2>2, <2>3
<1> QED BY <1>5, <1>10, <1>11, <1>12, <1>13 DEF Line

-----------------------------------------------------------------------------
(* How a task r asks for a lock, or holds it, at the await it is at.       *)
Claim(r, l) ==
    CASE l = "reg" /\ r.at = "insert" -> "w"
      [] l = "reg" /\ r.at \in {"lookup", "load", "visiting", "find", "stopping"} -> "r"
      [] l = "snap" /\ r.at = "store" -> "w"
      [] l = "snap" /\ r.at \in {"snapshot", "adopting", "find"} -> "r"
      [] l = "snap" /\ r.op = "gate" /\ r.at \in {"lookup", "visiting"} -> "r"
      [] l = "snap" /\ r.op = "status" /\ r.at = "insert" -> "r"
      [] OTHER -> "-"

(* Where a task has what it claims, and does not wait for it.              *)
Keeps(r, l) == IF l = "reg" THEN r.at = "visiting"
               ELSE r.at # "snapshot" /\ Claim(r, l) = "r"

Adopter(r) == r.at \in {"adopting", "find"} => r.op = "status"

Orderly ==
    /\ queue = [l \in Lock |-> queue[l]]
    /\ \A l \in Lock : Line(queue[l], [t \in Task |-> Claim(task[t], l)])
    /\ \A t \in Task : Adopter(task[t]) /\ \A l \in Lock : Keeps(task[t], l) => HoldsIn(queue[l], t)

(* What a step does to the queue of lock l as task t goes on with r.       *)
Stays(t, r, l) == /\ Claim(r, l) = Claim(task[t], l) /\ queue'[l] = queue[l]
                  /\ Keeps(r, l) => HoldsIn(queue[l], t)
Joins(t, r, l) == /\ Claim(task[t], l) = "-" /\ Claim(r, l) # "-" /\ ~Keeps(r, l)
                  /\ queue'[l] = Append(queue[l], Entry(t, Claim(r, l)))
Leaves(t, r, l) == /\ Claim(task[t], l) # "-" /\ Claim(r, l) = "-"
                   /\ queue'[l] = RemoveAt(queue[l], PlaceIn(queue[l], t))
Rejoins(t, r, l) == /\ Claim(task[t], l) # "-" /\ Claim(r, l) # "-" /\ ~Keeps(r, l)
                    /\ queue'[l] = Append(RemoveAt(queue[l], PlaceIn(queue[l], t)),
                                          Entry(t, Claim(r, l)))

Shifts(t, r, l) == Stays(t, r, l) \/ Joins(t, r, l) \/ Leaves(t, r, l) \/ Rejoins(t, r, l)

LEMMA ClaimIsMode == ASSUME NEW r, NEW l PROVE Claim(r, l) \in Modes
BY DEF Claim, Modes

(* A task that claims nothing keeps nothing.                               *)
LEMMA KeepsClaims == ASSUME NEW r, NEW l \in Lock, Claim(r, l) = "-" PROVE ~Keeps(r, l)
BY DEF Claim, Keeps, Lock

LEMMA OneShifts ==
  ASSUME NEW P \in [Task -> Modes], NEW l \in Lock, Line(queue[l], P), NEW t \in Task,
         P[t] = Claim(task[t], l), NEW r, Shifts(t, r, l)
  PROVE  /\ Line(queue'[l], [P EXCEPT ![t] = Claim(r, l)])
         /\ \A u : u # t /\ HoldsIn(queue[l], u) => HoldsIn(queue'[l], u)
         /\ Keeps(r, l) => HoldsIn(queue'[l], t)
<1>1. PICK c \in Modes : c = Claim(r, l)
  BY ClaimIsMode
<1>2. PICK q : q = queue[l]
  OBVIOUS
<1>3. PICK s : s = queue'[l]
  OBVIOUS
<1>4. Line(q, P)
  BY <1>2
<1>5. CASE Stays(t, r, l)
  <2>1. [P EXCEPT ![t] = Claim(r, l)] = P
    BY <1>5 DEF Stays
  <2> QED BY <1>5, <2>1 DEF Stays
<1>6. CASE Joins(t, r, l)
  <2>1. s = Append(q, Entry(t, c)) /\ P[t] = "-" /\ c # "-" /\ ~Keeps(r, l)
    BY <1>1, <1>2, <1>3, <1>6 DEF Joins
  <2>2. Line(s, [P EXCEPT ![t] = c]) /\ \A u : HoldsIn(q, u) => HoldsIn(s, u)
    <3>1. c \in Modes /\ c # "-" /\ P[t] = "-" /\ s = Append(q, Entry(t, c))
      BY <2>1
    <3> QED BY ONLY <1>4, <3>1, t \in Task, P \in [Task -> Modes], Asking, Zenon
  <2> QED BY <1>1, <1>2, <1>3, <2>1, <2>2
<1>7. CASE Leaves(t, r, l)
  <2>1. s = RemoveAt(q, PlaceIn(q, t)) /\ P[t] # "-" /\ c = "-" /\ ~Keeps(r, l)
    BY <1>1, <1>2, <1>3, <1>7, KeepsClaims DEF Leaves
  <2>2. Line(s, [P EXCEPT ![t] = "-"]) /\ \A u : u # t /\ HoldsIn(q, u) => HoldsIn(s, u)
    BY ONLY <1>4, <2>1, t \in Task, P \in [Task -> Modes], Leaving
  <2> QED BY <1>1, <1>2, <1>3, <2>1, <2>2
<1>8. CASE Rejoins(t, r, l)
  <2>1. PICK b : b = RemoveAt(q, PlaceIn(q, t))
    OBVIOUS
  <2>2. s = Append(b, Entry(t, c)) /\ P[t] # "-" /\ c # "-" /\ ~Keeps(r, l)
    BY <1>1, <1>2, <1>3, <1>8, <2>1 DEF Rejoins
  <2>3. Line(b, [P EXCEPT ![t] = "-"]) /\ \A u : u # t /\ HoldsIn(q, u) => HoldsIn(b, u)
    BY ONLY <1>4, <2>1, <2>2, t \in Task, P \in [Task -> Modes], Leaving
  <2>4. PICK Q \in [Task -> Modes] : Q = [P EXCEPT ![t] = "-"]
    BY DEF Modes
  <2>5. Q[t] = "-" /\ [Q EXCEPT ![t] = c] = [P EXCEPT ![t] = c]
    BY <2>4
  <2>6. Line(s, [Q EXCEPT ![t] = c]) /\ \A u : HoldsIn(b, u) => HoldsIn(s, u)
    <3>1. Line(b, Q) /\ c \in Modes /\ c # "-" /\ Q[t] = "-" /\ Q \in [Task -> Modes]
          /\ s = Append(b, Entry(t, c))
      BY <2>2, <2>3, <2>4, <2>5
    <3> QED BY ONLY <3>1, t \in Task, Asking, Zenon
  <2> QED BY <1>1, <1>2, <1>3, <2>2, <2>3, <2>5, <2>6
<1> QED BY <1>5, <1>6, <1>7, <1>8 DEF Shifts

(* The queues are as the tasks are, if a step shifts both alike.           *)
LEMMA Shifting ==
  ASSUME Inv, Orderly, NEW t \in Task, NEW r, Goes(t, r), Adopter(r),
         queue' = [l \in Lock |-> queue'[l]], \A l \in Lock : Shifts(t, r, l)
  PROVE  Orderly'
<1>1. task'[t] = r /\ \A u \in Task : u # t => task'[u] = task[u]
  BY DEF Goes, Inv, TaskOK
<1>2. ASSUME NEW l \in Lock
      PROVE  /\ Line(queue'[l], [u \in Task |-> Claim(task'[u], l)])
             /\ \A u \in Task : Keeps(task'[u], l) => HoldsIn(queue'[l], u)
  <2>1. PICK P : P = [u \in Task |-> Claim(task[u], l)]
    OBVIOUS
  <2>2. P \in [Task -> Modes] /\ P[t] = Claim(task[t], l)
    BY <2>1, ClaimIsMode
  <2>3. Line(queue[l], P)
    BY <2>1 DEF Orderly
  <2>4. /\ Line(queue'[l], [P EXCEPT ![t] = Claim(r, l)])
        /\ \A u : u # t /\ HoldsIn(queue[l], u) => HoldsIn(queue'[l], u)
        /\ Keeps(r, l) => HoldsIn(queue'[l], t)
    BY <2>2, <2>3, OneShifts
  <2>5. [P EXCEPT ![t] = Claim(r, l)] = [u \in Task |-> Claim(task'[u], l)]
    BY <1>1, <2>1
  <2>6. \A u \in Task : Keeps(task[u], l) => HoldsIn(queue[l], u)
    BY DEF Orderly
  <2> QED BY <1>1, <2>4, <2>5, <2>6
<1>3. \A u \in Task : Adopter(task'[u])
  BY <1>1 DEF Orderly
<1> QED BY <1>2, <1>3 DEF Orderly

-----------------------------------------------------------------------------
(* The operations of the locks l and k, as shifts. Who goes on with what   *)
(* he kept, or had when he was asked, keeps it.                            *)
LEMMA HoldsHas == ASSUME NEW t, NEW l, Holds(t, l) PROVE HoldsIn(queue[l], t)
BY DEF Holds, HoldsIn

GoesOnKeeping(t, r, l) == Keeps(r, l) => Keeps(task[t], l) \/ Holds(t, l)

LEMMA KeepsOn ==
  ASSUME Orderly, NEW t \in Task, NEW r, NEW l \in Lock, GoesOnKeeping(t, r, l), Keeps(r, l)
  PROVE  HoldsIn(queue[l], t)
BY HoldsHas DEF Orderly, GoesOnKeeping

LEMMA Taking ==
  ASSUME Inv, Orderly, NEW t \in Task, NEW r, Goes(t, r), Adopter(r),
         NEW l \in Lock, NEW k \in Lock, k # l, NEW how \in {"r", "w"}, Takes(t, l, how),
         Claim(task[t], l) = "-", Claim(r, l) = how, ~Keeps(r, l),
         Claim(r, k) = Claim(task[t], k), GoesOnKeeping(t, r, k)
  PROVE  Orderly'
<1>1. /\ queue' = [j \in Lock |-> queue'[j]]
      /\ queue'[l] = Append(queue[l], Entry(t, how))
      /\ queue'[k] = queue[k]
  BY Zenon DEF Orderly, Takes, Asked, Entry
<1>2. Joins(t, r, l) /\ Stays(t, r, k)
  BY <1>1, KeepsOn DEF Stays, Joins
<1>3. \A j \in Lock : Shifts(t, r, j)
  BY <1>2 DEF Shifts, Lock
<1> QED BY <1>1, <1>3, Shifting

LEMMA Dropping ==
  ASSUME Inv, Orderly, NEW t \in Task, NEW r, Goes(t, r), Adopter(r),
         NEW l \in Lock, NEW k \in Lock, k # l, Drops(t, l),
         Claim(task[t], l) # "-", Claim(r, l) = "-",
         Claim(r, k) = Claim(task[t], k), GoesOnKeeping(t, r, k)
  PROVE  Orderly'
<1>1. /\ queue' = [j \in Lock |-> queue'[j]]
      /\ queue'[l] = RemoveAt(queue[l], PlaceIn(queue[l], t))
      /\ queue'[k] = queue[k]
  BY Zenon DEF Orderly, Drops, Given
<1>2. Leaves(t, r, l) /\ Stays(t, r, k)
  BY <1>1, KeepsOn DEF Stays, Leaves
<1>3. \A j \in Lock : Shifts(t, r, j)
  BY <1>2 DEF Shifts, Lock
<1> QED BY <1>1, <1>3, Shifting

(* One lock for the other.                                                 *)
LEMMA Swapping ==
  ASSUME Inv, Orderly, NEW t \in Task, NEW r, Goes(t, r), Adopter(r),
         NEW l \in Lock, NEW k \in Lock, k # l, NEW how \in {"r", "w"}, Swaps(t, l, k, how),
         Claim(task[t], l) # "-", Claim(r, l) = "-",
         Claim(task[t], k) = "-", Claim(r, k) = how, ~Keeps(r, k)
  PROVE  Orderly'
<1>1. PICK q : q = Given(queue, l, t)
  OBVIOUS
<1>2. /\ q = [j \in Lock |-> q[j]]
      /\ q[l] = RemoveAt(queue[l], PlaceIn(queue[l], t))
      /\ q[k] = queue[k]
  BY <1>1, Zenon DEF Orderly, Given
<1>3. queue' = Asked(q, k, t, how)
  BY <1>1 DEF Swaps
<1>4. /\ queue' = [j \in Lock |-> queue'[j]]
      /\ queue'[k] = Append(q[k], Entry(t, how))
      /\ queue'[l] = q[l]
  BY <1>2, <1>3, Zenon DEF Asked, Entry
<1>5. Leaves(t, r, l) /\ Joins(t, r, k)
  BY <1>2, <1>4 DEF Leaves, Joins
<1>6. \A j \in Lock : Shifts(t, r, j)
  BY <1>5 DEF Shifts, Lock
<1> QED BY <1>4, <1>6, Shifting

(* The same lock anew.                                                     *)
LEMMA Renewing ==
  ASSUME Inv, Orderly, NEW t \in Task, NEW r, Goes(t, r), Adopter(r),
         NEW l \in Lock, NEW k \in Lock, k # l, NEW how \in {"r", "w"}, Swaps(t, l, l, how),
         Claim(task[t], l) # "-", Claim(r, l) = how, ~Keeps(r, l),
         Claim(r, k) = Claim(task[t], k), GoesOnKeeping(t, r, k)
  PROVE  Orderly'
<1>1. PICK q : q = Given(queue, l, t)
  OBVIOUS
<1>2. /\ q = [j \in Lock |-> q[j]]
      /\ q[l] = RemoveAt(queue[l], PlaceIn(queue[l], t))
      /\ q[k] = queue[k]
  BY <1>1, Zenon DEF Orderly, Given
<1>3. queue' = Asked(q, l, t, how)
  BY <1>1 DEF Swaps
<1>4. /\ queue' = [j \in Lock |-> queue'[j]]
      /\ queue'[l] = Append(q[l], Entry(t, how))
      /\ queue'[k] = q[k]
  BY <1>2, <1>3, Zenon DEF Asked, Entry
<1>5. Rejoins(t, r, l) /\ Stays(t, r, k)
  BY <1>2, <1>4, KeepsOn DEF Rejoins, Stays
<1>6. \A j \in Lock : Shifts(t, r, j)
  BY <1>5 DEF Shifts, Lock
<1> QED BY <1>4, <1>6, Shifting

LEMMA Keeping ==
  ASSUME Inv, Orderly, NEW t \in Task, NEW r, Goes(t, r), Adopter(r), UNCHANGED queue,
         \A k \in Lock : Claim(r, k) = Claim(task[t], k) /\ GoesOnKeeping(t, r, k)
  PROVE  Orderly'
<1>1. queue' = [j \in Lock |-> queue'[j]]
  BY DEF Orderly
<1>2. \A k \in Lock : Shifts(t, r, k)
  BY KeepsOn DEF Shifts, Stays
<1> QED BY <1>1, <1>2, Shifting

(* The gate gives up both.                                                 *)
LEMMA DroppingBoth ==
  ASSUME Inv, Orderly, NEW t \in Task, NEW r, Goes(t, r), Adopter(r),
         queue' = Given(Given(queue, "reg", t), "snap", t),
         \A k \in Lock : Claim(task[t], k) # "-" /\ Claim(r, k) = "-"
  PROVE  Orderly'
<1>1. PICK q : q = Given(queue, "reg", t)
  OBVIOUS
<1>2. /\ q = [j \in Lock |-> q[j]]
      /\ q["reg"] = RemoveAt(queue["reg"], PlaceIn(queue["reg"], t))
      /\ q["snap"] = queue["snap"]
  BY <1>1, Zenon DEF Orderly, Given, Lock
<1>3. /\ queue' = [j \in Lock |-> queue'[j]]
      /\ queue'["snap"] = RemoveAt(q["snap"], PlaceIn(q["snap"], t))
      /\ queue'["reg"] = q["reg"]
  BY <1>1, <1>2, Zenon DEF Given, Lock
<1>4. \A k \in Lock : Shifts(t, r, k)
  BY <1>2, <1>3 DEF Shifts, Leaves, Lock
<1> QED BY <1>3, <1>4, Shifting

(* A request that ends gives up its last lock.                             *)
LEMMA Parting ==
  ASSUME Inv, Orderly, NEW t \in Task, Ends(t), NEW l \in Lock, NEW k \in Lock, k # l,
         Drops(t, l), Claim(task[t], l) # "-", Claim(task[t], k) = "-"
  PROVE  Orderly'
<1>1. PICK r : Goes(t, r) /\ r = Idle(IF t = Poll THEN "poll" ELSE "metrics")
  BY DEF Ends
<1>2. r.at = "idle"
  BY <1>1 DEF Idle
<1>3. Adopter(r) /\ \A j \in Lock : Claim(r, j) = "-" /\ ~Keeps(r, j)
  BY <1>2 DEF Adopter, Claim, Keeps
<1> QED BY <1>1, <1>3, Dropping DEF GoesOnKeeping

-----------------------------------------------------------------------------
(* The steps, one by one: from the await a request was at, to the next.    *)
LEMMA ArrivingInLine ==
  ASSUME Inv, Orderly, NEW t \in Task, NEW op, NEW at, NEW r, Goes(t, r),
         r.at = at, r.op = op, task[t].at = "idle",
         \/ op \in PortOps \cup MapOps \cup {"poll"} /\ at = "lookup" /\ Takes(t, "reg", "r")
         \/ op \in SnapshotOps /\ at = "snapshot" /\ Takes(t, "snap", "r")
  PROVE  Orderly'
<1>1. r.at = at /\ r.op = op
  OBVIOUS
<1>2. CASE op \in PortOps \cup MapOps \cup {"poll"} /\ at = "lookup" /\ Takes(t, "reg", "r")
  <2>1. op # "gate"
    BY <1>2 DEF PortOps, MapOps
  <2>2. /\ Claim(task[t], "reg") = "-" /\ Claim(r, "reg") = "r" /\ ~Keeps(r, "reg") /\ Adopter(r)
        /\ Claim(task[t], "snap") = "-" /\ Claim(r, "snap") = "-" /\ ~Keeps(r, "snap")
    BY <1>1, <1>2, <2>1 DEF Claim, Keeps, Adopter
  <2> QED BY <1>2, <2>2, Taking DEF GoesOnKeeping, Lock
<1>3. CASE op \in SnapshotOps /\ at = "snapshot" /\ Takes(t, "snap", "r")
  <2>1. /\ Claim(task[t], "snap") = "-" /\ Claim(r, "snap") = "r" /\ ~Keeps(r, "snap") /\ Adopter(r)
        /\ Claim(task[t], "reg") = "-" /\ Claim(r, "reg") = "-" /\ ~Keeps(r, "reg")
    BY <1>1, <1>3 DEF Claim, Keeps, Adopter
  <2> QED BY <1>3, <2>1, Taking DEF GoesOnKeeping, Lock
<1> QED BY <1>2, <1>3

LEMMA TaskAdopts == ASSUME Orderly, NEW t \in Task PROVE Adopter(task[t])
BY DEF Orderly

LEMMA LoadingInLine ==
  ASSUME Inv, Orderly, NEW t \in Task,
         LoadFinds(t) \/ LoadMakes(t) \/ LoadLoads(t) \/ NotFound(t) \/ Inserts(t)
  PROVE  Orderly'
<1>1. CASE LoadFinds(t)
  <2>1. PICK r : Goes(t, r) /\ r = [task[t] EXCEPT !.at = "load"]
    BY <1>1 DEF LoadFinds
  <2>2. r.at = "load" /\ r.op = task[t].op
    <3>1. task[t] \in Tasks
      BY Relies
    <3> QED BY <2>1, <3>1 DEF Tasks
  <2>3. task[t].at = "lookup" /\ task[t].op = "load" /\ Swaps(t, "reg", "reg", "r")
    BY <1>1 DEF LoadFinds, At, Op
  <2>4. /\ Claim(task[t], "reg") = "r" /\ Claim(r, "reg") = "r"
        /\ ~Keeps(r, "reg")
        /\ Claim(task[t], "snap") = "-" /\ Claim(r, "snap") = "-"
        /\ GoesOnKeeping(t, r, "snap")
        /\ Adopter(r)
    BY <2>2, <2>3, TaskAdopts DEF Claim, Keeps, Adopter, GoesOnKeeping
  <2> QED BY <2>1, <2>3, <2>4, Renewing DEF Lock
<1>2. CASE LoadMakes(t)
  <2>0. PICK k \in Fresh : Goes(t, [task[t] EXCEPT !.at = "insert", !.m = k])
    BY <1>2 DEF LoadMakes
  <2>1. PICK r : Goes(t, r) /\ r = [task[t] EXCEPT !.at = "insert", !.m = k]
    BY <2>0
  <2>2. r.at = "insert" /\ r.op = task[t].op
    <3>1. task[t] \in Tasks
      BY Relies
    <3> QED BY <2>1, <3>1 DEF Tasks
  <2>3. task[t].at = "lookup" /\ task[t].op = "load" /\ Swaps(t, "reg", "reg", "w")
    BY <1>2 DEF LoadMakes, At, Op
  <2>4. /\ Claim(task[t], "reg") = "r" /\ Claim(r, "reg") = "w"
        /\ ~Keeps(r, "reg")
        /\ Claim(task[t], "snap") = "-" /\ Claim(r, "snap") = "-"
        /\ GoesOnKeeping(t, r, "snap")
        /\ Adopter(r)
    BY <2>2, <2>3, TaskAdopts DEF Claim, Keeps, Adopter, GoesOnKeeping
  <2> QED BY <2>1, <2>3, <2>4, Renewing DEF Lock
<1>3. CASE LoadLoads(t)
  <2>1. Ends(t) /\ Drops(t, "reg") /\ task[t].at = "load"
    BY <1>3 DEF LoadLoads, At, Op
  <2>2. Claim(task[t], "reg") # "-" /\ Claim(task[t], "snap") = "-"
    BY <2>1 DEF Claim, PortOps
  <2> QED BY <2>1, <2>2, Parting DEF Lock
<1>4. CASE NotFound(t)
  <2>1. Ends(t) /\ Drops(t, "reg") /\ (task[t].at = "load" \/ (task[t].at = "lookup" /\ task[t].op \in {"stop", "restart", "reload"}))
    BY <1>4 DEF NotFound, At, Op
  <2>2. Claim(task[t], "reg") # "-" /\ Claim(task[t], "snap") = "-"
    BY <2>1 DEF Claim, PortOps
  <2> QED BY <2>1, <2>2, Parting DEF Lock
<1>5. CASE Inserts(t) /\ Op(t) = "load"
  <2>1. PICK r : Goes(t, r) /\ r = [task[t] EXCEPT !.at = "load", !.m = NoMgr]
    BY <1>5 DEF Inserts
  <2>2. r.at = "load" /\ r.op = task[t].op
    <3>1. task[t] \in Tasks
      BY Relies
    <3> QED BY <2>1, <3>1 DEF Tasks
  <2>3. task[t].at = "insert" /\ task[t].op = "load" /\ Swaps(t, "reg", "reg", "r")
    BY <1>5 DEF Inserts, At, Op
  <2>4. /\ Claim(task[t], "reg") = "w" /\ Claim(r, "reg") = "r"
        /\ ~Keeps(r, "reg")
        /\ Claim(task[t], "snap") = "-" /\ Claim(r, "snap") = "-"
        /\ GoesOnKeeping(t, r, "snap")
        /\ Adopter(r)
    BY <2>2, <2>3, TaskAdopts DEF Claim, Keeps, Adopter, GoesOnKeeping
  <2> QED BY <2>1, <2>3, <2>4, Renewing DEF Lock
<1>6. CASE Inserts(t) /\ Op(t) = "status"
  <2>1. PICK r : Goes(t, r) /\ r = [task[t] EXCEPT !.at = "adopting", !.m = NoMgr]
    BY <1>6 DEF Inserts
  <2>2. r.at = "adopting" /\ r.op = task[t].op
    <3>1. task[t] \in Tasks
      BY Relies
    <3> QED BY <2>1, <3>1 DEF Tasks
  <2>3. task[t].at = "insert" /\ task[t].op = "status" /\ Drops(t, "reg")
    BY <1>6 DEF Inserts, At, Op
  <2>4. /\ Claim(task[t], "reg") = "w" /\ Claim(r, "reg") = "-"
        /\ Claim(task[t], "snap") = "r" /\ Claim(r, "snap") = "r"
        /\ GoesOnKeeping(t, r, "snap")
        /\ Adopter(r)
    BY <2>2, <2>3, TaskAdopts DEF Claim, Keeps, Adopter, GoesOnKeeping
  <2> QED BY <2>1, <2>3, <2>4, Dropping DEF Lock
<1> QED BY <1>1, <1>2, <1>3, <1>4, <1>5, <1>6 DEF Inserts

LEMMA StoppingInLine ==
  ASSUME Inv, Orderly, NEW t \in Task, ServeStop(t) \/ ServeRestart(t) \/ ServeReload(t)
  PROVE  Orderly'
<1>1. CASE ServeStop(t)
  <2>1. Ends(t) /\ Drops(t, "reg") /\ task[t].at = "lookup" /\ task[t].op = "stop"
    BY <1>1 DEF ServeStop, Finds, At, Op
  <2>2. Claim(task[t], "reg") # "-" /\ Claim(task[t], "snap") = "-"
    BY <2>1 DEF Claim, PortOps
  <2> QED BY <2>1, <2>2, Parting DEF Lock
<1>2. CASE ServeRestart(t) /\ Goes(t, [task[t] EXCEPT !.at = "load"]) /\ Swaps(t, "reg", "reg", "r")
  <2>1. PICK r : Goes(t, r) /\ r = [task[t] EXCEPT !.at = "load"]
    BY <1>2 DEF ServeRestart
  <2>2. r.at = "load" /\ r.op = task[t].op
    <3>1. task[t] \in Tasks
      BY Relies
    <3> QED BY <2>1, <3>1 DEF Tasks
  <2>3. task[t].at = "lookup" /\ task[t].op = "restart" /\ Swaps(t, "reg", "reg", "r")
    BY <1>2 DEF ServeRestart, Finds, At, Op
  <2>4. /\ Claim(task[t], "reg") = "r" /\ Claim(r, "reg") = "r"
        /\ ~Keeps(r, "reg")
        /\ Claim(task[t], "snap") = "-" /\ Claim(r, "snap") = "-"
        /\ GoesOnKeeping(t, r, "snap")
        /\ Adopter(r)
    BY <2>2, <2>3, TaskAdopts DEF Claim, Keeps, Adopter, GoesOnKeeping
  <2> QED BY <2>1, <2>3, <2>4, Renewing DEF Lock
<1>3. CASE ServeRestart(t) /\ Ends(t) /\ Drops(t, "reg")
  <2>1. Ends(t) /\ Drops(t, "reg") /\ task[t].at = "lookup" /\ task[t].op = "restart"
    BY <1>3 DEF ServeRestart, Finds, At, Op
  <2>2. Claim(task[t], "reg") # "-" /\ Claim(task[t], "snap") = "-"
    BY <2>1 DEF Claim, PortOps
  <2> QED BY <2>1, <2>2, Parting DEF Lock
<1>4. CASE ServeReload(t)
  <2>1. Ends(t) /\ Drops(t, "reg") /\ task[t].at = "lookup" /\ task[t].op = "reload"
    BY <1>4 DEF ServeReload, Finds, At, Op
  <2>2. Claim(task[t], "reg") # "-" /\ Claim(task[t], "snap") = "-"
    BY <2>1 DEF Claim, PortOps
  <2> QED BY <2>1, <2>2, Parting DEF Lock
<1> QED BY <1>1, <1>2, <1>3, <1>4 DEF ServeRestart

LEMMA WalkingInLine ==
  ASSUME Inv, Orderly, NEW t \in Task, Walks(t) \/ (\E k \in Mgr : Visits(t, k)) \/ WalkEnds(t)
  PROVE  Orderly'
<1>1. CASE Walks(t)
  <2>1. PICK r : Goes(t, r) /\ r = [task[t] EXCEPT !.at = "visiting", !.todo = Registry]
    BY <1>1 DEF Walks
  <2>2. r.at = "visiting" /\ r.op = task[t].op
    <3>1. task[t] \in Tasks
      BY Relies
    <3> QED BY <2>1, <3>1 DEF Tasks
  <2>3. task[t].at = "lookup" /\ Holds(t, "reg") /\ UNCHANGED queue /\ Op(t) \in {"status", "serving", "strike", "gate", "poll"}
    BY <1>1 DEF Walks, At
  <2>4. /\ Claim(r, "reg") = Claim(task[t], "reg")
        /\ GoesOnKeeping(t, r, "reg")
        /\ Claim(r, "snap") = Claim(task[t], "snap")
        /\ GoesOnKeeping(t, r, "snap")
        /\ Adopter(r)
    BY <2>2, <2>3, TaskAdopts DEF Claim, Keeps, Adopter, GoesOnKeeping
  <2> QED BY <2>1, <2>3, <2>4, Keeping DEF Lock
<1>2. CASE \E k \in Mgr : Visits(t, k)
  <2>0. PICK k \in Mgr : Goes(t, [task[t] EXCEPT !.todo = task[t].todo \ {k}])
    BY <1>2 DEF Visits
  <2>1. PICK r : Goes(t, r) /\ r = [task[t] EXCEPT !.todo = task[t].todo \ {k}]
    BY <2>0
  <2>2. r.at = task[t].at /\ r.op = task[t].op
    <3>1. task[t] \in Tasks
      BY Relies
    <3> QED BY <2>1, <3>1 DEF Tasks
  <2>3. task[t].at = "visiting" /\ UNCHANGED queue
    BY <1>2 DEF Visits, At
  <2>4. /\ Claim(r, "reg") = Claim(task[t], "reg")
        /\ GoesOnKeeping(t, r, "reg")
        /\ Claim(r, "snap") = Claim(task[t], "snap")
        /\ GoesOnKeeping(t, r, "snap")
        /\ Adopter(r)
    BY <2>2, <2>3, TaskAdopts DEF Claim, Keeps, Adopter, GoesOnKeeping
  <2> QED BY <2>1, <2>3, <2>4, Keeping DEF Lock
<1>3. CASE WalkEnds(t) /\ (Op(t) = "strike" \/ (Op(t) = "status" /\ task[t].again))
  <2>1. Ends(t) /\ Drops(t, "reg") /\ task[t].at = "visiting" /\ task[t].op \in {"strike", "status"}
    BY <1>3 DEF WalkEnds, Op
  <2>2. Claim(task[t], "reg") # "-" /\ Claim(task[t], "snap") = "-"
    BY <2>1 DEF Claim, PortOps
  <2> QED BY <2>1, <2>2, Parting DEF Lock
<1>4. CASE WalkEnds(t) /\ (Op(t) = "serving" \/ (Op(t) = "status" /\ ~task[t].again))
  <2>1. PICK r : Goes(t, r) /\ r = [task[t] EXCEPT !.at = "snapshot"]
    BY <1>4 DEF WalkEnds
  <2>2. r.at = "snapshot" /\ r.op = task[t].op
    <3>1. task[t] \in Tasks
      BY Relies
    <3> QED BY <2>1, <3>1 DEF Tasks
  <2>3. task[t].at = "visiting" /\ task[t].op \in {"serving", "status"} /\ Swaps(t, "reg", "snap", "r")
    BY <1>4 DEF WalkEnds, Op
  <2>4. /\ Claim(task[t], "reg") = "r" /\ Claim(r, "reg") = "-"
        /\ Claim(task[t], "snap") = "-" /\ Claim(r, "snap") = "r"
        /\ ~Keeps(r, "snap")
        /\ Adopter(r)
    BY <2>2, <2>3, TaskAdopts DEF Claim, Keeps, Adopter, GoesOnKeeping
  <2> QED BY <2>1, <2>3, <2>4, Swapping DEF Lock
<1>5. CASE WalkEnds(t) /\ Op(t) = "gate"
  <2>1. PICK r : Goes(t, r) /\ r = Idle(IF t = Poll THEN "poll" ELSE "metrics")
    BY <1>5 DEF WalkEnds, Ends
  <2>2. r.at = "idle"
    BY <2>1 DEF Idle
  <2>3. task[t].at = "visiting" /\ task[t].op = "gate"
        /\ queue' = Given(Given(queue, "reg", t), "snap", t)
    BY <1>5 DEF WalkEnds, Op
  <2>4. Adopter(r) /\ \A k \in Lock : Claim(task[t], k) # "-" /\ Claim(r, k) = "-"
    BY <2>2, <2>3 DEF Claim, Adopter, Lock
  <2> QED BY <2>1, <2>3, <2>4, DroppingBoth
<1>6. CASE WalkEnds(t) /\ Op(t) = "poll"
  <2>1. PICK r : Goes(t, r) /\ r = [task[t] EXCEPT !.at = "store"]
    BY <1>6 DEF WalkEnds
  <2>2. r.at = "store" /\ r.op = task[t].op
    <3>1. task[t] \in Tasks
      BY Relies
    <3> QED BY <2>1, <3>1 DEF Tasks
  <2>3. task[t].at = "visiting" /\ task[t].op = "poll" /\ Swaps(t, "reg", "snap", "w")
    BY <1>6 DEF WalkEnds, Op
  <2>4. /\ Claim(task[t], "reg") = "r" /\ Claim(r, "reg") = "-"
        /\ Claim(task[t], "snap") = "-" /\ Claim(r, "snap") = "w"
        /\ ~Keeps(r, "snap")
        /\ Adopter(r)
    BY <2>2, <2>3, TaskAdopts DEF Claim, Keeps, Adopter, GoesOnKeeping
  <2> QED BY <2>1, <2>3, <2>4, Swapping DEF Lock
<1> QED BY <1>1, <1>2, <1>3, <1>4, <1>5, <1>6 DEF WalkEnds

LEMMA AdoptingInLine ==
  ASSUME Inv, Orderly, NEW t \in Task,
         ReadsSnapshot(t) \/ AdoptNext(t) \/ AdoptsExternal(t) \/ AdoptsOnNewPort(t) \/ AdoptEnds(t)
  PROVE  Orderly'
<1>1. CASE ReadsSnapshot(t) /\ Ends(t) /\ Drops(t, "snap")
  <2>1. Ends(t) /\ Drops(t, "snap") /\ task[t].at = "snapshot"
    BY <1>1 DEF ReadsSnapshot, At, Op
  <2>2. Claim(task[t], "snap") # "-" /\ Claim(task[t], "reg") = "-"
    BY <2>1 DEF Claim, PortOps
  <2> QED BY <2>1, <2>2, Parting DEF Lock
<1>2. CASE ReadsSnapshot(t) /\ Op(t) = "gate" /\ snap
  <2>1. PICK r : Goes(t, r) /\ r = [task[t] EXCEPT !.at = "lookup"]
    BY <1>2 DEF ReadsSnapshot
  <2>2. r.at = "lookup" /\ r.op = task[t].op
    <3>1. task[t] \in Tasks
      BY Relies
    <3> QED BY <2>1, <3>1 DEF Tasks
  <2>3. task[t].at = "snapshot" /\ task[t].op = "gate" /\ Holds(t, "snap") /\ Takes(t, "reg", "r")
    BY <1>2 DEF ReadsSnapshot, At, Op
  <2>4. /\ Claim(task[t], "reg") = "-" /\ Claim(r, "reg") = "r"
        /\ ~Keeps(r, "reg")
        /\ Claim(task[t], "snap") = "r" /\ Claim(r, "snap") = "r"
        /\ GoesOnKeeping(t, r, "snap")
        /\ Adopter(r)
    BY <2>2, <2>3, TaskAdopts DEF Claim, Keeps, Adopter, GoesOnKeeping
  <2> QED BY <2>1, <2>3, <2>4, Taking DEF Lock
<1>3. CASE ReadsSnapshot(t) /\ Op(t) = "status"
  <2>0. PICK ports \in IF snap THEN SUBSET Port ELSE {{}} : Goes(t, [task[t] EXCEPT !.at = "adopting", !.ports = ports])
    BY <1>3 DEF ReadsSnapshot
  <2>1. PICK r : Goes(t, r) /\ r = [task[t] EXCEPT !.at = "adopting", !.ports = ports]
    BY <2>0
  <2>2. r.at = "adopting" /\ r.op = task[t].op
    <3>1. task[t] \in Tasks
      BY Relies
    <3> QED BY <2>1, <3>1 DEF Tasks
  <2>3. task[t].at = "snapshot" /\ task[t].op = "status" /\ Holds(t, "snap") /\ UNCHANGED queue
    BY <1>3 DEF ReadsSnapshot, At, Op
  <2>4. /\ Claim(r, "reg") = Claim(task[t], "reg")
        /\ GoesOnKeeping(t, r, "reg")
        /\ Claim(r, "snap") = Claim(task[t], "snap")
        /\ GoesOnKeeping(t, r, "snap")
        /\ Adopter(r)
    BY <2>2, <2>3, TaskAdopts DEF Claim, Keeps, Adopter, GoesOnKeeping
  <2> QED BY <2>1, <2>3, <2>4, Keeping DEF Lock
<1>4. CASE AdoptNext(t)
  <2>0. PICK p \in task[t].ports : Goes(t, [task[t] EXCEPT !.at = "find", !.port = p, !.ports = task[t].ports \ {p}])
    BY <1>4 DEF AdoptNext
  <2>1. PICK r : Goes(t, r) /\ r = [task[t] EXCEPT !.at = "find", !.port = p, !.ports = task[t].ports \ {p}]
    BY <2>0
  <2>2. r.at = "find" /\ r.op = task[t].op
    <3>1. task[t] \in Tasks
      BY Relies
    <3> QED BY <2>1, <3>1 DEF Tasks
  <2>3. task[t].at = "adopting" /\ Takes(t, "reg", "r")
    BY <1>4 DEF AdoptNext, At, Op
  <2>4. /\ Claim(task[t], "reg") = "-" /\ Claim(r, "reg") = "r"
        /\ ~Keeps(r, "reg")
        /\ Claim(task[t], "snap") = "r" /\ Claim(r, "snap") = "r"
        /\ GoesOnKeeping(t, r, "snap")
        /\ Adopter(r)
    BY <2>2, <2>3, TaskAdopts DEF Claim, Keeps, Adopter, GoesOnKeeping
  <2> QED BY <2>1, <2>3, <2>4, Taking DEF Lock
<1>5. CASE AdoptsExternal(t)
  <2>1. PICK r : Goes(t, r) /\ r = [task[t] EXCEPT !.at = "adopting"]
    BY <1>5 DEF AdoptsExternal
  <2>2. r.at = "adopting" /\ r.op = task[t].op
    <3>1. task[t] \in Tasks
      BY Relies
    <3> QED BY <2>1, <3>1 DEF Tasks
  <2>3. task[t].at = "find" /\ Drops(t, "reg")
    BY <1>5 DEF AdoptsExternal, At, Op
  <2>4. /\ Claim(task[t], "reg") = "r" /\ Claim(r, "reg") = "-"
        /\ Claim(task[t], "snap") = "r" /\ Claim(r, "snap") = "r"
        /\ GoesOnKeeping(t, r, "snap")
        /\ Adopter(r)
    BY <2>2, <2>3, TaskAdopts DEF Claim, Keeps, Adopter, GoesOnKeeping
  <2> QED BY <2>1, <2>3, <2>4, Dropping DEF Lock
<1>6. CASE AdoptsOnNewPort(t)
  <2>0. PICK k \in Fresh : Goes(t, [task[t] EXCEPT !.at = "insert", !.m = k])
    BY <1>6 DEF AdoptsOnNewPort
  <2>1. PICK r : Goes(t, r) /\ r = [task[t] EXCEPT !.at = "insert", !.m = k]
    BY <2>0
  <2>2. r.at = "insert" /\ r.op = task[t].op
    <3>1. task[t] \in Tasks
      BY Relies
    <3> QED BY <2>1, <3>1 DEF Tasks
  <2>3. task[t].at = "find" /\ Swaps(t, "reg", "reg", "w")
    BY <1>6 DEF AdoptsOnNewPort, At, Op
  <2>4. /\ Claim(task[t], "reg") = "r" /\ Claim(r, "reg") = "w"
        /\ ~Keeps(r, "reg")
        /\ Claim(task[t], "snap") = "r" /\ Claim(r, "snap") = "r"
        /\ GoesOnKeeping(t, r, "snap")
        /\ Adopter(r)
    BY <2>2, <2>3, TaskAdopts DEF Claim, Keeps, Adopter, GoesOnKeeping
  <2> QED BY <2>1, <2>3, <2>4, Renewing DEF Lock
<1>7. CASE AdoptEnds(t)
  <2>1. PICK r : Goes(t, r) /\ r = [Idle("status") EXCEPT !.at = "lookup", !.again = TRUE]
    BY <1>7 DEF AdoptEnds
  <2>2. r.at = "lookup" /\ r.op = "status"
    BY <2>1 DEF Idle
  <2>3. task[t].at = "adopting" /\ Swaps(t, "snap", "reg", "r")
    BY <1>7 DEF AdoptEnds, At, Op
  <2>4. /\ Claim(task[t], "reg") = "-" /\ Claim(r, "reg") = "r"
        /\ ~Keeps(r, "reg")
        /\ Claim(task[t], "snap") = "r" /\ Claim(r, "snap") = "-"
        /\ Adopter(r)
    BY <2>2, <2>3, TaskAdopts DEF Claim, Keeps, Adopter, GoesOnKeeping
  <2> QED BY <2>1, <2>3, <2>4, Swapping DEF Lock
<1>8. ReadsSnapshot(t) => \/ Ends(t) /\ Drops(t, "snap")
                          \/ Op(t) = "gate" /\ snap
                          \/ Op(t) = "status"
  BY DEF ReadsSnapshot
<1> QED BY <1>1, <1>2, <1>3, <1>4, <1>5, <1>6, <1>7, <1>8

LEMMA ResettingInLine ==
  ASSUME Inv, Orderly, NEW t \in Task,
         ResetBegins(t) \/ ResetNext(t) \/ ResetStops(t) \/ ResetKills(t) \/ ResetWaits(t)
  PROVE  Orderly'
<1>1. CASE ResetBegins(t)
  <2>1. PICK r : Goes(t, r) /\ r = [task[t] EXCEPT !.at = "resetting", !.ports = {p \in Port : reg[p] # NoMgr}]
    BY <1>1 DEF ResetBegins
  <2>2. r.at = "resetting" /\ r.op = task[t].op
    <3>1. task[t] \in Tasks
      BY Relies
    <3> QED BY <2>1, <3>1 DEF Tasks
  <2>3. task[t].at = "lookup" /\ task[t].op = "reset" /\ Drops(t, "reg")
    BY <1>1 DEF ResetBegins, At, Op
  <2>4. /\ Claim(task[t], "reg") = "r" /\ Claim(r, "reg") = "-"
        /\ Claim(task[t], "snap") = "-" /\ Claim(r, "snap") = "-"
        /\ GoesOnKeeping(t, r, "snap")
        /\ Adopter(r)
    BY <2>2, <2>3, TaskAdopts DEF Claim, Keeps, Adopter, GoesOnKeeping
  <2> QED BY <2>1, <2>3, <2>4, Dropping DEF Lock
<1>2. CASE ResetNext(t)
  <2>0. PICK p \in task[t].ports : Goes(t, [task[t] EXCEPT !.at = "stopping", !.port = p, !.ports = task[t].ports \ {p}])
    BY <1>2 DEF ResetNext
  <2>1. PICK r : Goes(t, r) /\ r = [task[t] EXCEPT !.at = "stopping", !.port = p, !.ports = task[t].ports \ {p}]
    BY <2>0
  <2>2. r.at = "stopping" /\ r.op = task[t].op
    <3>1. task[t] \in Tasks
      BY Relies
    <3> QED BY <2>1, <3>1 DEF Tasks
  <2>3. task[t].at = "resetting" /\ Takes(t, "reg", "r")
    BY <1>2 DEF ResetNext, At, Op
  <2>4. /\ Claim(task[t], "reg") = "-" /\ Claim(r, "reg") = "r"
        /\ ~Keeps(r, "reg")
        /\ Claim(task[t], "snap") = "-" /\ Claim(r, "snap") = "-"
        /\ GoesOnKeeping(t, r, "snap")
        /\ Adopter(r)
    BY <2>2, <2>3, TaskAdopts DEF Claim, Keeps, Adopter, GoesOnKeeping
  <2> QED BY <2>1, <2>3, <2>4, Taking DEF Lock
<1>3. CASE ResetStops(t)
  <2>1. PICK r : Goes(t, r) /\ r = [task[t] EXCEPT !.at = "resetting", !.port = NoPort]
    BY <1>3 DEF ResetStops
  <2>2. r.at = "resetting" /\ r.op = task[t].op
    <3>1. task[t] \in Tasks
      BY Relies
    <3> QED BY <2>1, <3>1 DEF Tasks
  <2>3. task[t].at = "stopping" /\ Drops(t, "reg")
    BY <1>3 DEF ResetStops, At, Op
  <2>4. /\ Claim(task[t], "reg") = "r" /\ Claim(r, "reg") = "-"
        /\ Claim(task[t], "snap") = "-" /\ Claim(r, "snap") = "-"
        /\ GoesOnKeeping(t, r, "snap")
        /\ Adopter(r)
    BY <2>2, <2>3, TaskAdopts DEF Claim, Keeps, Adopter, GoesOnKeeping
  <2> QED BY <2>1, <2>3, <2>4, Dropping DEF Lock
<1>4. CASE ResetKills(t)
  <2>1. PICK r : Goes(t, r) /\ r = [task[t] EXCEPT !.at = "snapshot"]
    BY <1>4 DEF ResetKills
  <2>2. r.at = "snapshot" /\ r.op = task[t].op
    <3>1. task[t] \in Tasks
      BY Relies
    <3> QED BY <2>1, <3>1 DEF Tasks
  <2>3. task[t].at = "resetting" /\ Takes(t, "snap", "r")
    BY <1>4 DEF ResetKills, At, Op
  <2>4. /\ Claim(task[t], "reg") = "-" /\ Claim(r, "reg") = "-"
        /\ GoesOnKeeping(t, r, "reg")
        /\ Claim(task[t], "snap") = "-" /\ Claim(r, "snap") = "r"
        /\ ~Keeps(r, "snap")
        /\ Adopter(r)
    BY <2>2, <2>3, TaskAdopts DEF Claim, Keeps, Adopter, GoesOnKeeping
  <2> QED BY <2>1, <2>3, <2>4, Taking DEF Lock
<1>5. CASE ResetWaits(t) /\ Goes(t, [task[t] EXCEPT !.again = TRUE]) /\ Swaps(t, "snap", "snap", "r")
  <2>1. PICK r : Goes(t, r) /\ r = [task[t] EXCEPT !.again = TRUE]
    BY <1>5 DEF ResetWaits
  <2>2. r.at = task[t].at /\ r.op = task[t].op
    <3>1. task[t] \in Tasks
      BY Relies
    <3> QED BY <2>1, <3>1 DEF Tasks
  <2>3. task[t].at = "snapshot" /\ Swaps(t, "snap", "snap", "r")
    BY <1>5 DEF ResetWaits, At, Op
  <2>4. /\ Claim(task[t], "reg") = "-" /\ Claim(r, "reg") = "-"
        /\ GoesOnKeeping(t, r, "reg")
        /\ Claim(task[t], "snap") = "r" /\ Claim(r, "snap") = "r"
        /\ ~Keeps(r, "snap")
        /\ Adopter(r)
    BY <2>2, <2>3, TaskAdopts DEF Claim, Keeps, Adopter, GoesOnKeeping
  <2> QED BY <2>1, <2>3, <2>4, Renewing DEF Lock
<1>6. CASE ResetWaits(t) /\ Ends(t) /\ Drops(t, "snap")
  <2>1. Ends(t) /\ Drops(t, "snap") /\ task[t].at = "snapshot"
    BY <1>6 DEF ResetWaits, At, Op
  <2>2. Claim(task[t], "snap") # "-" /\ Claim(task[t], "reg") = "-"
    BY <2>1 DEF Claim, PortOps
  <2> QED BY <2>1, <2>2, Parting DEF Lock
<1> QED BY <1>1, <1>2, <1>3, <1>4, <1>5, <1>6 DEF ResetWaits

-----------------------------------------------------------------------------
(* The poll loop, and what moves no task.                                  *)
LEMMA PollingInLine ==
  ASSUME Inv, Orderly, PollRuns
  PROVE  Orderly'
<1>1. Poll \in Task
  BY DEF Task
<1>2. CASE PollCollects
  <2>1. PICK r : Goes(Poll, r) /\ r = [Idle("poll") EXCEPT !.at = "lookup"]
    BY <1>2 DEF PollCollects
  <2>2. r.at = "lookup" /\ r.op = "poll"
    BY <2>1 DEF Idle
  <2>3. task[Poll].at = "idle" /\ Takes(Poll, "reg", "r")
    BY <1>2 DEF PollCollects
  <2> QED BY <1>1, <2>1, <2>2, <2>3, ArrivingInLine
<1>3. CASE PollStores
  <2>1. Ends(Poll) /\ Drops(Poll, "snap") /\ task[Poll].at = "store"
    BY <1>3 DEF PollStores, At
  <2>2. Claim(task[Poll], "snap") # "-" /\ Claim(task[Poll], "reg") = "-"
    BY <2>1 DEF Claim
  <2> QED BY <1>1, <2>1, <2>2, Parting DEF Lock
<1> QED BY <1>2, <1>3 DEF PollRuns

LEMMA RequestsInLine ==
  ASSUME Inv, Orderly, NEW t \in Handler, MapRequest(t) \/ SnapshotRequest(t)
  PROVE  Orderly'
<1>1. t \in Task
  BY DEF Task
<1>2. CASE MapRequest(t)
  <2>1. PICK a \in Asks[t] : /\ a[1] \in PortOps \cup MapOps
                             /\ Goes(t, [Idle(a[1]) EXCEPT !.at = "lookup", !.port = a[2]])
    BY <1>2 DEF MapRequest, Arrives
  <2>2. PICK r : Goes(t, r) /\ r = [Idle(a[1]) EXCEPT !.at = "lookup", !.port = a[2]]
    BY <2>1
  <2>3. task[t].at = "idle" /\ Takes(t, "reg", "r")
    BY <1>2 DEF MapRequest, Arrives
  <2>4. r.at = "lookup" /\ r.op = a[1]
    BY <2>2 DEF Idle
  <2> QED BY <1>1, <2>1, <2>2, <2>3, <2>4, ArrivingInLine
<1>3. CASE SnapshotRequest(t)
  <2>1. PICK a \in Asks[t] : /\ a[1] \in SnapshotOps
                             /\ Goes(t, [Idle(a[1]) EXCEPT !.at = "snapshot", !.port = a[2]])
    BY <1>3 DEF SnapshotRequest, Arrives
  <2>2. PICK r : Goes(t, r) /\ r = [Idle(a[1]) EXCEPT !.at = "snapshot", !.port = a[2]]
    BY <2>1
  <2>3. task[t].at = "idle" /\ Takes(t, "snap", "r")
    BY <1>3 DEF SnapshotRequest, Arrives
  <2>4. r.at = "snapshot" /\ r.op = a[1]
    BY <2>2 DEF Idle
  <2> QED BY <1>1, <2>1, <2>2, <2>3, <2>4, ArrivingInLine
<1> QED BY <1>2, <1>3

LEMMA StandingStill == ASSUME Orderly, UNCHANGED <<queue, task>> PROVE Orderly'
BY DEF Orderly, Adopter, Claim, Keeps

(* What managers do leaves them one of the three.                          *)
MgrOK == mgr \in [Mgr -> Managers]

LEMMA ManagersStayTyped ==
  ASSUME MgrOK, snap \in BOOLEAN, Inv, [Next]_vars
  PROVE  MgrOK' /\ snap' \in BOOLEAN
<1> USE DEF MgrOK, Managers
<1>1. ASSUME NEW k, Loads(k) \/ Stops(k) \/ Adopts(k) PROVE MgrOK'
  BY <1>1 DEF Loads, Stops, Adopts
<1>2. CASE \E t \in Handler : MapRequest(t) \/ SnapshotRequest(t)
  BY <1>2 DEF MapRequest, SnapshotRequest, Arrives
<1>3. CASE \E t \in Task : Runs(t)
  <2>1. PICK t \in Task : Runs(t)
    BY <1>3
  <2>2. CASE LoadFinds(t) \/ NotFound(t) \/ Walks(t) \/ WalkEnds(t) \/ ReadsSnapshot(t)
             \/ AdoptNext(t) \/ AdoptEnds(t)
             \/ ResetBegins(t) \/ ResetNext(t) \/ ResetKills(t) \/ ResetWaits(t)
    BY <2>2 DEF LoadFinds, NotFound, Walks, WalkEnds, ReadsSnapshot, AdoptNext, AdoptEnds,
                ResetBegins, ResetNext, ResetKills, ResetWaits
  <2>3. CASE LoadMakes(t)
    BY <2>3 DEF LoadMakes
  <2>4. CASE Inserts(t)
    BY <2>4 DEF Inserts
  <2>5. CASE LoadLoads(t) \/ ServeStop(t) \/ ServeRestart(t)
    BY <1>1, <2>5 DEF LoadLoads, ServeStop, ServeRestart
  <2>6. CASE ServeReload(t)
    BY <1>1, <2>6 DEF ServeReload
  <2>7. CASE \E k \in Mgr : Visits(t, k)
    BY <1>1, <2>7 DEF Visits
  <2>8. CASE AdoptsExternal(t) \/ ResetStops(t)
    BY <1>1, <2>8 DEF AdoptsExternal, ResetStops
  <2>9. CASE AdoptsOnNewPort(t)
    BY <2>9 DEF AdoptsOnNewPort
  <2> QED BY <2>1, <2>2, <2>3, <2>4, <2>5, <2>6, <2>7, <2>8, <2>9 DEF Runs
<1>4. CASE PollRuns
  BY <1>4 DEF PollRuns, PollCollects, PollStores
<1>5. CASE \E k \in Mgr : LoadSettles(k)
  BY <1>5 DEF LoadSettles
<1>6. CASE UNCHANGED vars
  BY <1>6 DEF vars
<1> QED BY <1>2, <1>3, <1>4, <1>5, <1>6 DEF Next

All == Inv /\ Orderly /\ MgrOK /\ snap \in BOOLEAN

LEMMA InitAll == Init => All
<1> SUFFICES ASSUME Init PROVE All
  OBVIOUS
<1>1. \A t \in Task : task[t].at = "idle"
  BY DEF Init, Idle
<1>2. \A t \in Task : Adopter(task[t]) /\ \A l \in Lock : Claim(task[t], l) = "-" /\ ~Keeps(task[t], l)
  BY <1>1 DEF Adopter, Claim, Keeps
<1>3. \A l \in Lock : queue[l] = <<>>
  BY DEF Init
<1>4. << >> \in Seq(Guard) /\ DOMAIN << >> = {}
  BY EmptySeq
<1>5. Orderly
  <2>1. queue = [l \in Lock |-> queue[l]]
    BY DEF Init
  <2>2. \A l \in Lock : Line(queue[l], [t \in Task |-> Claim(task[t], l)])
    BY <1>2, <1>3, <1>4 DEF Line
  <2> QED BY <1>2, <2>1, <2>2 DEF Orderly
<1>6. MgrOK /\ snap \in BOOLEAN
  BY DEF Init, MgrOK, Managers
<1> QED BY <1>5, <1>6, InitInv DEF All

LEMMA StepsKeepAll == All /\ [Next]_vars => All'
<1> SUFFICES ASSUME All, [Next]_vars PROVE All'
  OBVIOUS
<1> USE DEF All
<1>1. Orderly'
  <2>1. CASE \E t \in Handler : MapRequest(t) \/ SnapshotRequest(t)
    BY <2>1, RequestsInLine
  <2>2. CASE \E t \in Task : Runs(t)
    <3>1. PICK t \in Task : Runs(t)
      BY <2>2
    <3> QED BY <3>1, LoadingInLine, StoppingInLine, WalkingInLine, AdoptingInLine, ResettingInLine
            DEF Runs
  <2>3. CASE PollRuns
    BY <2>3, PollingInLine
  <2>4. CASE \E m \in Mgr : LoadSettles(m)
    BY <2>4, StandingStill DEF LoadSettles
  <2>5. CASE UNCHANGED vars
    BY <2>5, StandingStill DEF vars
  <2> QED BY <2>1, <2>2, <2>3, <2>4, <2>5 DEF Next
<1> QED BY <1>1, StepsKeepInv, ManagersStayTyped

LEMMA AllAlways == Spec => []All
BY InitAll, StepsKeepAll, PTL DEF Spec

-----------------------------------------------------------------------------
(* What the queues say of those who hold a lock.                           *)
LEMMA HasHolds ==
  ASSUME Orderly, NEW l \in Lock, NEW t
  PROVE  HoldsIn(queue[l], t) <=> Holds(t, l)
<1>1. \A i, j \in DOMAIN queue[l] : queue[l][i].task = queue[l][j].task => i = j
  BY DEF Orderly, Line
<1> QED BY <1>1 DEF Holds, HoldsIn

(* In the line of a lock is who claims it, and as he claims it.            *)
LEMMA InLineClaims ==
  ASSUME Inv, Orderly, NEW l \in Lock, NEW i \in DOMAIN queue[l]
  PROVE  /\ queue[l][i].task \in Task /\ queue[l][i].mode \in {"r", "w"}
         /\ queue[l][i].mode = Claim(task[queue[l][i].task], l)
<1>1. PICK P : P = [t \in Task |-> Claim(task[t], l)]
  OBVIOUS
<1>2. PICK q : q = queue[l]
  OBVIOUS
<1>3. Line(q, P)
  BY <1>1, <1>2 DEF Orderly
<1>4. q \in Seq(Guard) /\ q[i].mode = P[q[i].task]
  BY <1>2, <1>3 DEF Line
<1>5. DOMAIN q = 1..Len(q)
  BY <1>4, LenProperties
<1>6. q[i] \in Guard
  BY <1>2, <1>4, <1>5, ElementOfSeq
<1> QED BY <1>1, <1>2, <1>4, <1>6 DEF Guard

-----------------------------------------------------------------------------
(* "manager for port disappeared" is never answered, and a reset stops     *)
(* every port that it has listed: no request takes a manager off the map,  *)
(* and whoever comes back to it has seen one there or has put one in.      *)
THEOREM ManagersNeverDisappear == Spec => []NeverDisappears
<1>1. Inv => NeverDisappears
  BY DEF Inv, Sound, NeverDisappears, Mine
<1> QED BY InitInv, StepsKeepInv, <1>1, PTL DEF Spec

(* The types: what is in a queue is a task, with the mode in which it asks.*)
THEOREM TypesHold == Spec => []TypeOK
<1>1. ASSUME All PROVE TypeOK
  <2>1. \A l \in Lock : queue[l] \in Seq(Guard)
    BY <1>1 DEF All, Orderly, Line
  <2>2. queue \in [Lock -> Seq([task : Task, mode : {"r", "w"}])]
    BY <1>1, <2>1 DEF All, Orderly, Guard
  <2>3. task \in [Task -> Tasks]
    BY <1>1 DEF All, Inv, TaskOK, Sound
  <2> QED BY <1>1, <2>2, <2>3 DEF All, Inv, RegOK, MgrOK, TypeOK
<1> QED BY <1>1, AllAlways, PTL

(* Nobody waits for the snapshot with the map in hand, or with a place in  *)
(* its line: of the two locks the map's is the last to be asked for, and   *)
(* who waits for whom goes in no circle. (serve_status_handler and the     *)
(* gate go from the snapshot to the map; WalkEnds gives up the map.)       *)
MapComesLast == \A t \in Task, i \in DOMAIN queue["reg"] :
                    queue["reg"][i].task = t
                    => \A j \in DOMAIN queue["snap"] : queue["snap"][j].task = t => Holds(t, "snap")

(* No request or poll waits for another that waits for it.                 *)
THEOREM NoCircleOfLocks == Spec => []MapComesLast
<1>1. ASSUME All PROVE MapComesLast
  <2> SUFFICES ASSUME NEW t \in Task, NEW i \in DOMAIN queue["reg"], queue["reg"][i].task = t,
                      NEW j \in DOMAIN queue["snap"], queue["snap"][j].task = t
               PROVE  Holds(t, "snap")
    BY DEF MapComesLast
  <2>1. Claim(task[t], "reg") \in {"r", "w"} /\ Claim(task[t], "snap") \in {"r", "w"}
    BY <1>1, InLineClaims DEF All, Lock
  <2>2. Keeps(task[t], "snap")
    BY <2>1 DEF Claim, Keeps
  <2> QED BY <1>1, <2>2, HasHolds DEF All, Orderly, Lock
<1> QED BY <1>1, AllAlways, PTL

(* A walk over the managers has the map in hand from its first manager to  *)
(* its last; and who puts a manager in, or a snapshot, is alone with it.   *)
WorksWithGuard ==
    /\ \A t \in Task : task[t].at = "visiting" => Holds(t, "reg")
    /\ \A t, u \in Task : task[t].at = "insert" /\ Holds(t, "reg") /\ Holds(u, "reg") => u = t
    /\ \A t, u \in Task : task[t].at = "store" /\ Holds(t, "snap") /\ Holds(u, "snap") => u = t

(* The guards of the map and of the snapshot guard what they are taken for.*)
THEOREM LocksGuard == Spec => []WorksWithGuard
<1>1. ASSUME All PROVE WorksWithGuard
  <2>1. ASSUME NEW t \in Task, task[t].at = "visiting" PROVE Holds(t, "reg")
    BY <1>1, <2>1, HasHolds DEF All, Orderly, Lock, Keeps
  <2>2. ASSUME NEW l \in Lock, NEW t \in Task, NEW u \in Task, Claim(task[t], l) = "w",
               Holds(t, l), Holds(u, l)
        PROVE  u = t
    <3>1. PICK q : q = queue[l]
      OBVIOUS
    <3>2. q \in Seq(Guard) /\ \A i \in DOMAIN q : q[i].mode = Claim(task[q[i].task], l)
      BY <1>1, <3>1, InLineClaims DEF All, Orderly, Line
    <3>3. PICK n \in Nat : DOMAIN q = 1..n
      BY <3>2, LenProperties
    <3>4. PICK i \in 1..n : q[i].task = t /\ (i = 1 \/ \A k \in 1..i : q[k].mode = "r")
      BY <2>2, <3>1, <3>3, HoldsHas DEF HoldsIn
    <3>5. PICK j \in 1..n : q[j].task = u /\ (j = 1 \/ \A k \in 1..j : q[k].mode = "r")
      BY <2>2, <3>1, <3>3, HoldsHas DEF HoldsIn
    <3>6. q[i].mode = "w" /\ i \in 1..i /\ 1 \in 1..j
      BY <2>2, <3>2, <3>3, <3>4, <3>5
    <3>7. i = 1
      BY <3>4, <3>6
    <3> QED BY <3>4, <3>5, <3>6, <3>7
  <2>3. \A t \in Task : /\ task[t].at = "insert" => Claim(task[t], "reg") = "w"
                        /\ task[t].at = "store" => Claim(task[t], "snap") = "w"
    BY DEF Claim
  <2> QED BY <2>1, <2>2, <2>3 DEF WorksWithGuard, Lock
<1> QED BY <1>1, AllAlways, PTL
=============================================================================
