--------------------------- MODULE ManagerRegistry ---------------------------
(***************************************************************************)
(* The map from ports to serve managers, the last metrics snapshot, and    *)
(* everybody who goes through them: the /serve handlers, the benchmark     *)
(* gate and reset, the readers of the snapshot, the emergency stop of the  *)
(* heartbeat and the poll loop (src/src/daemon.rs, daemon_startup.rs).     *)
(*                                                                         *)
(* The map and the snapshot are behind tokio locks, which serve tasks in   *)
(* the order in which they ask: a writer that waits keeps the readers      *)
(* behind it waiting. A step of a task is what it does from one await to   *)
(* the next; `at` is the await it is at, with its place in a queue taken.  *)
(*                                                                         *)
(* A manager is what ServeLifecycle says of it, and no more. Its own lock  *)
(* is held for a step at a time. (It need not come back: EmergencyReaps    *)
(* and TaskReaps of ServeManager wait for a process that may never exit.   *)
(* Who then waits for it here waits for ever with the map, or the snapshot,*)
(* in hand, and everybody else behind him.)                                *)
(***************************************************************************)
EXTENDS Naturals, Sequences, FiniteSets, SequencesExt

CONSTANTS
    Port,
    Managed,    \* managed_ports(): the ports that have a manager from the start
    Mgr,        \* manager objects
    Handler,    \* slots for HTTP requests, and for the heartbeat's stop
    Poll,       \* the poll loop
    NoPort, NoMgr,
    Asks        \* the requests each slot may be used for: <<operation, port>>

PortOps     == {"load", "stop", "restart", "reload"}
MapOps      == {"status", "serving", "strike", "reset"}
SnapshotOps == {"metrics", "gate"}
Requests    == PortOps \X Port \cup (MapOps \cup SnapshotOps) \X {NoPort}

ASSUME RegistryAssumption ==
    /\ Managed \subseteq Port /\ NoPort \notin Port
    /\ NoMgr \notin Mgr /\ Poll \notin Handler
    /\ Asks \in [Handler -> SUBSET Requests]
    /\ \E f \in [Managed -> Mgr] : \A p, q \in Managed : f[p] = f[q] => p = q

Task == Handler \cup {Poll}

VARIABLES
    reg,        \* serve_managers
    mgr,        \* the manager objects, also those that the map has dropped
    snap,       \* is there a snapshot? What it shows is free
    queue,      \* of each lock: who holds it and who waits, in order
    task        \* the requests and the poll loop

vars == <<reg, mgr, snap, queue, task>>

Lock     == {"reg", "snap"}
Managers == {"empty", "loading", "serving"}
Places   == {"idle", "lookup", "insert", "load", "visiting", "snapshot", "adopting",
             "find", "store", "resetting", "stopping"}
Tasks    == [op : PortOps \cup MapOps \cup SnapshotOps \cup {"poll"}, at : Places,
             port : Port \cup {NoPort}, m : Mgr \cup {NoMgr}, todo : SUBSET Mgr,
             ports : SUBSET Port, again : BOOLEAN]

TypeOK ==
    /\ reg \in [Port -> Mgr \cup {NoMgr}]
    /\ mgr \in [Mgr -> Managers]
    /\ snap \in BOOLEAN
    /\ queue \in [Lock -> Seq([task : Task, mode : {"r", "w"}])]
    /\ task \in [Task -> Tasks]

-----------------------------------------------------------------------------
(* tokio::sync::RwLock. A queue begins with the holders of the lock: the   *)
(* writer at its head, or the readers before its first writer.             *)
Holds(t, l) ==
    LET places == {i \in DOMAIN queue[l] : queue[l][i].task = t}
    IN  /\ places # {}
        /\ \A i \in places : i = 1 \/ \A j \in 1..i : queue[l][j].mode = "r"

PlaceIn(line, t)    == CHOOSE i \in DOMAIN line : line[i].task = t
Given(q, l, t)      == [q EXCEPT ![l] = RemoveAt(@, PlaceIn(@, t))]
Asked(q, l, t, how) == [q EXCEPT ![l] = Append(@, [task |-> t, mode |-> how])]

Takes(t, l, how)    == queue' = Asked(queue, l, t, how)
Drops(t, l)         == queue' = Given(queue, l, t)
(* Gives up one lock and asks for another, or anew for the same one.       *)
Swaps(t, l, k, how) == queue' = Asked(Given(queue, l, t), k, t, how)

-----------------------------------------------------------------------------
(* A slot without a request; `again`: the second walk of a status, or the  *)
(* second look of a reset.                                                 *)
Idle(op) == [op |-> op, at |-> "idle", port |-> NoPort, m |-> NoMgr,
             todo |-> {}, ports |-> {}, again |-> FALSE]

(* The managers of the machine's ports are restored before the poll loop   *)
(* and the HTTP server start.                                              *)
Init ==
    /\ LET f == CHOOSE f \in [Managed -> Mgr] : \A p, q \in Managed : f[p] = f[q] => p = q
       IN  /\ reg = [p \in Port |-> IF p \in Managed THEN f[p] ELSE NoMgr]
           /\ mgr = [m \in Mgr |-> IF \E p \in Managed : f[p] = m THEN "loading" ELSE "empty"]
    /\ snap = FALSE
    /\ queue = [l \in Lock |-> <<>>]
    /\ task = [t \in Task |-> Idle(IF t = Poll THEN "poll" ELSE "metrics")]

Registry == {reg[p] : p \in Port} \ {NoMgr}

(* An object that the map does not hold and no request has in its hand; it *)
(* lives on as long as its load does.                                      *)
Stray  == {m \in Mgr : m \notin Registry /\ \A t \in Task : task[t].m # m}
Unused == {m \in Stray : mgr[m] = "empty"}
Fresh  == {m \in Unused : m = CHOOSE x \in Unused : TRUE}

Goes(t, r) == task' = [task EXCEPT ![t] = r]
Ends(t)    == Goes(t, Idle(IF t = Poll THEN "poll" ELSE "metrics"))

(* What managers do when they are called. A stop does not end a load that  *)
(* is under way; a load, or a stop less than ten seconds ago, keeps a      *)
(* manager from adopting a server.                                         *)
Loads(m)  == mgr' = [mgr EXCEPT ![m] = "loading"]
Stops(m)  == mgr' = [mgr EXCEPT ![m] = IF @ = "serving" THEN "empty" ELSE @]
Adopts(m) == \/ UNCHANGED mgr
             \/ mgr[m] # "loading" /\ mgr' = [mgr EXCEPT ![m] = "serving"]

-----------------------------------------------------------------------------
(* Requests come in. Each begins at the map or at the snapshot.            *)
Arrives(t, ops, at, l) ==
    /\ t # Poll /\ task[t].at = "idle"
    /\ \E a \in Asks[t] :
         /\ a[1] \in ops
         /\ Goes(t, [Idle(a[1]) EXCEPT !.at = at, !.port = a[2]])
    /\ Takes(t, l, "r")
    /\ UNCHANGED <<reg, mgr, snap>>

MapRequest(t)      == Arrives(t, PortOps \cup MapOps, "lookup", "reg")
SnapshotRequest(t) == Arrives(t, SnapshotOps, "snapshot", "snap")

At(t, at, l) == task[t].at = at /\ Holds(t, l)
Op(t)        == task[t].op
Mine(t)      == reg[task[t].port]

-----------------------------------------------------------------------------
(* POST /serve/load. The first guard of the map is given up before the     *)
(* manager is made and put in with a second one.                           *)
LoadFinds(t) ==
    /\ At(t, "lookup", "reg") /\ Op(t) = "load" /\ Mine(t) # NoMgr
    /\ Goes(t, [task[t] EXCEPT !.at = "load"])
    /\ Swaps(t, "reg", "reg", "r")
    /\ UNCHANGED <<reg, mgr, snap>>

(* Variant for EveryRequestEnds: the first guard lives to the end of the   *)
(* `if let` around it.                                                     *)
LoadMakesHoldingOn(t) ==
    /\ At(t, "lookup", "reg") /\ Op(t) = "load" /\ Mine(t) = NoMgr
    /\ \E m \in Fresh :
         /\ mgr' = [mgr EXCEPT ![m] = "loading"]
         /\ Goes(t, [task[t] EXCEPT !.at = "insert", !.m = m])
    /\ Takes(t, "reg", "w")
    /\ UNCHANGED <<reg, snap>>

LoadMakes(t) ==
    /\ At(t, "lookup", "reg") /\ Op(t) = "load" /\ Mine(t) = NoMgr
    /\ \E m \in Fresh :
         /\ mgr' = [mgr EXCEPT ![m] = "loading"]
         /\ Goes(t, [task[t] EXCEPT !.at = "insert", !.m = m])
    /\ Swaps(t, "reg", "reg", "w")
    /\ UNCHANGED <<reg, snap>>

(* A load goes on to the load proper, a status to its next process.        *)
Inserts(t) ==
    /\ At(t, "insert", "reg")
    /\ reg' = [reg EXCEPT ![task[t].port] = task[t].m]
    /\ mgr' = [m \in Mgr |-> IF m = Mine(t) /\ mgr[m] = "serving" THEN "empty" ELSE mgr[m]]
    /\ \/ /\ Op(t) = "load"
          /\ Goes(t, [task[t] EXCEPT !.at = "load", !.m = NoMgr])
          /\ Swaps(t, "reg", "reg", "r")
       \/ /\ Op(t) = "status"
          /\ Goes(t, [task[t] EXCEPT !.at = "adopting", !.m = NoMgr])
          /\ Drops(t, "reg")
    /\ UNCHANGED snap

(* Also the last step of a restart.                                        *)
LoadLoads(t) ==
    /\ At(t, "load", "reg")
    /\ Mine(t) # NoMgr
    /\ Loads(Mine(t)) /\ Ends(t) /\ Drops(t, "reg")
    /\ UNCHANGED <<reg, snap>>

(* 404, or "manager for port disappeared".                                 *)
NotFound(t) ==
    /\ At(t, "lookup", "reg") \/ At(t, "load", "reg")
    /\ Op(t) \in {"stop", "restart", "reload"} \/ task[t].at = "load"
    /\ Mine(t) = NoMgr
    /\ Ends(t) /\ Drops(t, "reg")
    /\ UNCHANGED <<reg, mgr, snap>>

Finds(t, op) ==
    /\ At(t, "lookup", "reg") /\ Op(t) = op
    /\ Mine(t) # NoMgr

(* Variant for NeverDisappears: a stop takes the manager off the map.      *)
StopRemoves(t) ==
    /\ Finds(t, "stop")
    /\ Stops(Mine(t)) /\ Ends(t) /\ Drops(t, "reg")
    /\ reg' = [reg EXCEPT ![task[t].port] = NoMgr]
    /\ UNCHANGED snap

ServeStop(t) ==
    /\ Finds(t, "stop")
    /\ Stops(Mine(t)) /\ Ends(t) /\ Drops(t, "reg")
    /\ UNCHANGED <<reg, snap>>

(* With a model to load again, or without one; a server of launchd's comes *)
(* back by itself, and the handler polls its port without a lock.          *)
ServeRestart(t) ==
    /\ Finds(t, "restart")
    /\ Stops(Mine(t))
    /\ \/ /\ Goes(t, [task[t] EXCEPT !.at = "load"]) /\ Swaps(t, "reg", "reg", "r")
       \/ Ends(t) /\ Drops(t, "reg")
    /\ UNCHANGED <<reg, snap>>

ServeReload(t) ==
    /\ Finds(t, "reload")
    /\ Loads(Mine(t)) \/ UNCHANGED mgr
    /\ Ends(t) /\ Drops(t, "reg")
    /\ UNCHANGED <<reg, snap>>

-----------------------------------------------------------------------------
(* Walks over all managers, with the map held from the first to the last:  *)
(* GET /serve/status (twice), /cluster/full, /autoresearch/gate, the       *)
(* emergency stop of the heartbeat, the poll loop.                         *)
(* Variant for TypeOK: the walk goes over the ports, not over the managers.*)
WalksPorts(t) ==
    /\ At(t, "lookup", "reg") /\ Op(t) \in {"status", "serving", "strike", "gate", "poll"}
    /\ Goes(t, [task[t] EXCEPT !.at = "visiting", !.todo = {reg[p] : p \in Port}])
    /\ UNCHANGED <<reg, mgr, snap, queue>>

Walks(t) ==
    /\ At(t, "lookup", "reg") /\ Op(t) \in {"status", "serving", "strike", "gate", "poll"}
    /\ Goes(t, [task[t] EXCEPT !.at = "visiting", !.todo = Registry])
    /\ UNCHANGED <<reg, mgr, snap, queue>>

Visits(t, m) ==
    /\ task[t].at = "visiting" /\ m \in task[t].todo
    /\ Goes(t, [task[t] EXCEPT !.todo = @ \ {m}])
    /\ \/ Op(t) \in {"status", "serving", "gate"} /\ UNCHANGED mgr
       \/ Op(t) = "strike" /\ Stops(m)
       \/ Op(t) = "poll" /\ Adopts(m)  \* check_port_recovery, check_port_adoption
    /\ UNCHANGED <<reg, snap, queue>>

WalkEnds(t) ==
    /\ task[t].at = "visiting" /\ task[t].todo = {}
    /\ \/ /\ Op(t) = "strike" \/ (Op(t) = "status" /\ task[t].again)
          /\ Ends(t) /\ Drops(t, "reg")
       \/ /\ Op(t) = "serving" \/ (Op(t) = "status" /\ ~task[t].again)
          /\ Goes(t, [task[t] EXCEPT !.at = "snapshot"])
          /\ Swaps(t, "reg", "snap", "r")
       \/ /\ Op(t) = "gate"
          /\ Ends(t) /\ queue' = Given(Given(queue, "reg", t), "snap", t)
       \/ /\ Op(t) = "poll"
          /\ Goes(t, [task[t] EXCEPT !.at = "store"])
          /\ Swaps(t, "reg", "snap", "w")
    /\ UNCHANGED <<reg, mgr, snap>>

-----------------------------------------------------------------------------
(* Readers of the snapshot: /metrics and its kin, the watchdog; the second *)
(* half of /cluster/full; the gate, which goes on to the map with the      *)
(* snapshot in its hand, and adopt_unmanaged, which does so many times.    *)
ReadsSnapshot(t) ==
    /\ At(t, "snapshot", "snap") /\ Op(t) # "reset"
    /\ \/ /\ Op(t) \in {"metrics", "serving"} \/ (Op(t) = "gate" /\ ~snap)
          /\ Ends(t) /\ Drops(t, "snap")
       \/ /\ Op(t) = "gate" /\ snap
          /\ Goes(t, [task[t] EXCEPT !.at = "lookup"])
          /\ Takes(t, "reg", "r")
       \/ /\ Op(t) = "status"
          /\ \E ports \in IF snap THEN SUBSET Port ELSE {{}} :
               Goes(t, [task[t] EXCEPT !.at = "adopting", !.ports = ports])
          /\ UNCHANGED queue
    /\ UNCHANGED <<reg, mgr, snap>>

AdoptNext(t) ==
    /\ task[t].at = "adopting"
    /\ \E p \in task[t].ports :
         Goes(t, [task[t] EXCEPT !.at = "find", !.port = p, !.ports = @ \ {p}])
    /\ Takes(t, "reg", "r")
    /\ UNCHANGED <<reg, mgr, snap>>

AdoptsExternal(t) ==
    /\ At(t, "find", "reg") /\ Mine(t) # NoMgr
    /\ Adopts(Mine(t))
    /\ Goes(t, [task[t] EXCEPT !.at = "adopting"])
    /\ Drops(t, "reg")
    /\ UNCHANGED <<reg, snap>>

AdoptsOnNewPort(t) ==
    /\ At(t, "find", "reg") /\ Mine(t) = NoMgr
    /\ \E m \in Fresh :
         /\ mgr' = [mgr EXCEPT ![m] = "serving"]
         /\ Goes(t, [task[t] EXCEPT !.at = "insert", !.m = m])
    /\ Swaps(t, "reg", "reg", "w")
    /\ UNCHANGED <<reg, snap>>

(* Variant for PollGoesOn: the snapshot is still held when the managers    *)
(* are read again, and after.                                              *)
AdoptEndsHoldingOn(t) ==
    /\ task[t].at = "adopting" /\ task[t].ports = {}
    /\ Goes(t, [Idle("status") EXCEPT !.at = "lookup", !.again = TRUE])
    /\ Takes(t, "reg", "r")
    /\ UNCHANGED <<reg, mgr, snap>>

AdoptEnds(t) ==
    /\ task[t].at = "adopting" /\ task[t].ports = {}
    /\ Goes(t, [Idle("status") EXCEPT !.at = "lookup", !.again = TRUE])
    /\ Swaps(t, "snap", "reg", "r")
    /\ UNCHANGED <<reg, mgr, snap>>

-----------------------------------------------------------------------------
(* POST /autoresearch/reset: the ports that are there now, one by one; then*)
(* pkill, and the snapshot until it shows no server, or until it is late.  *)
ResetBegins(t) ==
    /\ At(t, "lookup", "reg") /\ Op(t) = "reset"
    /\ Goes(t, [task[t] EXCEPT !.at = "resetting", !.ports = {p \in Port : reg[p] # NoMgr}])
    /\ Drops(t, "reg")
    /\ UNCHANGED <<reg, mgr, snap>>

ResetNext(t) ==
    /\ task[t].at = "resetting"
    /\ \E p \in task[t].ports :
         Goes(t, [task[t] EXCEPT !.at = "stopping", !.port = p, !.ports = @ \ {p}])
    /\ Takes(t, "reg", "r")
    /\ UNCHANGED <<reg, mgr, snap>>

ResetStops(t) ==
    /\ At(t, "stopping", "reg")
    /\ IF Mine(t) = NoMgr THEN UNCHANGED mgr
       ELSE Stops(Mine(t))
    /\ Goes(t, [task[t] EXCEPT !.at = "resetting", !.port = NoPort])
    /\ Drops(t, "reg")
    /\ UNCHANGED <<reg, snap>>

ResetKills(t) ==
    /\ task[t].at = "resetting" /\ task[t].ports = {}
    /\ Goes(t, [task[t] EXCEPT !.at = "snapshot"])
    /\ Takes(t, "snap", "r")
    /\ UNCHANGED <<reg, mgr, snap>>

(* Each of its two waits, for the processes and for the temperature, looks *)
(* again until its deadline; here they look once more, or not.             *)
ResetWaits(t) ==
    /\ At(t, "snapshot", "snap") /\ Op(t) = "reset"
    /\ \/ /\ snap /\ ~task[t].again
          /\ Goes(t, [task[t] EXCEPT !.again = TRUE]) /\ Swaps(t, "snap", "snap", "r")
       \/ Ends(t) /\ Drops(t, "snap")
    /\ UNCHANGED <<reg, mgr, snap>>

-----------------------------------------------------------------------------
(* The poll loop: collect, ask every manager to recover or to adopt, store.*)
(* It walks the managers twice, the first time to name what each serves in *)
(* the list of processes; the second walk includes all the first does.     *)
PollCollects ==
    /\ task[Poll].at = "idle"
    /\ Goes(Poll, [Idle("poll") EXCEPT !.at = "lookup"])
    /\ Takes(Poll, "reg", "r")
    /\ UNCHANGED <<reg, mgr, snap>>

PollStores ==
    /\ At(Poll, "store", "snap")
    /\ snap' = TRUE
    /\ Ends(Poll) /\ Drops(Poll, "snap")
    /\ UNCHANGED <<reg, mgr>>

-----------------------------------------------------------------------------
(* A load comes to its end, with a server or without, or another one of    *)
(* the same manager goes on. A stray manager goes with its last load.      *)
LoadSettles(m) ==
    /\ mgr[m] = "loading"
    /\ \E end \in {"empty", "loading", "serving"} :
         mgr' = [mgr EXCEPT ![m] = IF m \in Stray /\ end = "serving" THEN "empty" ELSE end]
    /\ UNCHANGED <<reg, snap, queue, task>>

-----------------------------------------------------------------------------
Runs(t) ==
    \/ LoadFinds(t) \/ LoadMakes(t) \/ Inserts(t) \/ LoadLoads(t) \/ NotFound(t)
    \/ ServeStop(t) \/ ServeRestart(t) \/ ServeReload(t)
    \/ Walks(t) \/ (\E m \in Mgr : Visits(t, m)) \/ WalkEnds(t)
    \/ ReadsSnapshot(t) \/ AdoptNext(t) \/ AdoptsExternal(t) \/ AdoptsOnNewPort(t)
    \/ AdoptEnds(t)
    \/ ResetBegins(t) \/ ResetNext(t) \/ ResetStops(t) \/ ResetKills(t) \/ ResetWaits(t)

PollRuns == PollCollects \/ PollStores

Next ==
    \/ \E t \in Handler : MapRequest(t) \/ SnapshotRequest(t)
    \/ \E t \in Task : Runs(t)
    \/ PollRuns
    \/ \E m \in Mgr : LoadSettles(m)

Spec == Init /\ [][Next]_vars

(* Tokio runs what can run; nothing is assumed of clients and processes.   *)
Fairness == WF_vars(PollRuns) /\ \A t \in Task : WF_vars(Runs(t))
FairSpec == Spec /\ Fairness

-----------------------------------------------------------------------------
(* A request that has found a manager, or put one in, finds one again      *)
(* after it has given up the map: serve_load_handler's "manager for port   *)
(* disappeared" is never answered, and a reset stops every port it listed. *)
NeverDisappears == \A t \in Task : task[t].at \in {"load", "stopping"} => Mine(t) # NoMgr

(* The two locks are asked for in no fixed order, and readers hold one     *)
(* while they wait for the other behind writers: still every request gets  *)
(* its answer, as long as the locks of the managers come back.             *)
EveryRequestEnds == \A t \in Handler : task[t].at # "idle" ~> task[t].at = "idle"

(* The poll loop, which must have the snapshot for itself and every        *)
(* manager once, goes round again and again whatever is asked meanwhile.   *)
PollGoesOn == []<>(task[Poll].at = "idle")

(* daemon.rs:1352, "Get or create a manager for this port": a port that    *)
(* has a manager keeps it, and with it the server the manager looks after. *)
ManagerIsKept == [][\A p \in Port : reg[p] # NoMgr => reg'[p] = reg[p]]_vars
=============================================================================
