---------------------------- MODULE ShareSession ----------------------------
(***************************************************************************)
(* A share session: a model server that spans machines (src/src/serve.rs,  *)
(* src/src/daemon.rs). The hub's ShareManager recruits the peers one after *)
(* the other with POST /serve/distributed/join, each peer starts a worker  *)
(* and gives it to its own ShareManager, and when all have answered the    *)
(* hub starts rank 0, or waits for the machine that has rank 0.            *)
(*                                                                         *)
(* A session is one POST /serve/share. Servers that cannot be killed and   *)
(* the locks they block are the subject of ServeManager; here a kill takes *)
(* effect, and what happens under one hold of a lock is one step.          *)
(***************************************************************************)
EXTENDS Naturals, Sequences

CONSTANTS
    Node,       \* the machines
    Hub,        \* the one whose daemon is asked for sessions
    Session,    \* the sessions a client asks for: bounds their number
    Pid,        \* the process ids of all machines; a pid is on one at a time
    NoPid, NoSession, NoNode,
    Hostfile,   \* the lists of machines a session may ask for, by rank
    Events      \* the events of the environment that a run includes

ASSUME ShareSessionAssumption ==
    /\ Hub \in Node /\ NoNode \notin Node
    /\ NoPid \notin Pid /\ NoSession \notin Session
    /\ Hostfile \subseteq Seq(Node)
    /\ Events \subseteq {"overlap", "late", "exit", "marker", "elsewhere", "crash",
                    "emergency"}

VARIABLES
    mgr,        \* the ShareManager of each machine
    load,       \* the do_share_load task of each session
    join,       \* the join requests, by session and rank
    crew,       \* not in the code: the ranks for which a worker was started
    disk,       \* the hub's share state file: does it name a model?
    log,        \* the hub's share log: does it have a marker of readiness?
    proc        \* the processes

vars == <<mgr, load, join, crew, disk, log, proc>>

MaybePid     == Pid \cup {NoPid}
MaybeSession == Session \cup {NoSession}
Size == {Len(hosts) : hosts \in Hostfile}
Rank == UNION {0 .. n - 1 : n \in Size}

(* session: the one whose model the manager reports.                       *)
Managed == [state : {"Idle", "Loading", "Ready", "Error"}, session : MaybeSession,
            child : MaybePid, pid : MaybePid]

(* How far a load has come.                                                *)
LoadPcs == {"new", "queued", "recruiting", "awaiting", "remote", "spawning",
            "polling", "settling", "failing", "done"}

(* next: the rank to recruit next. failed: a peer_results entry is false.  *)
Loads == [pc : LoadPcs, hosts : Hostfile \cup {<<>>}, next : Nat, failed : BOOLEAN,
          pid : MaybePid, note : {"none", "healthy", "timeout", "error"}]

Joins == [pc : {"none", "sent", "spawned", "ok", "refused", "gone"}, pid : MaybePid]

(* zombie: exited, and its Child handle has not been waited for.           *)
Processes == [status : {"free", "booting", "serving", "zombie"}, node : Node \cup {NoNode},
              session : MaybeSession, rank : Nat]

TypeOK ==
    /\ mgr \in [Node -> Managed]
    /\ load \in [Session -> Loads]
    /\ \A s \in Session : load[s].pc = "awaiting" => load[s].next < Len(load[s].hosts)
    /\ join \in [Session -> [Rank -> Joins]]
    /\ crew \in [Session -> SUBSET Rank]
    /\ disk \in BOOLEAN /\ log \in BOOLEAN
    /\ proc \in [Pid -> Processes]

-----------------------------------------------------------------------------
Fresh   == [state |-> "Idle", session |-> NoSession, child |-> NoPid, pid |-> NoPid]
NotSent == [pc |-> "none", pid |-> NoPid]
Gone    == [status |-> "free", node |-> NoNode, session |-> NoSession, rank |-> 0]

Init ==
    /\ mgr = [n \in Node |-> Fresh]
    /\ load = [s \in Session |-> [pc |-> "new", hosts |-> <<>>, next |-> 0, failed |-> FALSE,
                                  pid |-> NoPid, note |-> "none"]]
    /\ join = [s \in Session |-> [r \in Rank |-> NotSent]]
    /\ crew = [s \in Session |-> {}]
    /\ disk = FALSE /\ log = FALSE
    /\ proc = [p \in Pid |-> Gone]

World(s)     == Len(load[s].hosts)
Host(s, r)   == load[s].hosts[r + 1]
HubIsRank0(s) == Host(s, 0) = Hub
Active(s)    == load[s].pc \notin {"new", "done"}
Live(p)      == proc[p].status \in {"booting", "serving"}

(* Who has the Child handle of p: a manager, a load that waits for it to   *)
(* become ready, a join request that has not handed it over.               *)
Held(p) == \/ \E n \in Node : mgr[n].child = p
           \/ \E s \in Session : load[s].pc \in {"polling", "settling"} /\ load[s].pid = p
           \/ \E s \in Session, r \in Rank : join[s][r].pc = "spawned" /\ join[s][r].pid = p

(* The processes of the machine that answer on the share port.             *)
Answers(n) == \E p \in Pid : proc[p].node = n /\ proc[p].status = "serving"

(* kill_child on the manager of n: the process is killed and reaped.       *)
Killed(n) == [p \in Pid |-> IF p \in {mgr[n].child, mgr[n].pid} THEN Gone ELSE proc[p]]

Spawned(p, n, s, r) == [status |-> "booting", node |-> n, session |-> s, rank |-> r]

-----------------------------------------------------------------------------
(* The hub.                                                                *)

(* POST /serve/share: start() kills, marks, and spawns the task. No hosts: *)
(* the backend is "single".                                                *)
Start(s) ==
    /\ load[s].pc = "new"
    /\ "overlap" \in Events \/ \A t \in Session : ~Active(t)
    /\ proc' = Killed(Hub)
    /\ mgr' = [mgr EXCEPT ![Hub] = [@ EXCEPT !.state = "Loading", !.child = NoPid, !.pid = NoPid]]
    /\ \E hosts \in Hostfile \cup {<<>>} :
          load' = [load EXCEPT ![s] = [@ EXCEPT !.pc = "queued", !.hosts = hosts]]
    /\ UNCHANGED <<join, crew, disk, log>>

(* The task kills once more; do_jaccl_orchestrate wants two hosts at least *)
(* and recruits rank 0 as well unless it is the hub itself.                *)
TaskKills(s) ==
    /\ load[s].pc = "queued"
    /\ proc' = Killed(Hub)
    /\ mgr' = [mgr EXCEPT ![Hub] = [@ EXCEPT !.child = NoPid, !.pid = NoPid]]
    /\ load' = [load EXCEPT ![s] = [@ EXCEPT
          !.pc = IF World(s) = 0 THEN "spawning" ELSE IF World(s) = 1 THEN "failing" ELSE "recruiting",
          !.next = IF World(s) > 1 /\ HubIsRank0(s) THEN 1 ELSE 0]]
    /\ UNCHANGED <<join, crew, disk, log>>

(* The next peer is asked.                                                 *)
Recruits(s) ==
    /\ load[s].pc = "recruiting" /\ load[s].next < World(s)
    /\ join' = [join EXCEPT ![s][load[s].next].pc = "sent"]
    /\ load' = [load EXCEPT ![s].pc = "awaiting"]
    /\ UNCHANGED <<mgr, crew, disk, log, proc>>

Result(s, ok) ==
    LET l == load[s] IN
    load' = [load EXCEPT ![s] = [l EXCEPT !.pc = "recruiting", !.next = l.next + 1,
                                          !.failed = l.failed \/ ~ok]]

(* Variant for RankZeroHasCrew: any answer will do.                        *)
AnsweredSomehow(s) ==
    LET j == join[s][load[s].next] IN
    /\ load[s].pc = "awaiting" /\ j.pc \in {"ok", "refused"}
    /\ Result(s, TRUE)
    /\ UNCHANGED <<mgr, join, crew, disk, log, proc>>

(* It has answered, and the answer is a success or not.                    *)
Answered(s) ==
    LET j == join[s][load[s].next] IN
    /\ load[s].pc = "awaiting" /\ j.pc \in {"ok", "refused"}
    /\ Result(s, j.pc = "ok")
    /\ UNCHANGED <<mgr, join, crew, disk, log, proc>>

(* It has not within ten seconds: it may have done, or do, all the same.   *)
TimesOut(s) ==
    /\ load[s].pc = "awaiting"
    /\ IF "late" \in Events THEN UNCHANGED join
       ELSE /\ join[s][load[s].next].pc = "sent"
            /\ join' = [join EXCEPT ![s][load[s].next].pc = "gone"]
    /\ Result(s, FALSE)
    /\ UNCHANGED <<mgr, crew, disk, log, proc>>

(* All have been asked: rank 0 comes next if no one failed.                *)
CrewIsComplete(s) ==
    /\ load[s].pc = "recruiting" /\ load[s].next = World(s)
    /\ load' = [load EXCEPT ![s].pc = IF load[s].failed THEN "failing"
                                      ELSE IF HubIsRank0(s) THEN "spawning" ELSE "remote"]
    /\ UNCHANGED <<mgr, join, crew, disk, log, proc>>

(* Rank 0 is on another machine: the share port there is polled, until the *)
(* deadline. The worker that was recruited listens on the loopback of that *)
(* machine only, so what answers is a server of its own daemon, which is   *)
(* not modelled. The state file is not written, child and pid stay.        *)
RemoteAnswers(s) ==
    /\ load[s].pc = "remote"
    /\ \/ /\ "elsewhere" \in Events
          /\ mgr' = [mgr EXCEPT ![Hub] = [@ EXCEPT !.state = "Ready", !.session = s]]
       \/ mgr' = [mgr EXCEPT ![Hub].state = "Error"]
    /\ load' = [load EXCEPT ![s].pc = "done"]
    /\ UNCHANGED <<join, crew, disk, log, proc>>

(* Rank 0, or the single server, is spawned here, with an empty log,       *)
(* unless that fails.                                                      *)
Spawns(s) ==
    /\ load[s].pc = "spawning"
    /\ \/ \E p \in Pid :
             /\ proc[p] = Gone
             /\ proc' = [proc EXCEPT ![p] = Spawned(p, Hub, s, 0)]
             /\ load' = [load EXCEPT ![s] = [@ EXCEPT !.pc = "polling", !.pid = p]]
             /\ log' = FALSE
       \/ /\ load' = [load EXCEPT ![s].pc = "failing"]
          /\ log' \in {log, FALSE}
          /\ UNCHANGED proc
    /\ UNCHANGED <<mgr, join, crew, disk>>

(* poll_ready of LogMonitor: an answer on the port or a marker in the log, *)
(* whoever wrote it, an error in the log if there is no such marker, the   *)
(* exit of the child, which is then reaped, or the deadline. The port and  *)
(* the log are those of every server that the hub has spawned.             *)
Polls(s) ==
    LET p == load[s].pid IN
    /\ load[s].pc = "polling"
    /\ \/ /\ \E note \in {"healthy", "timeout", "error"} :
                /\ note = "healthy" => log \/ Answers(Hub)
                /\ note = "error" => "marker" \in Events /\ ~log
                /\ load' = [load EXCEPT ![s] = [@ EXCEPT !.pc = "settling", !.note = note]]
          /\ UNCHANGED proc
       \/ /\ proc[p].status = "zombie"
          /\ proc' = [proc EXCEPT ![p] = Gone]
          /\ load' = [load EXCEPT ![s] = [@ EXCEPT !.pc = "failing", !.pid = NoPid]]
    /\ UNCHANGED <<mgr, join, crew, disk, log>>

(* Variant for ReadyIsSaved: the file is written only once.                *)
SettlesUnsaved(s) ==
    /\ load[s].pc = "settling" /\ load[s].note = "healthy"
    /\ mgr' = [mgr EXCEPT ![Hub] = [state |-> "Ready", session |-> s,
                                    child |-> load[s].pid, pid |-> load[s].pid]]
    /\ disk' = (disk \/ mgr[Hub].session = NoSession)
    /\ load' = [load EXCEPT ![s].pc = "done"]
    /\ proc' = [p \in Pid |-> IF p = mgr[Hub].child /\ proc[p].status = "zombie"
                              THEN Gone ELSE proc[p]]
    /\ UNCHANGED <<join, crew, log>>

(* A handle that is overwritten is dropped, and reaped if it has exited.   *)
SettlesReady(s) ==
    /\ load[s].pc = "settling" /\ load[s].note = "healthy"
    /\ mgr' = [mgr EXCEPT ![Hub] = [state |-> "Ready", session |-> s,
                                    child |-> load[s].pid, pid |-> load[s].pid]]
    /\ disk' = TRUE
    /\ load' = [load EXCEPT ![s].pc = "done"]
    /\ proc' = [p \in Pid |-> IF p = mgr[Hub].child /\ proc[p].status = "zombie"
                              THEN Gone ELSE proc[p]]
    /\ UNCHANGED <<join, crew, log>>

(* After the deadline the child is killed. After a marker it is not.       *)
SettlesError(s) ==
    LET p == load[s].pid IN
    /\ load[s].pc = "settling" /\ load[s].note \in {"timeout", "error"}
    /\ mgr' = [mgr EXCEPT ![Hub].state = "Error"]
    /\ proc' = IF load[s].note = "timeout" \/ ~Live(p)
               THEN [proc EXCEPT ![p] = Gone] ELSE proc
    /\ load' = [load EXCEPT ![s].pc = "done"]
    /\ UNCHANGED <<join, crew, disk, log>>

Fails(s) ==
    /\ load[s].pc = "failing"
    /\ mgr' = [mgr EXCEPT ![Hub].state = "Error"]
    /\ load' = [load EXCEPT ![s].pc = "done"]
    /\ UNCHANGED <<join, crew, disk, log, proc>>

TaskStep(s) ==
    \/ TaskKills(s) \/ Recruits(s) \/ Answered(s) \/ TimesOut(s) \/ CrewIsComplete(s)
    \/ RemoteAnswers(s) \/ Spawns(s) \/ Polls(s) \/ SettlesReady(s) \/ SettlesError(s)
    \/ Fails(s)

-----------------------------------------------------------------------------
(* The peers, which may include the hub.                                   *)

(* serve_distributed_join_handler: a worker is spawned ...                 *)
JoinSpawns(s, r) ==
    /\ join[s][r].pc = "sent"
    /\ \/ \E p \in Pid :
             /\ proc[p] = Gone
             /\ proc' = [proc EXCEPT ![p] = Spawned(p, Host(s, r), s, r)]
             /\ join' = [join EXCEPT ![s][r] = [pc |-> "spawned", pid |-> p]]
             /\ crew' = [crew EXCEPT ![s] = @ \cup {r}]
       \/ /\ join' = [join EXCEPT ![s][r].pc = "refused"]
          /\ UNCHANGED <<proc, crew>>
    /\ UNCHANGED <<mgr, load, disk, log>>

(* Variant for WorkerCanBeStopped: a manager that is not idle keeps what   *)
(* it has.                                                                 *)
JoinAdoptsWhenIdle(s, r) ==
    LET n == Host(s, r) IN
    /\ join[s][r].pc = "spawned"
    /\ mgr' = IF mgr[n].state # "Idle" THEN mgr
              ELSE [mgr EXCEPT ![n] = [state |-> "Loading", session |-> s,
                                       child |-> join[s][r].pid, pid |-> join[s][r].pid]]
    /\ join' = [join EXCEPT ![s][r] = [pc |-> "ok", pid |-> NoPid]]
    /\ UNCHANGED <<load, crew, disk, log, proc>>

(* ... and adopt_child puts it where the manager's child was. Nothing ever *)
(* turns its Loading into Ready.                                           *)
JoinAdopts(s, r) ==
    LET n == Host(s, r) IN
    /\ join[s][r].pc = "spawned"
    /\ mgr' = [mgr EXCEPT ![n] = [state |-> "Loading", session |-> s,
                                  child |-> join[s][r].pid, pid |-> join[s][r].pid]]
    /\ join' = [join EXCEPT ![s][r] = [pc |-> "ok", pid |-> NoPid]]
    /\ proc' = [p \in Pid |-> IF p = mgr[n].child /\ proc[p].status = "zombie"
                              THEN Gone ELSE proc[p]]
    /\ UNCHANGED <<load, crew, disk, log>>

Awaited(s, r) == load[s].pc = "awaiting" /\ load[s].next = r

(* The hub has closed the connection: the handler is dropped where it      *)
(* waits, for the files it writes or for the manager's lock.               *)
JoinDropped(s, r) ==
    /\ "late" \in Events
    /\ join[s][r].pc \in {"sent", "spawned"} /\ ~Awaited(s, r)
    /\ join' = [join EXCEPT ![s][r] = [pc |-> "gone", pid |-> NoPid]]
    /\ proc' = [p \in Pid |-> IF p = join[s][r].pid /\ proc[p].status = "zombie"
                              THEN Gone ELSE proc[p]]
    /\ UNCHANGED <<mgr, load, crew, disk, log>>

(* POST /serve/share/stop, which the session's other machines do not see.  *)
Stop(n) ==
    /\ proc' = Killed(n)
    /\ mgr' = [mgr EXCEPT ![n] = Fresh]
    /\ disk' = (disk /\ n # Hub)
    /\ UNCHANGED <<load, join, crew, log>>

(* emergency_stop, from the heartbeat: the child only, at once.            *)
EmergencyStop(n) ==
    /\ "emergency" \in Events
    /\ proc' = [p \in Pid |-> IF p = mgr[n].child THEN Gone ELSE proc[p]]
    /\ mgr' = [mgr EXCEPT ![n] = [Fresh EXCEPT !.state = "Error"]]
    /\ disk' = (disk /\ n # Hub)
    /\ UNCHANGED <<load, join, crew, log>>

-----------------------------------------------------------------------------
(* The hub's daemon is killed and started again. What it had spawned runs  *)
(* on; a session that the state file names is started as a new one.        *)
Ended(l) == [l EXCEPT !.pc = IF @ = "new" THEN "new" ELSE "done"]

HubRestarts ==
    /\ "crash" \in Events
    /\ proc' = [p \in Pid |-> IF proc[p].status = "zombie" /\ proc[p].node = Hub
                              THEN Gone ELSE proc[p]]
    /\ join' = [s \in Session |-> [r \in Rank |->
                  IF join[s][r].pc \in {"sent", "spawned"} /\ Host(s, r) = Hub
                  THEN [pc |-> "gone", pid |-> NoPid] ELSE join[s][r]]]
    /\ \/ /\ disk
          /\ \E s \in Session, hosts \in Hostfile \cup {<<>>} :
                /\ load[s].pc = "new"
                /\ load' = [t \in Session |-> IF t = s THEN [load[s] EXCEPT !.pc = "queued", !.hosts = hosts]
                                                ELSE Ended(load[t])]
          /\ mgr' = [mgr EXCEPT ![Hub] = [Fresh EXCEPT !.state = "Loading"]]
       \/ /\ ~disk
          /\ load' = [t \in Session |-> Ended(load[t])]
          /\ mgr' = [mgr EXCEPT ![Hub] = Fresh]
    /\ UNCHANGED <<crew, disk, log>>

(* A server comes up when its session is complete and its port is free; a  *)
(* worker never listens. The log is that of the servers of the hub itself. *)
Complete(s) == \A r \in 1 .. World(s) - 1 :
                  \E p \in Pid : Live(p) /\ proc[p].session = s /\ proc[p].rank = r

Boots(p) ==
    /\ proc[p].status = "booting" /\ proc[p].rank = 0
    /\ Complete(proc[p].session) /\ ~Answers(proc[p].node)
    /\ proc' = [proc EXCEPT ![p].status = "serving"]
    /\ log' = (log \/ proc[p].node = Hub)
    /\ UNCHANGED <<mgr, load, join, crew, disk>>

Exits(p) ==
    /\ "exit" \in Events
    /\ Live(p)
    /\ proc' = [proc EXCEPT ![p] = IF Held(p) THEN [@ EXCEPT !.status = "zombie"] ELSE Gone]
    /\ UNCHANGED <<mgr, load, join, crew, disk, log>>

Next ==
    \/ \E s \in Session : Start(s) \/ TaskStep(s)
                          \/ \E r \in Rank : JoinSpawns(s, r) \/ JoinAdopts(s, r) \/ JoinDropped(s, r)
    \/ \E n \in Node : Stop(n) \/ EmergencyStop(n)
    \/ HubRestarts
    \/ \E p \in Pid : Boots(p) \/ Exits(p)

Spec == Init /\ [][Next]_vars

-----------------------------------------------------------------------------
(* Properties.                                                             *)

(* The join handler: "Store in share manager so it can be stopped". A      *)
(* worker on a peer gets out of everybody's reach in two ways only: its    *)
(* request was dropped before it was stored, or the same machine has       *)
(* joined again, as for a session that failed elsewhere.                   *)
JoinsTo(n) == {sr \in Session \X Rank : join[sr[1]][sr[2]].pc = "ok" /\ Host(sr[1], sr[2]) = n}

WorkerCanBeStopped ==
    \A p \in Pid : Live(p) /\ proc[p].rank > 0 /\ proc[p].node # Hub =>
        \/ Held(p)
        \/ join[proc[p].session][proc[p].rank].pc = "gone"
        \/ \E sr \in JoinsTo(proc[p].node) : sr # <<proc[p].session, proc[p].rank>>

(* No session without its crew: when rank 0 is started here, or the hub    *)
(* says Ready, a worker has been started for every other rank, whatever    *)
(* requests failed, came late or were dropped, and whichever sessions ran  *)
(* at the same time.                                                       *)
HasCrew(s) == World(s) > 1 => 1 .. World(s) - 1 \subseteq crew[s]

RankZeroHasCrew ==
    /\ mgr[Hub].state = "Ready" => HasCrew(mgr[Hub].session)
    /\ \A s \in Session : load[s].pc \in {"polling", "settling"} => HasCrew(s)

(* A restart of the hub's daemon brings the session back: while the hub    *)
(* holds a rank 0 that it has reported Ready, the state file names it.     *)
ReadyIsSaved ==
    LET p == mgr[Hub].child IN
    mgr[Hub].state = "Ready" /\ p # NoPid /\ proc[p].rank = 0 => disk
=============================================================================
