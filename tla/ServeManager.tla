---------------------------- MODULE ServeManager ----------------------------
(***************************************************************************)
(* The per-port process manager of the daemon (src/src/serve.rs): one      *)
(* ServeManager guards one port behind a tokio RwLock, detached load tasks *)
(* start a model server on that port, the daemon's poll loop and the       *)
(* status handler adopt servers somebody else started, and a state file    *)
(* lets a restarted daemon bring the last model back.                      *)
(*                                                                         *)
(* A step of this module is what the code does between two points where    *)
(* another task can run: everything done under one hold of the write lock, *)
(* or one probe of the machine made without it.                            *)
(***************************************************************************)
EXTENDS FiniteSets

CONSTANTS
    Model,      \* the model paths a client may ask for
    Pid,        \* the process ids of the machine; an id is reused once free
    Task,       \* slots for detached load tasks: bounds the loads in flight
    NoModel,    \* a server without a model ("bare"), serde's null
    NoPid,
    NoFile,     \* the state file does not exist
    Events      \* the events of the environment that a run includes

EventKinds == {"emergency", "abort", "exit", "wedge", "external", "squatter",
               "alien", "crash", "status", "disconnect"}

ASSUME ServeManagerAssumption ==
    /\ NoModel \notin Model
    /\ NoPid \notin Pid
    /\ NoFile \notin Model \cup {NoModel}
    /\ Events \subseteq EventKinds

VARIABLES
    mgr,        \* ManagedProcess, the record behind the RwLock
    task,       \* the detached do_serve_load tasks
    poll,       \* where the daemon's poll loop is with this manager
    seen,       \* the server the last metrics snapshot shows on this port
    dying,      \* the child whose exit an emergency_stop awaits, lock held
    disk,       \* serve-state-{port}.json
    proc,       \* the machine's processes
    listener,   \* the process whose socket listens on the port
    up          \* is the daemon running?

vars == <<mgr, task, poll, seen, dying, disk, proc, listener, up>>
os   == <<proc, listener>>

MaybeModel == Model \cup {NoModel}
MaybePid   == Pid \cup {NoPid}

States == {"Idle", "Loading", "Bare", "Ready", "Error"}

(* "conflict" stands for an error text that contains "already in use".     *)
Errors == {"none", "conflict", "other"}

(* stopped_at is kept as cooldown: it was set less than ten seconds ago.   *)
Managed == [state : States, model : MaybeModel, child : MaybePid,
            pid : MaybePid, error : Errors, cooldown : BOOLEAN]

TaskPcs == {"idle", "requested", "queued", "checking", "adopting", "spawning",
            "polling", "settling", "killing", "failing"}

(* note: what poll_ready returned, or the kind of error a bail carries.    *)
Notes == {"none", "healthy", "timeout", "crashed", "conflict", "other"}

Tasks == [pc : TaskPcs, model : MaybeModel, pid : MaybePid, note : Notes]

Sighting == [pid : MaybePid, model : MaybeModel]
Polls == {l \in [pc : {"idle", "recover", "recheck", "adopt", "probe", "take"},
                 pid : MaybePid, model : MaybeModel] : l.pc = "take" => l.pid \in Pid}

(* booting: a model server that does not listen yet; serving: it listens   *)
(* and answers; wedged: it hangs inside the GPU driver, keeps its socket   *)
(* and survives SIGKILL; squatting: some other program listens on the      *)
(* port; alien: a process that has nothing to do with the port; zombie:    *)
(* exited, not yet reaped by the Child handle that waits for it.           *)
Statuses == {"free", "booting", "serving", "wedged", "squatting", "alien",
             "zombie"}

(* daemon: spawned by this run of the daemon; orphan: by an earlier run.   *)
Origins == {"none", "daemon", "orphan", "external"}

Processes == [status : Statuses, model : MaybeModel, origin : Origins]

TypeOK ==
    /\ mgr \in Managed
    /\ task \in [Task -> Tasks]
    /\ poll \in Polls
    /\ seen \in Sighting
    /\ dying \in MaybePid
    /\ disk \in MaybeModel \cup {NoFile}
    /\ proc \in [Pid -> Processes]
    /\ listener \in MaybePid
    /\ up \in BOOLEAN

-----------------------------------------------------------------------------
Fresh    == [state |-> "Idle", model |-> NoModel, child |-> NoPid,
             pid |-> NoPid, error |-> "none", cooldown |-> FALSE]
NoTask   == [pc |-> "idle", model |-> NoModel, pid |-> NoPid, note |-> "none"]
Nothing  == [pid |-> NoPid, model |-> NoModel]
PollIdle == [pc |-> "idle", pid |-> NoPid, model |-> NoModel]
Gone     == [status |-> "free", model |-> NoModel, origin |-> "none"]

Init ==
    /\ mgr = Fresh
    /\ task = [t \in Task |-> NoTask]
    /\ poll = PollIdle
    /\ seen = Nothing
    /\ dying = NoPid
    /\ disk = NoFile
    /\ proc = [p \in Pid |-> Gone]
    /\ listener = NoPid
    /\ up = FALSE

Live(p) == proc[p].status \notin {"free", "zombie"}

(* An open Child handle keeps an exited process in the table as a zombie.  *)
(* A task has its Child from the spawn until it gives it to the manager.   *)
Holds(t, p) == task[t].pid = p /\ task[t].pc \in {"polling", "settling", "killing"}
Held(p)     == mgr.child = p \/ \E t \in Task : Holds(t, p)

(* The write lock is held across an await only while an emergency_stop or  *)
(* a load that failed waits, without a bound, for a child it has killed.   *)
LockFree == dying = NoPid /\ \A t \in Task : task[t].pc # "killing"

-----------------------------------------------------------------------------
(* Processes and signals.                                                  *)

(* What p becomes when it exits.                                           *)
Exited(p) == IF Held(p) THEN [proc[p] EXCEPT !.status = "zombie"] ELSE Gone

(* What a fatal signal makes of p.                                         *)
Signalled(p) == IF Live(p) /\ proc[p].status # "wedged" THEN Exited(p) ELSE proc[p]

PortAfter(victims) ==
    IF listener \in victims /\ proc[listener].status # "wedged"
    THEN NoPid ELSE listener

Signal(victims) ==
    /\ proc' = [p \in Pid |-> IF p \in victims THEN Signalled(p) ELSE proc[p]]
    /\ listener' = PortAfter(victims)

(* kill_child: SIGTERM to the recorded pid, a bounded wait, SIGKILL. With  *)
(* a handle the child is reaped as well; a wedged one outlives the wait.   *)
(* The caller clears child and pid.                                        *)
KillChild ==
    LET victims == {mgr.child, mgr.pid} \ {NoPid} IN
    /\ proc' = [p \in Pid |->
                  IF p = mgr.child /\ proc[p].status # "wedged" THEN Gone
                  ELSE IF p \in victims THEN Signalled(p) ELSE proc[p]]
    /\ listener' = PortAfter(victims)

(* probe_model_server: /v1/models is answered by p with model m.           *)
Answers(p, m) == listener = p /\ p \in Pid /\ proc[p].status = "serving" /\ proc[p].model = m

Answered == \E p \in Pid : listener = p /\ proc[p].status = "serving"

-----------------------------------------------------------------------------
(* Loads. What a load task remembers from one step to the next.            *)
Becomes(t, pc, model, pid, note) ==
    task' = [task EXCEPT ![t] = [pc |-> pc, model |-> model, pid |-> pid, note |-> note]]

(* load() marks the manager, then needs the lock once more before it       *)
(* spawns the task; its HTTP handler is dropped when the client goes.      *)
Load(t, m) ==
    /\ up /\ LockFree
    /\ task[t] = NoTask
    /\ mgr' = [mgr EXCEPT !.state = "Loading", !.error = "none"]
    /\ Becomes(t, "requested", m, NoPid, "none")
    /\ UNCHANGED <<poll, seen, dying, disk, os, up>>

LoadSpawns(t) ==
    /\ task[t].pc = "requested" /\ LockFree
    /\ task' = [task EXCEPT ![t].pc = "queued"]
    /\ UNCHANGED <<mgr, poll, seen, dying, disk, os, up>>

LoadDropped(t) ==
    /\ "disconnect" \in Events
    /\ task[t].pc = "requested"
    /\ task' = [task EXCEPT ![t] = NoTask]
    /\ UNCHANGED <<mgr, poll, seen, dying, disk, os, up>>

(* The task's first hold of the lock: whatever the manager has is killed.  *)
(* A draft model together with batching is refused only after that.        *)
TaskKills(t) ==
    /\ task[t].pc = "queued" /\ LockFree
    /\ KillChild
    /\ mgr' = [mgr EXCEPT !.child = NoPid, !.pid = NoPid]
    /\ \/ task' = [task EXCEPT ![t].pc = "checking"]
       \/ Becomes(t, "failing", task[t].model, NoPid, "other")
    /\ UNCHANGED <<poll, seen, dying, disk, up>>

(* The port check, without the lock: a free port is spawned on, a server   *)
(* that answers is a candidate for adoption, anything else is a conflict.  *)
TaskChecks(t) ==
    /\ task[t].pc = "checking"
    /\ \/ /\ listener = NoPid
          /\ task' = [task EXCEPT ![t].pc = "spawning"]
       \/ \E p \in Pid, m \in MaybeModel :
             /\ Answers(p, m)
             /\ Becomes(t, "adopting", m, p, "none")
       \/ /\ listener # NoPid /\ ~Answered
          /\ Becomes(t, "failing", task[t].model, NoPid, "conflict")
    /\ UNCHANGED <<mgr, poll, seen, dying, disk, os, up>>

Adopted(p, m) ==
    [state |-> IF m = NoModel THEN "Bare" ELSE "Ready", model |-> m,
     child |-> mgr.child, pid |-> p, error |-> "none", cooldown |-> FALSE]

(* Variant for StopIsRespected: the load forgets the stop cooldown.        *)
TaskAdoptsInCooldown(t) ==
    /\ task[t].pc = "adopting" /\ LockFree
    /\ IF mgr.child # NoPid
       THEN /\ Becomes(t, "failing", task[t].model, NoPid, "other")
            /\ UNCHANGED mgr
       ELSE /\ mgr' = Adopted(task[t].pid, task[t].model)
            /\ task' = [task EXCEPT ![t] = NoTask]
    /\ UNCHANGED <<poll, seen, dying, disk, os, up>>

(* Variant for ReportedModelIsServed: it forgets the child-handle check.   *)
TaskAdoptsOverChild(t) ==
    /\ task[t].pc = "adopting" /\ LockFree /\ ~mgr.cooldown
    /\ mgr' = Adopted(task[t].pid, task[t].model)
    /\ task' = [task EXCEPT ![t] = NoTask]
    /\ UNCHANGED <<poll, seen, dying, disk, os, up>>

TaskAdopts(t) ==
    /\ task[t].pc = "adopting" /\ LockFree
    /\ IF mgr.child # NoPid \/ mgr.cooldown
       THEN /\ Becomes(t, "failing", task[t].model, NoPid, "other")
            /\ UNCHANGED mgr
       ELSE /\ mgr' = Adopted(task[t].pid, task[t].model)
            /\ task' = [task EXCEPT ![t] = NoTask]
    /\ UNCHANGED <<poll, seen, dying, disk, os, up>>

(* The spawn, or its failure: no such binary, no log file.                 *)
TaskSpawns(t) ==
    /\ task[t].pc = "spawning"
    /\ \/ \E p \in Pid :
             /\ proc[p] = Gone
             /\ proc' = [proc EXCEPT ![p] = [status |-> "booting", origin |-> "daemon",
                                             model |-> task[t].model]]
             /\ Becomes(t, "polling", task[t].model, p, "none")
       \/ /\ Becomes(t, "failing", task[t].model, NoPid, "other")
          /\ UNCHANGED proc
    /\ UNCHANGED <<mgr, poll, seen, dying, disk, listener, up>>

(* Variant for LoadsEnd: polling without a deadline.                       *)
TaskPollsForEver(t) ==
    /\ task[t].pc = "polling"
    /\ \/ /\ listener # NoPid /\ proc[listener].status # "wedged"
          /\ Becomes(t, "settling", task[t].model, task[t].pid, "healthy")
          /\ UNCHANGED proc
       \/ /\ proc[task[t].pid].status = "zombie"
          /\ proc' = [proc EXCEPT ![task[t].pid] = Gone]
          /\ Becomes(t, "settling", task[t].model, NoPid, "crashed")
    /\ UNCHANGED <<mgr, poll, seen, dying, disk, listener, up>>

(* poll_ready: the exit of the child (wait reaps it) races the health      *)
(* endpoint, which whoever owns the port answers, and the deadline.        *)
TaskPolls(t) ==
    /\ task[t].pc = "polling"
    /\ \/ \E note \in {"healthy", "timeout"} :
             /\ note = "healthy" => listener # NoPid /\ proc[listener].status # "wedged"
             /\ Becomes(t, "settling", task[t].model, task[t].pid, note)
             /\ UNCHANGED proc
       \/ /\ proc[task[t].pid].status = "zombie"
          /\ proc' = [proc EXCEPT ![task[t].pid] = Gone]
          /\ Becomes(t, "settling", task[t].model, NoPid, "crashed")
    /\ UNCHANGED <<mgr, poll, seen, dying, disk, listener, up>>

(* Variant for NoLeakedServer: Ready without verify_port_owner.            *)
TaskSettlesUnverified(t) ==
    LET p == task[t].pid IN
    /\ task[t].pc = "settling" /\ LockFree
    /\ task[t].note = "healthy"
    /\ mgr' = [mgr EXCEPT !.state = IF task[t].model = NoModel THEN "Bare" ELSE "Ready",
                          !.model = task[t].model, !.child = p, !.pid = p]
    /\ proc' = [q \in Pid |-> IF q = mgr.child /\ proc[q].status = "zombie"
                              THEN Gone ELSE proc[q]]
    /\ disk' = task[t].model
    /\ task' = [task EXCEPT ![t] = NoTask]
    /\ UNCHANGED <<poll, seen, dying, listener, up>>

(* Variant for ChildIsPersisted: a bare server is not worth a state file.  *)
TaskSettlesUnsaved(t) ==
    LET p == task[t].pid IN
    /\ task[t].pc = "settling" /\ LockFree
    /\ task[t].note = "healthy" /\ listener = p
    /\ mgr' = [mgr EXCEPT !.state = IF task[t].model = NoModel THEN "Bare" ELSE "Ready",
                          !.model = task[t].model, !.child = p, !.pid = p]
    /\ proc' = [q \in Pid |-> IF q = mgr.child /\ proc[q].status = "zombie"
                              THEN Gone ELSE proc[q]]
    /\ disk' = IF task[t].model = NoModel THEN disk ELSE task[t].model
    /\ task' = [task EXCEPT ![t] = NoTask]
    /\ UNCHANGED <<poll, seen, dying, listener, up>>

(* The second hold of the lock. verify_port_owner asks lsof whether the    *)
(* child listens; the child handle the manager had, if any, is dropped,    *)
(* and tokio reaps a dropped child that has exited.                        *)
TaskSettlesReady(t) ==
    LET p == task[t].pid IN
    /\ task[t].pc = "settling" /\ LockFree
    /\ task[t].note = "healthy" /\ listener = p
    /\ mgr' = [mgr EXCEPT !.state = IF task[t].model = NoModel THEN "Bare" ELSE "Ready",
                          !.model = task[t].model, !.child = p, !.pid = p]
    /\ proc' = [q \in Pid |-> IF q = mgr.child /\ proc[q].status = "zombie"
                              THEN Gone ELSE proc[q]]
    /\ disk' = task[t].model
    /\ task' = [task EXCEPT ![t] = NoTask]
    /\ UNCHANGED <<poll, seen, dying, listener, up>>

(* A timeout, or lsof does not show the child on the port: the child is    *)
(* killed and awaited, with no bound, before the lock is released.         *)
TaskSettlesByKill(t) ==
    /\ task[t].pc = "settling" /\ LockFree
    /\ task[t].note \in {"healthy", "timeout"}
    /\ mgr' = [mgr EXCEPT !.state = "Error", !.error = "other"]
    /\ Signal({task[t].pid})
    /\ task' = [task EXCEPT ![t].pc = "killing"]
    /\ UNCHANGED <<poll, seen, dying, disk, up>>

TaskReaps(t) ==
    /\ task[t].pc = "killing"
    /\ proc[task[t].pid].status = "zombie"
    /\ proc' = [proc EXCEPT ![task[t].pid] = Gone]
    /\ task' = [task EXCEPT ![t] = NoTask]
    /\ UNCHANGED <<mgr, poll, seen, dying, disk, listener, up>>

(* The error text is the tail of the server's log: it may well be Python's *)
(* "address already in use".                                               *)
TaskSettlesCrash(t) ==
    /\ task[t].pc = "settling" /\ LockFree
    /\ task[t].note = "crashed"
    /\ \E e \in {"conflict", "other"} :
          mgr' = [mgr EXCEPT !.state = "Error", !.error = e]
    /\ task' = [task EXCEPT ![t] = NoTask]
    /\ UNCHANGED <<poll, seen, dying, disk, os, up>>

(* do_serve_load turns a bail of the inner function into the Error state.  *)
TaskFails(t) ==
    /\ task[t].pc = "failing" /\ LockFree
    /\ mgr' = [mgr EXCEPT !.state = "Error", !.error = task[t].note]
    /\ task' = [task EXCEPT ![t] = NoTask]
    /\ UNCHANGED <<poll, seen, dying, disk, os, up>>

TaskStep(t) ==
    \/ LoadSpawns(t) \/ TaskKills(t) \/ TaskChecks(t) \/ TaskAdopts(t)
    \/ TaskSpawns(t) \/ TaskPolls(t) \/ TaskSettlesReady(t)
    \/ TaskSettlesByKill(t) \/ TaskReaps(t) \/ TaskSettlesCrash(t)
    \/ TaskFails(t)

-----------------------------------------------------------------------------
(* Stops.                                                                  *)

Stop ==
    /\ up /\ LockFree
    /\ KillChild
    /\ mgr' = [Fresh EXCEPT !.cooldown = TRUE]
    /\ disk' = NoModel
    /\ UNCHANGED <<task, poll, seen, dying, up>>

Emergency == [mgr EXCEPT !.state = "Error", !.model = NoModel, !.child = NoPid,
                         !.pid = NoPid, !.error = "other"]

(* Only a child is killed: an adopted pid is forgotten, a child that a     *)
(* load task still boots is not known here.                                *)
EmergencyStop ==
    /\ "emergency" \in Events
    /\ up /\ LockFree
    /\ IF mgr.child = NoPid
       THEN mgr' = Emergency /\ disk' = NoModel /\ UNCHANGED <<dying, os>>
       ELSE Signal({mgr.child}) /\ dying' = mgr.child /\ UNCHANGED <<mgr, disk>>
    /\ UNCHANGED <<task, poll, seen, up>>

EmergencyReaps ==
    /\ dying # NoPid
    /\ proc[dying].status = "zombie"
    /\ proc' = [proc EXCEPT ![dying] = Gone]
    /\ mgr' = Emergency
    /\ disk' = NoModel
    /\ dying' = NoPid
    /\ UNCHANGED <<task, poll, seen, listener, up>>

(* PeerHeartbeat::stop aborts the heartbeat task wherever it is.           *)
EmergencyAborted ==
    /\ "abort" \in Events
    /\ dying # NoPid
    /\ dying' = NoPid
    /\ UNCHANGED <<mgr, task, poll, seen, disk, os, up>>

CooldownEnds ==
    /\ mgr.cooldown
    /\ mgr' = [mgr EXCEPT !.cooldown = FALSE]
    /\ UNCHANGED <<task, poll, seen, dying, disk, os, up>>

-----------------------------------------------------------------------------
(* The daemon's poll loop: check_port_recovery, then check_port_adoption.  *)

PollStep(from) == up /\ poll.pc = from

(* Is this an Error whose text says that the port is in use?               *)
PollRecovery ==
    /\ PollStep("idle") /\ LockFree
    /\ poll' = [poll EXCEPT !.pc = IF mgr.state = "Error" /\ mgr.error = "conflict"
                                   THEN "recover" ELSE "adopt"]
    /\ UNCHANGED <<mgr, task, seen, dying, disk, os, up>>

(* Variant for ConflictHeals: the connect test the wrong way round.        *)
PollConnectsInverted ==
    /\ PollStep("recover")
    /\ poll' = [poll EXCEPT !.pc = IF listener # NoPid THEN "recheck" ELSE "adopt"]
    /\ UNCHANGED <<mgr, task, seen, dying, disk, os, up>>

PollConnects ==
    /\ PollStep("recover")
    /\ poll' = [poll EXCEPT !.pc = IF listener = NoPid THEN "recheck" ELSE "adopt"]
    /\ UNCHANGED <<mgr, task, seen, dying, disk, os, up>>

(* Only the state is looked at again, not the kind of error.               *)
PollRecovers ==
    /\ PollStep("recheck") /\ LockFree
    /\ mgr' = IF mgr.state = "Error" THEN [mgr EXCEPT !.state = "Idle", !.error = "none"]
              ELSE mgr
    /\ poll' = [poll EXCEPT !.pc = "adopt"]
    /\ UNCHANGED <<task, seen, dying, disk, os, up>>

(* Variant for AnsweringServerIsAdopted: only an idle manager adopts.      *)
PollAdoptionWhenIdle ==
    /\ PollStep("adopt") /\ LockFree
    /\ poll' = [poll EXCEPT !.pc = IF mgr.pid = NoPid /\ mgr.state = "Idle"
                                   THEN "probe" ELSE "idle"]
    /\ UNCHANGED <<mgr, task, seen, dying, disk, os, up>>

PollAdoption ==
    /\ PollStep("adopt") /\ LockFree
    /\ poll' = [poll EXCEPT !.pc = IF mgr.pid = NoPid /\ mgr.child = NoPid
                                   THEN "probe" ELSE "idle"]
    /\ UNCHANGED <<mgr, task, seen, dying, disk, os, up>>

PollProbes ==
    /\ PollStep("probe")
    /\ \/ ~Answered /\ poll' = PollIdle
       \/ \E p \in Pid, m \in MaybeModel :
             Answers(p, m) /\ poll' = [pc |-> "take", pid |-> p, model |-> m]
    /\ UNCHANGED <<mgr, task, seen, dying, disk, os, up>>

(* Variant for Lifecycle: a load in progress does not stop an adoption.    *)
AdoptExternalOverLoad(p, m) ==
    mgr' = IF mgr.child # NoPid \/ mgr.cooldown THEN mgr ELSE Adopted(p, m)

(* adopt_external, under the lock.                                         *)
AdoptExternal(p, m) ==
    mgr' = IF mgr.child # NoPid \/ mgr.state = "Loading" \/ mgr.cooldown
           THEN mgr ELSE Adopted(p, m)

PollAdopts ==
    /\ PollStep("take") /\ LockFree
    /\ AdoptExternal(poll.pid, poll.model)
    /\ poll' = PollIdle
    /\ UNCHANGED <<task, seen, dying, disk, os, up>>

(* The snapshot of the metrics collector: it lists servers by their        *)
(* command line, whether or not they listen yet and whoever spawned them.  *)
Snapshot ==
    /\ "status" \in Events /\ up
    /\ \/ \E p \in Pid :
             /\ proc[p].status \in {"booting", "serving", "wedged"}
             /\ seen' = [pid |-> p, model |-> proc[p].model]
       \/ seen' = Nothing
    /\ UNCHANGED <<mgr, task, poll, dying, disk, os, up>>

(* adopt_unmanaged, from GET /serve/status, works on the last snapshot.    *)
StatusAdopts ==
    /\ up /\ LockFree
    /\ seen.pid # NoPid /\ seen.pid # mgr.pid
    /\ AdoptExternal(seen.pid, seen.model)
    /\ UNCHANGED <<task, poll, seen, dying, disk, os, up>>

PollNext == \/ PollRecovery \/ PollConnects \/ PollRecovers
            \/ PollAdoption \/ PollProbes \/ PollAdopts

-----------------------------------------------------------------------------
(* The daemon starts, restores the manager, and may be killed.             *)

(* restore(): the saved model is loaded again, with none a bare server is. *)
(* It runs before the poll loop and the HTTP server: nothing intervenes.   *)
DaemonStarts(t) ==
    /\ ~up /\ up' = TRUE
    /\ mgr' = [Fresh EXCEPT !.state = "Loading"]
    /\ task[t] = NoTask
    /\ Becomes(t, "queued", IF disk \in Model THEN disk ELSE NoModel, NoPid, "none")
    /\ UNCHANGED <<poll, seen, dying, disk, os>>

(* Children are not killed on drop and outlive the daemon; launchd reaps.  *)
(* A crash inside persist_state leaves a file that restore cannot parse.   *)
DaemonCrashes ==
    /\ "crash" \in Events
    /\ up /\ up' = FALSE
    /\ mgr' = Fresh
    /\ task' = [t \in Task |-> NoTask]
    /\ poll' = PollIdle
    /\ seen' = Nothing
    /\ dying' = NoPid
    /\ \/ disk' = disk
       \/ disk' = NoFile /\ \E t \in Task : task[t].pc = "settling"
    /\ proc' = [p \in Pid |-> IF proc[p].status = "zombie" THEN Gone
                              ELSE IF proc[p].origin = "daemon"
                              THEN [proc[p] EXCEPT !.origin = "orphan"]
                              ELSE proc[p]]
    /\ UNCHANGED listener

-----------------------------------------------------------------------------
(* What happens on the machine without the daemon.                         *)

Machine == <<mgr, task, poll, seen, dying, disk, up>>

Boots(p) ==
    /\ proc[p].status = "booting" /\ listener = NoPid
    /\ proc' = [proc EXCEPT ![p].status = "serving"]
    /\ listener' = p
    /\ UNCHANGED Machine

BindFails(p) ==
    /\ proc[p].status = "booting" /\ listener # NoPid
    /\ Signal({p})
    /\ UNCHANGED Machine

Exits(p) ==
    /\ "exit" \in Events
    /\ Live(p) /\ proc[p].status # "wedged"
    /\ Signal({p})
    /\ UNCHANGED Machine

Wedges(p) ==
    /\ "wedge" \in Events
    /\ proc[p].status \in {"booting", "serving"}
    /\ proc' = [proc EXCEPT ![p].status = "wedged"]
    /\ UNCHANGED <<listener, Machine>>

(* Somebody else starts a model server, or any other program.              *)
Appears(p) ==
    /\ proc[p] = Gone
    /\ \/ /\ "external" \in Events
          /\ \E m \in MaybeModel :
                proc' = [proc EXCEPT ![p] = [status |-> "booting", model |-> m,
                                             origin |-> "external"]]
          /\ UNCHANGED listener
       \/ /\ "squatter" \in Events /\ listener = NoPid
          /\ proc' = [proc EXCEPT ![p] = [status |-> "squatting", model |-> NoModel,
                                          origin |-> "external"]]
          /\ listener' = p
       \/ /\ "alien" \in Events
          /\ proc' = [proc EXCEPT ![p] = [status |-> "alien", model |-> NoModel,
                                          origin |-> "external"]]
          /\ UNCHANGED listener
    /\ UNCHANGED Machine

MachineNext == \E p \in Pid : \/ Boots(p) \/ BindFails(p) \/ Exits(p)
                              \/ Wedges(p) \/ Appears(p)

-----------------------------------------------------------------------------
Next ==
    \/ \E t \in Task : \/ \E m \in MaybeModel : Load(t, m)
                       \/ LoadDropped(t) \/ DaemonStarts(t) \/ TaskStep(t)
    \/ Stop \/ EmergencyStop \/ EmergencyReaps \/ EmergencyAborted
    \/ CooldownEnds
    \/ PollNext
    \/ Snapshot \/ StatusAdopts
    \/ DaemonCrashes
    \/ MachineNext

Spec == Init /\ [][Next]_vars

(* Tokio runs every task that can run, and grants its fair RwLock in the   *)
(* order of the requests: a task that asks again and again gets it. The    *)
(* poll loop is such a task. Nothing is assumed of servers and clients.    *)
FairSpec ==
    /\ Spec
    /\ \A t \in Task : SF_vars(TaskStep(t))
    /\ SF_vars(EmergencyReaps)
    /\ SF_vars(PollNext)
    /\ WF_vars(CooldownEnds)

-----------------------------------------------------------------------------
(* Properties.                                                             *)

(* A Child handle and the recorded pid are one process, and an unreaped    *)
(* one: kill_child signals s.pid but waits for s.child, and a pid that has *)
(* been reaped may already belong to another program.                      *)
HandleIsPid ==
    mgr.child # NoPid =>
        /\ mgr.pid = mgr.child
        /\ proc[mgr.child].status # "free" /\ proc[mgr.child].origin = "daemon"
        /\ \A t \in Task : ~Holds(t, mgr.child)

(* The model the manager reports for its own server is the model that      *)
(* server was started with, whichever loads raced for the port.            *)
ReportedModelIsServed ==
    mgr.child # NoPid => mgr.model = proc[mgr.child].model

(* A crash at any moment loses no server: the state file names the model   *)
(* of the child, so that a restarted daemon asks for the same one.         *)
ChildIsPersisted ==
    mgr.child # NoPid => disk = mgr.model

(* Nothing leaves Loading but the end of a load, and every load ends the   *)
(* state it began: a manager that says Loading has a load under way.       *)
LoadingHasLoad ==
    mgr.state = "Loading" => \E t \in Task : task[t].pc \notin {"idle", "killing"}

(* A manager that says Ready or Bare names a process, or a load that has   *)
(* taken it away is about to say something else.                           *)
ReadyIsBacked ==
    mgr.state \in {"Bare", "Ready"} =>
        mgr.pid # NoPid \/ \E t \in Task : task[t].pc \notin {"idle", "killing"}

(* No server is leaked: what the daemon spawned and still runs is in the   *)
(* hands of the manager or of a load task, unless it cannot be killed. Two *)
(* loads that overlap, stops, emergency stops, adoptions, clients that go  *)
(* away do not drop the handle of a live server.                           *)
NoLeakedServer ==
    \A p \in Pid : Live(p) /\ proc[p].origin = "daemon" =>
                     Held(p) \/ proc[p].status = "wedged"

(* The inductive invariant behind these. A load task holds a process of    *)
(* its own, with the model it was asked for, until it hands it over.       *)
TaskOwnsChild ==
    \A t \in Task, p \in Pid : Holds(t, p) =>
        /\ proc[p].status \notin {"free", "squatting", "alien"}
        /\ proc[p].origin = "daemon"
        /\ proc[p].model = task[t].model
        /\ \A u \in Task : Holds(u, p) => u = t

(* What each stage of a load remembers.                                    *)
TaskStages ==
    \A t \in Task :
        /\ task[t].pc \in {"adopting", "polling", "killing"} => task[t].pid \in Pid
        /\ task[t].pc = "settling" =>
              \/ task[t].note \in {"healthy", "timeout"} /\ task[t].pid \in Pid
              \/ task[t].note = "crashed" /\ task[t].pid = NoPid
        /\ task[t].pc = "failing" => task[t].note \in {"conflict", "other"}
        /\ task[t].pc = "idle" => task[t] = NoTask

(* The listening process is the only one that serves or squats; the        *)
(* manager's own child listens, is wedged or has exited.                   *)
PortHasOneOwner ==
    /\ \A p \in Pid : proc[p].status \in {"serving", "squatting"} => listener = p
    /\ listener # NoPid => proc[listener].status \in {"serving", "squatting", "wedged"}
    /\ mgr.child # NoPid => proc[mgr.child].status \in {"serving", "wedged", "zombie"}

DyingIsChild == dying # NoPid => mgr.child = dying

DownIsReset == ~up => mgr = Fresh /\ task = [t \in Task |-> NoTask] /\ dying = NoPid

(* Who holds which process, and what is known of it.                       *)
Handles ==
    /\ HandleIsPid
    /\ TaskOwnsChild
    /\ PortHasOneOwner
    /\ DyingIsChild
    /\ ReportedModelIsServed
    /\ ChildIsPersisted
    /\ NoLeakedServer

Consistent == TypeOK /\ TaskStages /\ DownIsReset /\ Handles

(* Inside the cooldown after a stop no process is adopted, by the poll     *)
(* loop, by the status handler or by a load begun before the stop.         *)
StopIsRespected ==
    [][mgr.cooldown /\ mgr'.pid # mgr.pid => mgr'.pid = mgr'.child]_vars

(* The life cycle the daemon promises to the clients of a port: a load     *)
(* under way is one that has not yet said how it ended.                    *)
Lifecycle == INSTANCE ServeLifecycle WITH
    phase   <- mgr.state,
    managed <- mgr.pid # NoPid,
    loads   <- {t \in Task : task[t].pc \notin {"idle", "killing"}}

(* The manager keeps that promise while no client goes away in mid-load.   *)
KeepsLifecycle == Lifecycle!Spec

(* Every load ends, whatever the server it spawned does, as long as that   *)
(* server can be killed.                                                   *)
LoadsEnd == \A t \in Task : task[t].pc # "idle" ~> task[t].pc = "idle"

(* A port conflict heals by itself: the manager does not report it for     *)
(* ever on a port that has become and stays free.                          *)
ConflictHeals ==
    <>[](up /\ listener = NoPid) => []<>~(mgr.state = "Error" /\ mgr.error = "conflict")

(* Once clients are quiet: no load under way, no stop just made.           *)
Quiet == up /\ ~mgr.cooldown /\ \A t \in Task : task[t].pc = "idle"

(* A server that goes on answering on the port of a manager that has none  *)
(* is found and adopted, whatever the loads before left behind.            *)
AnsweringServerIsAdopted == <>[](Quiet /\ Answered) => []<>(mgr.pid # NoPid)
=============================================================================
