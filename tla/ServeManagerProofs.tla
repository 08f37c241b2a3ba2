------------------------- MODULE ServeManagerProofs -------------------------
(***************************************************************************)
(* The invariants of ServeManager for any number of models, processes and  *)
(* overlapping loads, and for every choice of environment events. Each of  *)
(* them is a conjunct of Consistent, the inductive invariant.              *)
(*                                                                         *)
(* Most steps leave the processes, the port and every Child handle alone:  *)
(* HandlesKept settles the relational conjuncts for all of those at once.  *)
(* The other actions have a lemma each, with a step per conjunct that the  *)
(* action can disturb.                                                     *)
(***************************************************************************)
EXTENDS ServeManager, TLAPS

USE ServeManagerAssumption

-----------------------------------------------------------------------------
(* The first state of the daemon's life is consistent.                     *)
LEMMA InitConsistent == Init => Consistent
<1> SUFFICES ASSUME Init PROVE Consistent
  OBVIOUS
<1> USE DEF Init, Fresh, NoTask, Nothing, PollIdle, Gone
<1>1. TypeOK
  BY DEF TypeOK, Managed, Tasks, Polls, Sighting, Processes, MaybeModel, MaybePid,
         States, Errors, TaskPcs, Notes, Statuses, Origins
<1>2. HandleIsPid /\ DyingIsChild /\ DownIsReset /\ ReportedModelIsServed /\ ChildIsPersisted
  BY DEF HandleIsPid, DyingIsChild, DownIsReset, ReportedModelIsServed, ChildIsPersisted
<1>3. TaskOwnsChild /\ TaskStages /\ PortHasOneOwner /\ NoLeakedServer
  BY DEF TaskOwnsChild, TaskStages, PortHasOneOwner, NoLeakedServer, Holds, Live
<1> QED BY <1>1, <1>2, <1>3 DEF Consistent, Handles

(* A step that moves no process, no handle and no file disturbs no         *)
(* relation between them.                                                  *)
LEMMA HandlesKept ==
  ASSUME TypeOK, Handles,
         UNCHANGED <<proc, listener, disk>>,
         mgr'.child = mgr.child, mgr'.pid = mgr.pid, mgr'.model = mgr.model,
         dying' \in {dying, NoPid},
         \A u \in Task, p \in Pid : Holds(u, p)' <=> Holds(u, p),
         \A u \in Task, p \in Pid : Holds(u, p) => task'[u].model = task[u].model
  PROVE  Handles'
<1> USE DEF Handles
<1>1. HandleIsPid'
  BY DEF HandleIsPid, TypeOK, Managed, MaybePid
<1>2. TaskOwnsChild'
  BY DEF TaskOwnsChild
<1>3. PortHasOneOwner' /\ DyingIsChild' /\ ReportedModelIsServed' /\ ChildIsPersisted'
  BY DEF PortHasOneOwner, DyingIsChild, ReportedModelIsServed, ChildIsPersisted
<1>4. NoLeakedServer'
  BY DEF NoLeakedServer, Live, Held
<1> QED BY <1>1, <1>2, <1>3, <1>4

(* What a signal and kill_child make of the machine.                       *)
LEMMA SignalType ==
  ASSUME TypeOK, NEW V \in SUBSET Pid, Signal(V)
  PROVE  proc' \in [Pid -> Processes] /\ listener' \in MaybePid
<1>1. \A p \in Pid : Signalled(p) \in Processes
  BY DEF TypeOK, Signalled, Exited, Gone, Processes, Statuses, Origins, MaybeModel
<1> QED BY <1>1 DEF TypeOK, Signal, PortAfter, MaybePid

LEMMA KillChildType ==
  ASSUME TypeOK, KillChild
  PROVE  proc' \in [Pid -> Processes] /\ listener' \in MaybePid
<1>1. \A p \in Pid : Signalled(p) \in Processes
  BY DEF TypeOK, Signalled, Exited, Gone, Processes, Statuses, Origins, MaybeModel
<1>2. Gone \in Processes
  BY DEF Gone, Processes, Statuses, Origins, MaybeModel
<1> QED BY <1>1, <1>2 DEF TypeOK, KillChild, PortAfter, MaybePid

(* A process somebody holds leaves the table only through its holder.      *)
LEMMA HeldSurvivesSignal ==
  ASSUME TypeOK, NEW p \in Pid, Held(p), proc[p].status # "free"
  PROVE  /\ Signalled(p).status \in {proc[p].status, "zombie"}
         /\ Signalled(p).origin = proc[p].origin
         /\ Signalled(p).model = proc[p].model
BY DEF Signalled, Exited, TypeOK, Processes

(* A load is under way only while the daemon runs.                         *)
LEMMA BusyIsUp ==
  ASSUME TypeOK, DownIsReset, NEW t \in Task, task[t].pc # "idle" PROVE up
BY DEF DownIsReset, NoTask, TypeOK

-----------------------------------------------------------------------------
(* The steps of a load.                                                    *)

LEMMA LoadKeeps ==
  ASSUME Consistent, NEW t \in Task, NEW m \in MaybeModel, Load(t, m)
  PROVE  Consistent'
<1> USE DEF Consistent, Becomes, Load, NoTask, os
<1>1. TypeOK'
  <2>1. mgr' \in Managed
    BY DEF TypeOK, Managed, States, Errors
  <2>2. task' \in [Task -> Tasks]
    BY DEF TypeOK, Tasks, TaskPcs, Notes, MaybePid
  <2> QED BY <2>1, <2>2 DEF TypeOK
<1>2. TaskStages' /\ DownIsReset'
  BY DEF TaskStages, DownIsReset, TypeOK, Tasks
<1>3. Handles'
  BY HandlesKept DEF TypeOK, Managed, Tasks, Holds
<1> QED BY <1>1, <1>2, <1>3

LEMMA TaskKillsKeeps ==
  ASSUME Consistent, NEW t \in Task, TaskKills(t)
  PROVE  Consistent'
<1> USE DEF Consistent, Becomes, TaskKills
<1>1. TypeOK'
  <2>1. mgr' \in Managed
    BY DEF TypeOK, Managed, MaybePid
  <2>2. task' \in [Task -> Tasks]
    <3>1. CASE task' = [task EXCEPT ![t].pc = "checking"]
      BY <3>1 DEF TypeOK, Tasks, TaskPcs
    <3>2. CASE Becomes(t, "failing", task[t].model, NoPid, "other")
      BY <3>2 DEF TypeOK, Tasks, TaskPcs, Notes, MaybePid
    <3> QED BY <3>1, <3>2
  <2> QED BY <2>1, <2>2, KillChildType DEF TypeOK
<1>2. TaskStages' /\ DownIsReset'
  BY BusyIsUp DEF TaskStages, DownIsReset, TypeOK, Tasks
<1>3. Handles'
  <2>1. \A u \in Task, p \in Pid : Holds(u, p)' <=> Holds(u, p)
    BY DEF Holds, TypeOK, Tasks
  <2>2. mgr'.child = NoPid /\ dying' = NoPid
    BY DEF TypeOK, Managed, LockFree
  <2>3. HandleIsPid' /\ DyingIsChild' /\ ReportedModelIsServed' /\ ChildIsPersisted'
    BY <2>2 DEF HandleIsPid, DyingIsChild, ReportedModelIsServed, ChildIsPersisted
  <2>4. TaskOwnsChild'
    <3>1. SUFFICES ASSUME NEW u \in Task, NEW p \in Pid, Holds(u, p)
                   PROVE  /\ proc'[p].status \notin {"free", "squatting", "alien"}
                          /\ proc'[p].origin = "daemon"
                          /\ proc'[p].model = task'[u].model
      BY <2>1 DEF TaskOwnsChild, Handles
    <3>2. p # mgr.child
      BY <3>1 DEF Handles, HandleIsPid, TypeOK, Managed, MaybePid
    <3>3. proc'[p] \in {proc[p], Signalled(p)}
      BY <3>2 DEF KillChild, TypeOK
    <3>4. task'[u].model = task[u].model
      BY DEF TypeOK, Tasks
    <3> QED BY <3>1, <3>3, <3>4, HeldSurvivesSignal DEF Handles, TaskOwnsChild, Held
  <2>5. PortHasOneOwner'
    BY <2>2 DEF Handles, PortHasOneOwner, KillChild, Signalled, Exited, Gone, Live, PortAfter, TypeOK, Processes, MaybePid
  <2>6. NoLeakedServer'
    BY <2>1, <2>2 DEF Handles, NoLeakedServer, HandleIsPid, KillChild, Signalled, Exited, Live, Held, Gone, TypeOK, Processes, Managed, MaybePid
  <2> QED BY <2>3, <2>4, <2>5, <2>6 DEF Handles
<1> QED BY <1>1, <1>2, <1>3

LEMMA LoadSpawnsKeeps ==
  ASSUME Consistent, NEW t \in Task, LoadSpawns(t)
  PROVE  Consistent'
<1> USE DEF Consistent, Becomes, LoadSpawns, os
<1>1. TypeOK'
  BY DEF TypeOK, Tasks, TaskPcs
<1>2. TaskStages' /\ DownIsReset'
  BY BusyIsUp DEF TaskStages, DownIsReset, TypeOK, Tasks
<1>3. Handles'
  BY HandlesKept DEF TypeOK, Managed, Tasks, Holds
<1> QED BY <1>1, <1>2, <1>3

LEMMA LoadDroppedKeeps ==
  ASSUME Consistent, NEW t \in Task, LoadDropped(t)
  PROVE  Consistent'
<1> USE DEF Consistent, Becomes, LoadDropped, NoTask, os
<1>1. TypeOK'
  BY DEF TypeOK, Tasks, TaskPcs, Notes, NoTask, MaybeModel, MaybePid
<1>2. TaskStages' /\ DownIsReset'
  BY BusyIsUp DEF TaskStages, DownIsReset, TypeOK, Tasks
<1>3. Handles'
  BY HandlesKept DEF TypeOK, Managed, Tasks, Holds
<1> QED BY <1>1, <1>2, <1>3

LEMMA TaskChecksKeeps ==
  ASSUME Consistent, NEW t \in Task, TaskChecks(t)
  PROVE  Consistent'
<1> USE DEF Consistent, Becomes, TaskChecks, os
<1>1. task' \in [Task -> Tasks]
  BY DEF TypeOK, Tasks, TaskPcs, Notes, MaybePid
<1>2. TaskStages' /\ DownIsReset'
  BY BusyIsUp DEF TaskStages, DownIsReset, TypeOK, Tasks
<1>3. Handles'
  BY HandlesKept DEF TypeOK, Managed, Tasks, Holds
<1> QED BY <1>1, <1>2, <1>3 DEF TypeOK

(* A manager that adopts has no child of its own, before and after.        *)
LEMMA AdoptionKeeps ==
  ASSUME TypeOK, Handles, NEW p \in Pid, NEW m \in MaybeModel,
         mgr' = Adopted(p, m), mgr.child = NoPid, LockFree,
         UNCHANGED <<proc, listener, dying>>,
         \A u \in Task, q \in Pid : Holds(u, q)' <=> Holds(u, q),
         \A u \in Task, q \in Pid : Holds(u, q) => task'[u].model = task[u].model
  PROVE  Handles' /\ mgr' \in Managed
<1> USE DEF Adopted
<1>1. mgr'.child = NoPid /\ dying' = NoPid
  BY DEF LockFree
<1>2. HandleIsPid' /\ DyingIsChild' /\ ReportedModelIsServed' /\ ChildIsPersisted'
  BY <1>1 DEF HandleIsPid, DyingIsChild, ReportedModelIsServed, ChildIsPersisted
<1>3. TaskOwnsChild' /\ PortHasOneOwner'
  BY <1>1 DEF Handles, TaskOwnsChild, PortHasOneOwner
<1>4. NoLeakedServer'
  BY <1>1 DEF Handles, NoLeakedServer, Live, Held, TypeOK, Managed
<1>5. mgr' \in Managed
  BY DEF TypeOK, Managed, States, Errors, MaybePid
<1> QED BY <1>2, <1>3, <1>4, <1>5 DEF Handles

LEMMA TaskAdoptsKeeps ==
  ASSUME Consistent, NEW t \in Task, TaskAdopts(t)
  PROVE  Consistent'
<1> USE DEF Consistent, Becomes, TaskAdopts, os
<1>1. task' \in [Task -> Tasks]
  BY DEF TypeOK, Tasks, TaskPcs, Notes, NoTask, MaybePid, MaybeModel
<1>2. TaskStages' /\ DownIsReset'
  BY BusyIsUp DEF TaskStages, DownIsReset, TypeOK, Tasks, NoTask
<1>3. /\ \A u \in Task, q \in Pid : Holds(u, q)' <=> Holds(u, q)
      /\ \A u \in Task, q \in Pid : Holds(u, q) => task'[u].model = task[u].model
  BY DEF TypeOK, Tasks, Holds, NoTask
<1>4. CASE mgr.child # NoPid \/ mgr.cooldown
  <2>1. Handles'
    BY <1>3, <1>4, HandlesKept
  <2> QED BY <1>1, <1>2, <1>4, <2>1 DEF TypeOK
<1>5. CASE ~(mgr.child # NoPid \/ mgr.cooldown)
  <2>1. task[t].pid \in Pid /\ task[t].model \in MaybeModel
    BY DEF TypeOK, TaskStages, Tasks
  <2>2. Handles' /\ mgr' \in Managed
    BY <1>3, <1>5, <2>1, AdoptionKeeps
  <2> QED BY <1>1, <1>2, <2>2 DEF TypeOK
<1> QED BY <1>4, <1>5

LEMMA TaskSpawnsKeeps ==
  ASSUME Consistent, NEW t \in Task, TaskSpawns(t)
  PROVE  Consistent'
<1> USE DEF Consistent, Becomes, TaskSpawns
<1>1. TaskStages' /\ DownIsReset'
  BY BusyIsUp DEF TaskStages, DownIsReset, TypeOK, Tasks
<1>2. CASE UNCHANGED proc
  <2>1. TypeOK'
    <3>1. Becomes(t, "failing", task[t].model, NoPid, "other")
      BY <1>2 DEF TypeOK, Gone, Processes
    <3> QED BY <1>2, <3>1 DEF TypeOK, Tasks, TaskPcs, Notes, MaybePid
  <2>2. Handles'
    BY <1>2, HandlesKept DEF TypeOK, Managed, Tasks, Holds, Gone, Processes
  <2> QED BY <1>1, <2>1, <2>2
<1>3. ASSUME NEW p \in Pid, proc[p] = Gone,
             proc' = [proc EXCEPT ![p] = [status |-> "booting", origin |-> "daemon",
                                          model |-> task[t].model]],
             Becomes(t, "polling", task[t].model, p, "none")
      PROVE  Consistent'
  <2>1. TypeOK'
    <3>1. task' \in [Task -> Tasks]
      BY <1>3 DEF TypeOK, Tasks, TaskPcs, Notes, MaybePid
    <3>2. proc' \in [Pid -> Processes]
      BY <1>3 DEF TypeOK, Tasks, Processes, Statuses, Origins
    <3> QED BY <3>1, <3>2 DEF TypeOK
  <2>2. \A u \in Task, q \in Pid : Holds(u, q)' <=> Holds(u, q) \/ (u = t /\ q = p)
    BY <1>3 DEF TypeOK, Tasks, Holds
  <2>3. /\ \A u \in Task : ~Holds(u, p)
        /\ p # mgr.child
    BY <1>3 DEF Handles, TaskOwnsChild, HandleIsPid, Gone
  <2>4. \A q \in Pid : q # p => proc'[q] = proc[q]
    BY <1>3 DEF TypeOK
  <2>5. proc'[p] = [status |-> "booting", origin |-> "daemon", model |-> task'[t].model]
    BY <1>3 DEF TypeOK, Tasks
  <2>6. \A u \in Task : task'[u].model = task[u].model
    BY <1>3 DEF TypeOK, Tasks
  <2>7. HandleIsPid' /\ DyingIsChild' /\ ReportedModelIsServed' /\ ChildIsPersisted'
    BY <2>2, <2>3, <2>4 DEF Handles, HandleIsPid, DyingIsChild, ReportedModelIsServed, ChildIsPersisted,
       TypeOK, Managed, MaybePid
  <2>8. TaskOwnsChild'
    BY <2>2, <2>3, <2>4, <2>5, <2>6 DEF Handles, TaskOwnsChild
  <2>9. PortHasOneOwner'
    BY <1>3, <2>3, <2>4, <2>5 DEF Handles, PortHasOneOwner, TypeOK, Managed, MaybePid, Gone
  <2>10. NoLeakedServer'
    BY <2>2, <2>4, <2>5 DEF Handles, NoLeakedServer, Live, Held
  <2> QED BY <1>1, <2>1, <2>7, <2>8, <2>9, <2>10 DEF Handles
<1> QED BY <1>2, <1>3

(* Signals: what is held becomes a zombie at worst, the rest may vanish.   *)
LEMMA SignalKeeps ==
  ASSUME TypeOK, Handles, NEW V \in SUBSET Pid, Signal(V), UNCHANGED disk,
         mgr'.child = mgr.child, mgr'.pid = mgr.pid, mgr'.model = mgr.model,
         dying' \in {dying, mgr.child},
         \A u \in Task, p \in Pid : Holds(u, p)' <=> Holds(u, p),
         \A u \in Task, p \in Pid : Holds(u, p) => task'[u].model = task[u].model
  PROVE  Handles'
<1>1. \A p \in Pid : proc'[p] \in {proc[p], Signalled(p)}
  BY DEF Signal
<1>2. \A p \in Pid : Held(p)' <=> Held(p)
  BY DEF Held
<1>3. \A p \in Pid : Held(p) /\ proc[p].status # "free" =>
         /\ proc'[p].status \in {proc[p].status, "zombie"}
         /\ proc'[p].origin = proc[p].origin /\ proc'[p].model = proc[p].model
  BY <1>1, HeldSurvivesSignal
<1>4. mgr.child # NoPid => mgr.child \in Pid /\ Held(mgr.child) /\ proc[mgr.child].status # "free"
  BY DEF TypeOK, Managed, MaybePid, Held, Handles, HandleIsPid
<1>5. HandleIsPid'
  BY <1>3, <1>4 DEF Handles, HandleIsPid
<1>6. TaskOwnsChild'
  BY <1>3 DEF Handles, TaskOwnsChild, Held
<1>7. PortHasOneOwner'
  <2>1. \A p \in Pid : proc'[p].status \in {"serving", "squatting"} =>
           proc'[p] = proc[p] /\ (p \notin V \/ ~Live(p))
    BY DEF Signal, Signalled, Exited, Gone, TypeOK, Processes
  <2>2. \A p \in Pid : proc'[p].status \in {"serving", "squatting"} => listener' = p
    BY <2>1 DEF Handles, PortHasOneOwner, Signal, PortAfter, Live
  <2>3. listener' # NoPid => proc'[listener'].status \in {"serving", "squatting", "wedged"}
    BY DEF Handles, PortHasOneOwner, Signal, PortAfter, Signalled, TypeOK, MaybePid
  <2>4. mgr'.child # NoPid => proc'[mgr'.child].status \in {"serving", "wedged", "zombie"}
    BY <1>3, <1>4 DEF Handles, PortHasOneOwner
  <2> QED BY <2>2, <2>3, <2>4 DEF PortHasOneOwner
<1>8. DyingIsChild' /\ ReportedModelIsServed' /\ ChildIsPersisted'
  BY <1>3, <1>4 DEF Handles, DyingIsChild, ReportedModelIsServed, ChildIsPersisted
<1>9. NoLeakedServer'
  <2>1. \A p \in Pid : Live(p)' => proc'[p] = proc[p]
    BY <1>1 DEF Live, Signalled, Exited, Gone, TypeOK, Processes
  <2> QED BY <1>2, <2>1 DEF Handles, NoLeakedServer, Live
<1> QED BY <1>5, <1>6, <1>7, <1>8, <1>9 DEF Handles

(* A zombie nobody but the caller holds is removed from the table.         *)
LEMMA ReapKeeps ==
  ASSUME TypeOK, Handles, NEW p \in Pid, proc[p].status = "zombie", p # mgr'.child,
         proc' = [proc EXCEPT ![p] = Gone],
         UNCHANGED <<listener, disk>>,
         mgr'.child = mgr.child, mgr'.pid = mgr.pid, mgr'.model = mgr.model,
         dying' = dying,
         \A u \in Task, q \in Pid : Holds(u, q)' <=> Holds(u, q) /\ q # p,
         \A u \in Task, q \in Pid : Holds(u, q)' => task'[u].model = task[u].model
  PROVE  Handles'
<1>1. /\ proc'[p] = Gone
      /\ \A q \in Pid : q # p => proc'[q] = proc[q]
  BY DEF TypeOK
<1>2. HandleIsPid' /\ DyingIsChild' /\ ReportedModelIsServed' /\ ChildIsPersisted'
  BY <1>1 DEF Handles, HandleIsPid, DyingIsChild, ReportedModelIsServed, ChildIsPersisted,
     TypeOK, Managed, MaybePid
<1>3. TaskOwnsChild'
  BY <1>1 DEF Handles, TaskOwnsChild
<1>4. PortHasOneOwner'
  BY <1>1 DEF Handles, PortHasOneOwner, Gone, TypeOK, Managed, MaybePid
<1>5. NoLeakedServer'
  BY <1>1 DEF Handles, NoLeakedServer, Live, Held, Gone
<1> QED BY <1>2, <1>3, <1>4, <1>5 DEF Handles

LEMMA TaskPollsKeeps ==
  ASSUME Consistent, NEW t \in Task, TaskPolls(t)
  PROVE  Consistent'
<1> USE DEF Consistent, TaskPolls
<1>1. task[t].pid \in Pid /\ Holds(t, task[t].pid)
  BY DEF TaskStages, Holds
<1>2. ASSUME NEW note \in {"healthy", "timeout"}, UNCHANGED proc,
             Becomes(t, "settling", task[t].model, task[t].pid, note)
      PROVE  Consistent'
  <2> USE DEF Becomes
  <2>1. TypeOK'
    BY <1>2 DEF TypeOK, Tasks, TaskPcs, Notes
  <2>2. TaskStages' /\ DownIsReset'
    BY <1>1, <1>2, BusyIsUp DEF TaskStages, DownIsReset, TypeOK, Tasks
  <2>3. Handles'
    BY <1>2, HandlesKept DEF TypeOK, Tasks, Holds
  <2> QED BY <2>1, <2>2, <2>3
<1>3. ASSUME proc[task[t].pid].status = "zombie",
             proc' = [proc EXCEPT ![task[t].pid] = Gone],
             Becomes(t, "settling", task[t].model, NoPid, "crashed")
      PROVE  Consistent'
  <2> USE DEF Becomes
  <2>1. TypeOK'
    <3>1. task' \in [Task -> Tasks]
      BY <1>3 DEF TypeOK, Tasks, TaskPcs, Notes, MaybePid
    <3>2. proc' \in [Pid -> Processes]
      BY <1>3 DEF TypeOK, Gone, Processes, Statuses, Origins, MaybeModel
    <3> QED BY <3>1, <3>2 DEF TypeOK
  <2>2. TaskStages' /\ DownIsReset'
    BY <1>3, BusyIsUp DEF TaskStages, DownIsReset, TypeOK, Tasks
  <2>3. \A u \in Task, q \in Pid : Holds(u, q)' <=> Holds(u, q) /\ q # task[t].pid
    BY <1>1, <1>3 DEF Holds, TypeOK, Tasks, Handles, TaskOwnsChild
  <2>4. \A u \in Task : task'[u].model = task[u].model
    BY <1>3 DEF TypeOK, Tasks
  <2>5. task[t].pid # mgr.child
    BY <1>1 DEF Handles, HandleIsPid
  <2>6. Handles'
    BY <1>1, <1>3, <2>3, <2>4, <2>5, ReapKeeps
  <2> QED BY <2>1, <2>2, <2>6
<1> QED BY <1>2, <1>3

LEMMA TaskReapsKeeps ==
  ASSUME Consistent, NEW t \in Task, TaskReaps(t)
  PROVE  Consistent'
<1> USE DEF Consistent, TaskReaps
<1>1. task[t].pid \in Pid /\ Holds(t, task[t].pid)
  BY DEF TaskStages, Holds
<1>2. TypeOK'
  <2>1. task' \in [Task -> Tasks]
    BY DEF TypeOK, Tasks, TaskPcs, Notes, MaybePid, MaybeModel, NoTask
  <2>2. proc' \in [Pid -> Processes]
    BY DEF TypeOK, Gone, Processes, Statuses, Origins, MaybeModel
  <2> QED BY <2>1, <2>2 DEF TypeOK
<1>3. TaskStages' /\ DownIsReset'
  BY BusyIsUp DEF TaskStages, DownIsReset, TypeOK, Tasks, NoTask
<1>4. \A u \in Task, q \in Pid : Holds(u, q)' <=> Holds(u, q) /\ q # task[t].pid
  BY <1>1 DEF Holds, TypeOK, Tasks, Handles, TaskOwnsChild, NoTask
<1>5. \A u \in Task, q \in Pid : Holds(u, q)' => task'[u].model = task[u].model
  BY DEF TypeOK, Tasks, Holds, NoTask
<1>6. task[t].pid # mgr.child
  BY <1>1 DEF Handles, HandleIsPid
<1>7. Handles'
  BY <1>1, <1>4, <1>5, <1>6, ReapKeeps
<1> QED BY <1>2, <1>3, <1>7

LEMMA TaskSettlesReadyKeeps ==
  ASSUME Consistent, NEW t \in Task, TaskSettlesReady(t)
  PROVE  Consistent'
<1> USE DEF Consistent, TaskSettlesReady
<1> DEFINE p == task[t].pid
<1>1. p \in Pid /\ Holds(t, p) /\ p # mgr.child /\ listener = p
  BY DEF TaskStages, Holds, Handles, HandleIsPid
<1>2. mgr.child # NoPid => mgr.child \in Pid /\ proc[mgr.child].status \in {"wedged", "zombie"}
  BY <1>1 DEF Handles, PortHasOneOwner, TypeOK, Managed, MaybePid
<1>3. \A q \in Pid : proc'[q] = proc[q] \/ (q = mgr.child /\ proc[q].status = "zombie" /\ proc'[q] = Gone)
  OBVIOUS
<1>4. proc'[p] = proc[p]
  BY <1>1
<1>5. /\ mgr'.child = p /\ mgr'.pid = p /\ mgr'.model = task[t].model
      /\ disk' = task[t].model /\ dying' = NoPid
  BY DEF TypeOK, Managed, LockFree
<1>6. TypeOK'
  <2>1. mgr' \in Managed
    BY <1>1 DEF TypeOK, Managed, Tasks, States, MaybePid
  <2>2. task' \in [Task -> Tasks]
    BY DEF TypeOK, Tasks, TaskPcs, Notes, MaybePid, MaybeModel, NoTask
  <2>3. proc' \in [Pid -> Processes]
    BY DEF TypeOK, Gone, Processes, Statuses, Origins, MaybeModel
  <2>4. disk' \in MaybeModel \cup {NoFile}
    BY DEF TypeOK, Tasks
  <2> QED BY <1>5, <2>1, <2>2, <2>3, <2>4 DEF TypeOK, MaybePid
<1>7. TaskStages' /\ DownIsReset'
  BY BusyIsUp DEF TaskStages, DownIsReset, TypeOK, Tasks, NoTask
<1>8. \A u \in Task, q \in Pid : Holds(u, q)' <=> Holds(u, q) /\ q # p
  BY <1>1 DEF Holds, TypeOK, Tasks, Handles, TaskOwnsChild, NoTask
<1>9. \A u \in Task, q \in Pid : Holds(u, q)' => task'[u].model = task[u].model
  BY DEF TypeOK, Tasks, Holds, NoTask
<1>10. \A u \in Task, q \in Pid : Holds(u, q) => q # mgr.child
  BY DEF Handles, HandleIsPid
<1>11. HandleIsPid' /\ DyingIsChild' /\ ReportedModelIsServed' /\ ChildIsPersisted'
  BY <1>1, <1>4, <1>5, <1>8 DEF Handles, TaskOwnsChild, HandleIsPid, DyingIsChild,
     ReportedModelIsServed, ChildIsPersisted
<1>12. TaskOwnsChild'
  BY <1>3, <1>8, <1>9, <1>10 DEF Handles, TaskOwnsChild
<1>13. PortHasOneOwner'
  <2>1. proc'[p].status \in {"serving", "wedged"}
    BY <1>1, <1>4 DEF Handles, PortHasOneOwner, TaskOwnsChild, TypeOK, Processes
  <2> QED BY <1>1, <1>3, <1>4, <1>5, <2>1 DEF Handles, PortHasOneOwner, Gone
<1>14. NoLeakedServer'
  BY <1>1, <1>2, <1>3, <1>5, <1>8 DEF Handles, NoLeakedServer, Live, Held, Gone
<1> QED BY <1>6, <1>7, <1>11, <1>12, <1>13, <1>14 DEF Handles

LEMMA TaskSettlesByKillKeeps ==
  ASSUME Consistent, NEW t \in Task, TaskSettlesByKill(t)
  PROVE  Consistent'
<1> USE DEF Consistent, TaskSettlesByKill
<1>1. task[t].pid \in Pid /\ {task[t].pid} \in SUBSET Pid
  BY DEF TaskStages
<1>2. TypeOK'
  <2>1. mgr' \in Managed
    BY DEF TypeOK, Managed, States, Errors
  <2>2. task' \in [Task -> Tasks]
    BY DEF TypeOK, Tasks, TaskPcs
  <2> QED BY <1>1, <2>1, <2>2, SignalType DEF TypeOK
<1>3. TaskStages' /\ DownIsReset'
  BY <1>1, BusyIsUp DEF TaskStages, DownIsReset, TypeOK, Tasks
<1>4. \A u \in Task, q \in Pid : Holds(u, q)' <=> Holds(u, q)
  BY DEF Holds, TypeOK, Tasks
<1>5. \A u \in Task, q \in Pid : Holds(u, q) => task'[u].model = task[u].model
  BY DEF TypeOK, Tasks
<1>6. mgr'.child = mgr.child /\ mgr'.pid = mgr.pid /\ mgr'.model = mgr.model
  BY DEF TypeOK, Managed
<1>7. Handles'
  BY <1>1, <1>4, <1>5, <1>6, SignalKeeps
<1> QED BY <1>2, <1>3, <1>7

LEMMA TaskSettlesCrashKeeps ==
  ASSUME Consistent, NEW t \in Task, TaskSettlesCrash(t)
  PROVE  Consistent'
<1> USE DEF Consistent, TaskSettlesCrash, os
<1>1. TypeOK'
  <2>1. mgr' \in Managed
    BY DEF TypeOK, Managed, States, Errors
  <2>2. task' \in [Task -> Tasks]
    BY DEF TypeOK, Tasks, TaskPcs, Notes, MaybePid, MaybeModel, NoTask
  <2> QED BY <2>1, <2>2 DEF TypeOK
<1>2. TaskStages' /\ DownIsReset'
  BY BusyIsUp DEF TaskStages, DownIsReset, TypeOK, Tasks, NoTask
<1>3. \A u \in Task, q \in Pid : Holds(u, q)' <=> Holds(u, q)
  BY DEF Holds, TypeOK, Tasks, TaskStages, NoTask
<1>4. \A u \in Task, q \in Pid : Holds(u, q) => task'[u].model = task[u].model
  BY DEF TypeOK, Tasks, Holds, TaskStages
<1>5. Handles'
  BY <1>3, <1>4, HandlesKept DEF TypeOK, Managed
<1> QED BY <1>1, <1>2, <1>5

LEMMA TaskFailsKeeps ==
  ASSUME Consistent, NEW t \in Task, TaskFails(t)
  PROVE  Consistent'
<1> USE DEF Consistent, TaskFails, os
<1>1. TypeOK'
  <2>1. mgr' \in Managed
    BY DEF TypeOK, Managed, States, Errors, TaskStages
  <2>2. task' \in [Task -> Tasks]
    BY DEF TypeOK, Tasks, TaskPcs, Notes, MaybePid, MaybeModel, NoTask
  <2> QED BY <2>1, <2>2 DEF TypeOK
<1>2. TaskStages' /\ DownIsReset'
  BY BusyIsUp DEF TaskStages, DownIsReset, TypeOK, Tasks, NoTask
<1>3. Handles'
  BY HandlesKept DEF TypeOK, Managed, Tasks, Holds, NoTask
<1> QED BY <1>1, <1>2, <1>3

LEMMA TaskStepKeeps ==
  ASSUME Consistent, NEW t \in Task, TaskStep(t)
  PROVE  Consistent'
BY LoadSpawnsKeeps, TaskKillsKeeps, TaskChecksKeeps, TaskAdoptsKeeps, TaskSpawnsKeeps,
   TaskPollsKeeps, TaskSettlesReadyKeeps, TaskSettlesByKillKeeps, TaskReapsKeeps,
   TaskSettlesCrashKeeps, TaskFailsKeeps DEF TaskStep

-----------------------------------------------------------------------------
(* Stops. A manager that has let go of its child owes nobody anything.     *)

LEMMA StopKeeps ==
  ASSUME Consistent, Stop
  PROVE  Consistent'
<1> USE DEF Consistent, Stop
<1>1. mgr'.child = NoPid /\ mgr'.pid = NoPid /\ dying' = NoPid
  BY DEF Fresh, LockFree
<1>2. TypeOK'
  <2>1. mgr' \in Managed /\ disk' \in MaybeModel
    BY DEF Fresh, TypeOK, Managed, States, Errors, MaybePid, MaybeModel
  <2> QED BY <2>1, KillChildType DEF TypeOK
<1>3. TaskStages' /\ DownIsReset'
  BY DEF TaskStages, DownIsReset
<1>4. \A u \in Task, q \in Pid : Holds(u, q)' <=> Holds(u, q)
  BY DEF Holds
<1>5. HandleIsPid' /\ DyingIsChild' /\ ReportedModelIsServed' /\ ChildIsPersisted'
  BY <1>1 DEF HandleIsPid, DyingIsChild, ReportedModelIsServed, ChildIsPersisted
<1>6. TaskOwnsChild'
  <2>1. SUFFICES ASSUME NEW u \in Task, NEW p \in Pid, Holds(u, p)
                 PROVE  /\ proc'[p].status \notin {"free", "squatting", "alien"}
                        /\ proc'[p].origin = "daemon"
                        /\ proc'[p].model = task[u].model
    BY <1>4 DEF TaskOwnsChild, Handles
  <2>2. p # mgr.child
    BY <2>1 DEF Handles, HandleIsPid, TypeOK, Managed, MaybePid
  <2>3. proc'[p] \in {proc[p], Signalled(p)}
    BY <2>2 DEF KillChild, TypeOK
  <2> QED BY <2>1, <2>3, HeldSurvivesSignal DEF Handles, TaskOwnsChild, Held
<1>7. PortHasOneOwner'
  BY <1>1 DEF Handles, PortHasOneOwner, KillChild, Signalled, Exited, Gone, Live, PortAfter,
     TypeOK, Processes, MaybePid
<1>8. NoLeakedServer'
  BY <1>1, <1>4 DEF Handles, NoLeakedServer, HandleIsPid, KillChild, Signalled, Exited, Live,
     Held, Gone, TypeOK, Processes, Managed, MaybePid
<1> QED BY <1>2, <1>3, <1>5, <1>6, <1>7, <1>8 DEF Handles

(* What an emergency stop leaves of a manager.                             *)
LEMMA EmergencyType ==
  ASSUME TypeOK
  PROVE  Emergency \in Managed /\ Emergency.child = NoPid /\ Emergency.pid = NoPid
BY DEF Emergency, TypeOK, Managed, States, Errors, MaybePid, MaybeModel

(* Without a child nothing is forgotten by forgetting the pid.             *)
LEMMA EmergencyStopKeeps ==
  ASSUME Consistent, EmergencyStop
  PROVE  Consistent'
<1> USE DEF Consistent, EmergencyStop
<1>1. CASE mgr.child = NoPid
  <2>1. /\ mgr'.child = NoPid /\ mgr'.pid = NoPid /\ dying' = NoPid
        /\ UNCHANGED <<proc, listener, task, up>>
    BY <1>1, EmergencyType DEF LockFree, os
  <2>2. TypeOK'
    <3>1. mgr' \in Managed /\ disk' \in MaybeModel
      BY <1>1, EmergencyType DEF MaybeModel
    <3> QED BY <2>1, <3>1 DEF TypeOK
  <2>3. TaskStages' /\ DownIsReset'
    BY <2>1 DEF TaskStages, DownIsReset
  <2>4. HandleIsPid' /\ DyingIsChild' /\ ReportedModelIsServed' /\ ChildIsPersisted'
    BY <2>1 DEF HandleIsPid, DyingIsChild, ReportedModelIsServed, ChildIsPersisted
  <2>5. TaskOwnsChild' /\ PortHasOneOwner' /\ NoLeakedServer'
    BY <1>1, <2>1 DEF Handles, TaskOwnsChild, PortHasOneOwner, NoLeakedServer, Holds, Held, Live
  <2> QED BY <2>2, <2>3, <2>4, <2>5 DEF Handles
<1>2. CASE mgr.child # NoPid
  <2>1. {mgr.child} \in SUBSET Pid /\ Signal({mgr.child}) /\ dying' = mgr.child
    BY <1>2 DEF TypeOK, Managed, MaybePid
  <2>2. UNCHANGED <<mgr, task, disk, up, poll, seen>>
    BY <1>2
  <2>3. TypeOK'
    BY <2>1, <2>2, SignalType DEF TypeOK, MaybePid
  <2>4. TaskStages' /\ DownIsReset'
    BY <2>2 DEF TaskStages, DownIsReset
  <2>5. \A u \in Task, q \in Pid : Holds(u, q)' <=> Holds(u, q)
    BY <2>2 DEF Holds
  <2>6. Handles'
    BY <2>1, <2>2, <2>5, SignalKeeps
  <2> QED BY <2>3, <2>4, <2>6
<1> QED BY <1>1, <1>2

LEMMA EmergencyReapsKeeps ==
  ASSUME Consistent, EmergencyReaps
  PROVE  Consistent'
<1> USE DEF Consistent, EmergencyReaps
<1>1. dying = mgr.child /\ dying \in Pid
  BY DEF Handles, DyingIsChild, TypeOK, MaybePid
<1>2. mgr'.child = NoPid /\ mgr'.pid = NoPid
  BY EmergencyType
<1>3. TypeOK'
  <2>1. mgr' \in Managed
    BY EmergencyType
  <2>2. proc' \in [Pid -> Processes]
    BY DEF TypeOK, Gone, Processes, Statuses, Origins, MaybeModel
  <2> QED BY <2>1, <2>2 DEF TypeOK, MaybePid, MaybeModel
<1>4. TaskStages' /\ DownIsReset'
  BY <1>1 DEF TaskStages, DownIsReset
<1>5. /\ proc'[dying] = Gone
      /\ \A q \in Pid : q # dying => proc'[q] = proc[q]
  BY <1>1 DEF TypeOK
<1>6. HandleIsPid' /\ DyingIsChild' /\ ReportedModelIsServed' /\ ChildIsPersisted'
  BY <1>2 DEF HandleIsPid, DyingIsChild, ReportedModelIsServed, ChildIsPersisted
<1>7. TaskOwnsChild'
  BY <1>1, <1>5 DEF Handles, TaskOwnsChild, HandleIsPid, Holds
<1>8. PortHasOneOwner'
  BY <1>2, <1>5 DEF Handles, PortHasOneOwner, Gone, TypeOK, MaybePid
<1>9. NoLeakedServer'
  BY <1>1, <1>5 DEF Handles, NoLeakedServer, Live, Held, Holds, Gone
<1> QED BY <1>3, <1>4, <1>6, <1>7, <1>8, <1>9 DEF Handles

LEMMA EmergencyAbortedKeeps ==
  ASSUME Consistent, EmergencyAborted
  PROVE  Consistent'
<1> USE DEF Consistent, EmergencyAborted, os
<1>1. TypeOK' /\ TaskStages' /\ DownIsReset'
  BY DEF TypeOK, MaybePid, TaskStages, DownIsReset
<1>2. Handles'
  BY HandlesKept DEF Holds
<1> QED BY <1>1, <1>2

LEMMA CooldownEndsKeeps ==
  ASSUME Consistent, CooldownEnds
  PROVE  Consistent'
<1> USE DEF Consistent, CooldownEnds, os
<1>1. TypeOK'
  BY DEF TypeOK, Managed
<1>2. TaskStages' /\ DownIsReset'
  BY DEF TaskStages, DownIsReset, Fresh
<1>3. Handles'
  BY HandlesKept DEF Holds, TypeOK, Managed
<1> QED BY <1>1, <1>2, <1>3

-----------------------------------------------------------------------------
(* The poll loop and the status handler: no process, no handle changes     *)
(* hands but by an adoption.                                               *)

LEMMA PollRecoveryKeeps ==
  ASSUME Consistent, PollRecovery \/ PollConnects \/ PollAdoption \/ PollProbes
  PROVE  Consistent'
<1> USE DEF Consistent, os
<1>1. /\ UNCHANGED <<mgr, task, seen, dying, disk, proc, listener, up>>
      /\ up
  BY DEF PollRecovery, PollConnects, PollAdoption, PollProbes, PollStep
<1>2. poll' \in Polls
  <2>1. CASE PollRecovery
    BY <2>1 DEF PollRecovery, TypeOK, Polls
  <2>2. CASE PollConnects
    BY <2>2 DEF PollConnects, TypeOK, Polls
  <2>3. CASE PollAdoption
    BY <2>3 DEF PollAdoption, TypeOK, Polls
  <2>4. CASE PollProbes
    BY <2>4 DEF PollProbes, TypeOK, Polls, PollIdle, MaybeModel, MaybePid
  <2> QED BY <2>1, <2>2, <2>3, <2>4
<1>3. TypeOK' /\ TaskStages' /\ DownIsReset'
  BY <1>1, <1>2 DEF TypeOK, TaskStages, DownIsReset
<1>4. Handles'
  BY <1>1, HandlesKept DEF Holds
<1> QED BY <1>3, <1>4

LEMMA PollRecoversKeeps ==
  ASSUME Consistent, PollRecovers
  PROVE  Consistent'
<1> USE DEF Consistent, PollRecovers, PollStep, os
<1>1. mgr' \in Managed /\ poll' \in Polls
  BY DEF TypeOK, Managed, States, Errors, Polls
<1>2. TypeOK' /\ TaskStages' /\ DownIsReset'
  BY <1>1 DEF TypeOK, TaskStages, DownIsReset
<1>3. Handles'
  BY HandlesKept DEF Holds, TypeOK, Managed
<1> QED BY <1>2, <1>3

(* adopt_external, whoever calls it.                                       *)
LEMMA AdoptExternalKeeps ==
  ASSUME Consistent, NEW p \in Pid, NEW m \in MaybeModel, AdoptExternal(p, m), LockFree,
         UNCHANGED <<task, seen, dying, disk, proc, listener, up>>, up, poll' \in Polls
  PROVE  Consistent'
<1> USE DEF Consistent
<1>1. \A u \in Task, q \in Pid : Holds(u, q)' <=> Holds(u, q)
  BY DEF Holds
<1>2. Handles' /\ mgr' \in Managed
  <2>1. CASE mgr.child # NoPid \/ mgr.state = "Loading" \/ mgr.cooldown
    BY <1>1, <2>1, HandlesKept DEF AdoptExternal, TypeOK
  <2>2. CASE ~(mgr.child # NoPid \/ mgr.state = "Loading" \/ mgr.cooldown)
    BY <1>1, <2>2, AdoptionKeeps DEF AdoptExternal
  <2> QED BY <2>1, <2>2
<1>3. TypeOK' /\ TaskStages' /\ DownIsReset'
  BY <1>2 DEF TypeOK, TaskStages, DownIsReset
<1> QED BY <1>2, <1>3

LEMMA PollAdoptsKeeps ==
  ASSUME Consistent, PollAdopts
  PROVE  Consistent'
<1>1. poll.pid \in Pid /\ poll.model \in MaybeModel /\ PollIdle \in Polls
  BY DEF Consistent, TypeOK, Polls, PollAdopts, PollStep, PollIdle, MaybePid, MaybeModel
<1> QED BY <1>1, AdoptExternalKeeps DEF PollAdopts, PollStep, os

LEMMA StatusAdoptsKeeps ==
  ASSUME Consistent, StatusAdopts
  PROVE  Consistent'
<1>1. seen.pid \in Pid /\ seen.model \in MaybeModel /\ poll \in Polls
  BY DEF Consistent, TypeOK, Sighting, MaybePid, StatusAdopts
<1> QED BY <1>1, AdoptExternalKeeps DEF StatusAdopts, os

LEMMA SnapshotKeeps ==
  ASSUME Consistent, Snapshot
  PROVE  Consistent'
<1> USE DEF Consistent, Snapshot, os
<1>1. seen' \in Sighting
  BY DEF TypeOK, Processes, Sighting, Nothing, MaybePid, MaybeModel
<1>2. TypeOK' /\ TaskStages' /\ DownIsReset'
  BY <1>1 DEF TypeOK, TaskStages, DownIsReset
<1>3. Handles'
  BY HandlesKept DEF Holds
<1> QED BY <1>2, <1>3

-----------------------------------------------------------------------------
(* The daemon's own life.                                                  *)

LEMMA DaemonStartsKeeps ==
  ASSUME Consistent, NEW t \in Task, DaemonStarts(t)
  PROVE  Consistent'
<1> USE DEF Consistent, Becomes, DaemonStarts, NoTask, os
<1>1. mgr = Fresh /\ dying = NoPid
  BY DEF DownIsReset
<1>2. TypeOK'
  <2>1. mgr' \in Managed
    BY DEF Fresh, Managed, States, Errors, MaybeModel, MaybePid
  <2>2. task' \in [Task -> Tasks]
    BY DEF TypeOK, Tasks, TaskPcs, Notes, MaybePid, MaybeModel
  <2> QED BY <2>1, <2>2 DEF TypeOK
<1>3. TaskStages' /\ DownIsReset'
  BY DEF TaskStages, DownIsReset, TypeOK, Tasks
<1>4. Handles'
  BY <1>1, HandlesKept DEF TypeOK, Managed, Tasks, Holds, Fresh
<1> QED BY <1>2, <1>3, <1>4

LEMMA DaemonCrashesKeeps ==
  ASSUME Consistent, DaemonCrashes
  PROVE  Consistent'
<1> USE DEF Consistent, DaemonCrashes
<1>1. TypeOK'
  <2>1. mgr' \in Managed /\ poll' \in Polls /\ seen' \in Sighting /\ dying' \in MaybePid
    BY DEF Fresh, PollIdle, Nothing, Managed, Polls, Sighting, States, Errors, MaybePid, MaybeModel
  <2>2. task' \in [Task -> Tasks]
    BY DEF NoTask, Tasks, TaskPcs, Notes, MaybePid, MaybeModel
  <2>3. proc' \in [Pid -> Processes]
    BY DEF TypeOK, Gone, Processes, Statuses, Origins, MaybeModel
  <2>4. disk' \in MaybeModel \cup {NoFile}
    BY DEF TypeOK
  <2> QED BY <2>1, <2>2, <2>3, <2>4 DEF TypeOK
<1>2. TaskStages' /\ DownIsReset'
  BY DEF TaskStages, DownIsReset, NoTask
<1>3. mgr'.child = NoPid /\ dying' = NoPid /\ \A u \in Task, q \in Pid : ~Holds(u, q)'
  BY DEF Fresh, NoTask, Holds
<1>4. HandleIsPid' /\ DyingIsChild' /\ ReportedModelIsServed' /\ ChildIsPersisted' /\ TaskOwnsChild'
  BY <1>3 DEF HandleIsPid, DyingIsChild, ReportedModelIsServed, ChildIsPersisted, TaskOwnsChild
<1>5. PortHasOneOwner'
  BY <1>3 DEF Handles, PortHasOneOwner, Gone, TypeOK, Processes, MaybePid
<1>6. NoLeakedServer'
  BY DEF NoLeakedServer, Live, Gone, TypeOK, Processes
<1> QED BY <1>1, <1>2, <1>4, <1>5, <1>6 DEF Handles

-----------------------------------------------------------------------------
(* The machine.                                                            *)

(* A process that exits, by itself or because the port is taken.           *)
LEMMA ExitKeeps ==
  ASSUME Consistent, NEW p \in Pid, Signal({p}), UNCHANGED Machine
  PROVE  Consistent'
<1> USE DEF Consistent, Machine
<1>1. {p} \in SUBSET Pid
  OBVIOUS
<1>2. TypeOK' /\ TaskStages' /\ DownIsReset'
  BY <1>1, SignalType DEF TypeOK, TaskStages, DownIsReset
<1>3. Handles'
  BY <1>1, SignalKeeps DEF Holds
<1> QED BY <1>2, <1>3

(* A process changes its status, or a new one appears in a free slot.      *)
LEMMA OneProcessChanges ==
  ASSUME Consistent, UNCHANGED Machine, NEW p \in Pid, NEW r \in Processes,
         proc' = [proc EXCEPT ![p] = r],
         \/ r.origin = proc[p].origin /\ r.model = proc[p].model
            /\ proc[p].status \in {"booting", "serving"} /\ r.status \in {"serving", "wedged"}
         \/ proc[p] = Gone /\ r.origin = "external",
         r.status \in {"serving", "squatting"} => listener' = p,
         \/ listener' = listener /\ (listener # p \/ r.status = "wedged")
         \/ listener = NoPid /\ listener' = p /\ r.status \in {"serving", "squatting"}
  PROVE  Consistent'
<1> USE DEF Consistent, Machine
<1>1. /\ proc'[p] = r
      /\ \A q \in Pid : q # p => proc'[q] = proc[q]
  BY DEF TypeOK
<1>2. TypeOK' /\ TaskStages' /\ DownIsReset'
  BY <1>1 DEF TypeOK, TaskStages, DownIsReset, MaybePid
<1>3. HandleIsPid' /\ DyingIsChild' /\ ReportedModelIsServed' /\ ChildIsPersisted'
  BY <1>1 DEF Handles, HandleIsPid, DyingIsChild, ReportedModelIsServed, ChildIsPersisted,
     Holds, Gone, TypeOK, Managed, MaybePid
<1>4. TaskOwnsChild'
  BY <1>1 DEF Handles, TaskOwnsChild, Holds, Gone
<1>5. PortHasOneOwner'
  BY <1>1 DEF Handles, PortHasOneOwner, HandleIsPid, Gone, TypeOK, Managed, MaybePid
<1>6. NoLeakedServer'
  BY <1>1 DEF Handles, NoLeakedServer, Live, Held, Holds
<1> QED BY <1>2, <1>3, <1>4, <1>5, <1>6 DEF Handles

LEMMA MachineKeeps ==
  ASSUME Consistent, NEW p \in Pid, Boots(p) \/ BindFails(p) \/ Exits(p) \/ Wedges(p) \/ Appears(p)
  PROVE  Consistent'
<1> USE DEF Consistent
<1>1. CASE Boots(p)
  <2> DEFINE r == [proc[p] EXCEPT !.status = "serving"]
  <2>1. r \in Processes /\ r.status = "serving"
        /\ r.origin = proc[p].origin /\ r.model = proc[p].model
    BY <1>1 DEF TypeOK, Processes, Statuses
  <2>2. proc' = [proc EXCEPT ![p] = r]
    BY <1>1 DEF Boots, TypeOK
  <2> QED BY <1>1, <2>1, <2>2, OneProcessChanges DEF Boots
<1>2. CASE BindFails(p) \/ Exits(p)
  BY <1>2, ExitKeeps DEF BindFails, Exits
<1>3. CASE Wedges(p)
  <2> DEFINE r == [proc[p] EXCEPT !.status = "wedged"]
  <2>1. r \in Processes /\ r.status = "wedged"
        /\ r.origin = proc[p].origin /\ r.model = proc[p].model
    BY <1>3 DEF TypeOK, Processes, Statuses
  <2>2. proc' = [proc EXCEPT ![p] = r]
    BY <1>3 DEF Wedges, TypeOK
  <2> QED BY <1>3, <2>1, <2>2, OneProcessChanges DEF Wedges, Machine
<1>4. CASE Appears(p)
  <2>1. listener # p
    BY <1>4 DEF Appears, Gone, Handles, PortHasOneOwner, TypeOK
  <2>2. \A st \in {"booting", "squatting", "alien"}, m \in MaybeModel :
           [status |-> st, model |-> m, origin |-> "external"] \in Processes
    BY DEF Processes, Statuses, Origins
  <2>3. NoModel \in MaybeModel
    BY DEF MaybeModel
  <2> QED BY <1>4, <2>1, <2>2, <2>3, OneProcessChanges DEF Appears
<1> QED BY <1>1, <1>2, <1>3, <1>4

-----------------------------------------------------------------------------
(* Every step keeps it, so that it always holds.                           *)

LEMMA NextKeeps == Consistent /\ [Next]_vars => Consistent'
<1> SUFFICES ASSUME Consistent, [Next]_vars PROVE Consistent'
  OBVIOUS
<1>1. CASE \E t \in Task : \/ \E m \in MaybeModel : Load(t, m)
                           \/ LoadDropped(t) \/ DaemonStarts(t) \/ TaskStep(t)
  BY <1>1, LoadKeeps, LoadDroppedKeeps, DaemonStartsKeeps, TaskStepKeeps
<1>2. CASE Stop \/ EmergencyStop \/ EmergencyReaps \/ EmergencyAborted \/ CooldownEnds
  BY <1>2, StopKeeps, EmergencyStopKeeps, EmergencyReapsKeeps, EmergencyAbortedKeeps, CooldownEndsKeeps
<1>3. CASE PollNext
  BY <1>3, PollRecoveryKeeps, PollRecoversKeeps, PollAdoptsKeeps DEF PollNext
<1>4. CASE Snapshot \/ StatusAdopts \/ DaemonCrashes
  BY <1>4, SnapshotKeeps, StatusAdoptsKeeps, DaemonCrashesKeeps
<1>5. CASE MachineNext
  BY <1>5, MachineKeeps DEF MachineNext
<1>6. CASE UNCHANGED vars
  <2>1. UNCHANGED <<mgr, task, poll, seen, dying, disk, proc, listener, up>>
    BY <1>6 DEF vars
  <2>2. TypeOK' /\ TaskStages' /\ DownIsReset'
    BY <2>1 DEF Consistent, TypeOK, TaskStages, DownIsReset
  <2>3. Handles'
    BY <2>1, HandlesKept DEF Consistent, Holds
  <2> QED BY <2>2, <2>3 DEF Consistent
<1> QED BY <1>1, <1>2, <1>3, <1>4, <1>5, <1>6 DEF Next

(* The inductive invariant.                                                *)
THEOREM AlwaysConsistent == Spec => []Consistent
<1>1. Init => Consistent
  BY InitConsistent
<1>2. Consistent /\ [Next]_vars => Consistent'
  BY NextKeeps
<1> QED BY <1>1, <1>2, PTL DEF Spec

(* Every variable keeps its type.                                          *)
THEOREM TypeCorrect == Spec => []TypeOK
<1>1. Consistent => TypeOK
  BY DEF Consistent
<1> QED BY <1>1, AlwaysConsistent, PTL

(* A Child handle and the recorded pid are one unreaped process.           *)
THEOREM HandleIsAlwaysPid == Spec => []HandleIsPid
<1>1. Consistent => HandleIsPid
  BY DEF Consistent, Handles
<1> QED BY <1>1, AlwaysConsistent, PTL

(* The model a manager reports for its own server is the one it serves.    *)
THEOREM ReportIsTrue == Spec => []ReportedModelIsServed
<1>1. Consistent => ReportedModelIsServed
  BY DEF Consistent, Handles
<1> QED BY <1>1, AlwaysConsistent, PTL

(* The state file names the model of the child at every moment at which    *)
(* the daemon may crash.                                                   *)
THEOREM FileIsCurrent == Spec => []ChildIsPersisted
<1>1. Consistent => ChildIsPersisted
  BY DEF Consistent, Handles
<1> QED BY <1>1, AlwaysConsistent, PTL

(* However many loads overlap, with stops, emergency stops, adoptions and  *)
(* clients that go away, no server that can be killed loses its owner.     *)
THEOREM NothingLeaks == Spec => []NoLeakedServer
<1>1. Consistent => NoLeakedServer
  BY DEF Consistent, Handles
<1> QED BY <1>1, AlwaysConsistent, PTL

(* A step that gives the manager another pid inside the cooldown gives it  *)
(* a child of its own.                                                     *)
THEOREM StopsAreRespected == Spec => StopIsRespected
<1> DEFINE Respected == mgr.cooldown /\ mgr'.pid # mgr.pid => mgr'.pid = mgr'.child
<1>1. TypeOK /\ [Next]_vars => Respected
  <2> SUFFICES ASSUME TypeOK, [Next]_vars, mgr.cooldown, mgr'.pid # mgr.pid
               PROVE  mgr'.pid = mgr'.child
    OBVIOUS
  <2>1. mgr \in Managed
    BY DEF TypeOK
  <2>2. CASE \E t \in Task : \/ \E m \in MaybeModel : Load(t, m)
                             \/ LoadDropped(t) \/ DaemonStarts(t)
    BY <2>1, <2>2 DEF Managed, Load, LoadDropped, DaemonStarts, Fresh
  <2>3. ASSUME NEW t \in Task, TaskStep(t) PROVE mgr'.pid = mgr'.child
    BY <2>1, <2>3 DEF TaskStep, Managed, LoadSpawns, TaskKills, TaskChecks, TaskAdopts, TaskSpawns,
       TaskPolls, TaskSettlesReady, TaskSettlesByKill, TaskReaps, TaskSettlesCrash, TaskFails
  <2>4. CASE Stop \/ EmergencyStop \/ EmergencyReaps \/ EmergencyAborted \/ CooldownEnds
    BY <2>1, <2>4, EmergencyType DEF Managed, Stop, EmergencyStop, EmergencyReaps,
       EmergencyAborted, CooldownEnds, Fresh
  <2>5. CASE PollNext
    BY <2>1, <2>5 DEF Managed, PollNext, PollRecovery, PollConnects, PollRecovers, PollAdoption,
       PollProbes, PollAdopts, AdoptExternal
  <2>6. CASE Snapshot \/ StatusAdopts \/ DaemonCrashes
    BY <2>6 DEF Snapshot, StatusAdopts, AdoptExternal, DaemonCrashes, Fresh
  <2>7. CASE MachineNext
    BY <2>7 DEF MachineNext, Boots, BindFails, Exits, Wedges, Appears, Machine
  <2>8. CASE UNCHANGED vars
    BY <2>8 DEF vars
  <2> QED BY <2>2, <2>3, <2>4, <2>5, <2>6, <2>7, <2>8 DEF Next
<1>2. TypeOK /\ [Next]_vars => [Respected]_vars
  BY <1>1
<1> QED BY <1>2, TypeCorrect, PTL DEF Spec, StopIsRespected

-----------------------------------------------------------------------------
(***************************************************************************)
(* ServeManager implements ServeLifecycle, for any number of models,       *)
(* processes and overlapping loads, as long as no client goes away between *)
(* the two holds of the lock that load() takes; what the abstract module   *)
(* promises of the phases then holds of the manager.                       *)
(***************************************************************************)
Phase   == mgr.state
HasPid  == mgr.pid # NoPid
Loads   == {t \in Task : task[t].pc \notin {"idle", "killing"}}

(* Only the pc of a task counts, and only whether it is past its end.      *)
LEMMA LoadsKept ==
  ASSUME NEW t \in Task,
         \A u \in Task \ {t} : task'[u] = task[u],
         task[t].pc \notin {"idle", "killing"} <=> task'[t].pc \notin {"idle", "killing"}
  PROVE  Loads' = Loads
<1>1. \A u \in Task : task[u].pc \notin {"idle", "killing"} <=> task'[u].pc \notin {"idle", "killing"}
  OBVIOUS
<1> QED BY <1>1 DEF Loads

LEMMA LoadsEnded ==
  ASSUME NEW t \in Task,
         \A u \in Task \ {t} : task'[u] = task[u],
         task[t].pc \notin {"idle", "killing"}, task'[t].pc \in {"idle", "killing"}
  PROVE  t \in Loads /\ Loads' = Loads \ {t}
<1>1. \A u \in Task \ {t} : task[u].pc \notin {"idle", "killing"} <=> task'[u].pc \notin {"idle", "killing"}
  OBVIOUS
<1> QED BY <1>1 DEF Loads

LEMMA LoadsBegun ==
  ASSUME NEW t \in Task,
         \A u \in Task \ {t} : task'[u] = task[u],
         task[t].pc \in {"idle", "killing"}, task'[t].pc \notin {"idle", "killing"}
  PROVE  t \notin Loads /\ Loads' = Loads \cup {t}
<1>1. \A u \in Task \ {t} : task[u].pc \notin {"idle", "killing"} <=> task'[u].pc \notin {"idle", "killing"}
  OBVIOUS
<1> QED BY <1>1 DEF Loads

(* A step of a load changes one task.                                      *)
LEMMA OneTaskChanges ==
  ASSUME Consistent, NEW t \in Task,
         (\E m \in MaybeModel : Load(t, m)) \/ DaemonStarts(t) \/ TaskStep(t)
  PROVE  \A u \in Task \ {t} : task'[u] = task[u]
BY DEF Consistent, TypeOK, Load, DaemonStarts, TaskStep, LoadSpawns, TaskKills, TaskChecks, TaskAdopts,
   TaskSpawns, TaskPolls, TaskSettlesReady, TaskSettlesByKill, TaskReaps, TaskSettlesCrash,
   TaskFails, Becomes

-----------------------------------------------------------------------------
Stutters == UNCHANGED <<Phase, HasPid, Loads>>

LEMMA BeginMaps ==
  ASSUME Consistent, NEW t \in Task, (\E m \in MaybeModel : Load(t, m)) \/ DaemonStarts(t)
  PROVE  /\ t \notin Loads /\ Loads' = Loads \cup {t}
         /\ Phase' = "Loading" /\ UNCHANGED HasPid
<1>1. task[t].pc = "idle" /\ task'[t].pc \in {"requested", "queued"}
  BY DEF Consistent, TypeOK, Load, DaemonStarts, Becomes, NoTask
<1>2. mgr'.state = "Loading" /\ mgr'.pid = mgr.pid
  BY DEF Consistent, TypeOK, DownIsReset, Managed, Load, DaemonStarts, Fresh
<1> QED BY <1>1, <1>2, OneTaskChanges, LoadsBegun DEF Phase, HasPid

LEMMA LoadMaps ==
  ASSUME Consistent, NEW t \in Task, TaskStep(t)
  PROVE  \/ Stutters
         \/ Loads # {} /\ ~HasPid' /\ UNCHANGED <<Phase, Loads>>
         \/ /\ t \in Loads /\ Loads' = Loads \ {t}
            /\ \/ Phase' \in {"Bare", "Ready"} /\ HasPid'
               \/ Phase' = "Error" /\ UNCHANGED HasPid
<1> USE DEF Consistent, Stutters, Phase, HasPid, Becomes
<1>1. \A u \in Task \ {t} : task'[u] = task[u]
  BY OneTaskChanges
<1>2. task \in [Task -> Tasks] /\ mgr \in Managed
  BY DEF TypeOK
<1>3. CASE LoadSpawns(t) \/ TaskChecks(t) \/ TaskSpawns(t) \/ TaskPolls(t)
  <2>1. task[t].pc \notin {"idle", "killing"} /\ task'[t].pc \notin {"idle", "killing"}
    BY <1>2, <1>3 DEF LoadSpawns, TaskChecks, TaskSpawns, TaskPolls, Tasks
  <2>2. mgr' = mgr
    BY <1>3 DEF LoadSpawns, TaskChecks, TaskSpawns, TaskPolls
  <2> QED BY <1>1, <2>1, <2>2, LoadsKept
<1>4. CASE TaskReaps(t)
  <2>1. task[t].pc = "killing" /\ task'[t].pc = "idle" /\ mgr' = mgr
    BY <1>2, <1>4 DEF TaskReaps, NoTask
  <2> QED BY <1>1, <2>1, LoadsKept
<1>5. CASE TaskKills(t)
  <2>1. task[t].pc = "queued" /\ task'[t].pc \in {"checking", "failing"}
    BY <1>2, <1>5 DEF TaskKills, Tasks
  <2>2. mgr'.state = mgr.state /\ mgr'.pid = NoPid
    BY <1>2, <1>5 DEF TaskKills, Managed
  <2>3. t \in Loads /\ Loads' = Loads
    BY <1>1, <2>1, LoadsKept DEF Loads
  <2> QED BY <2>2, <2>3
<1>6. CASE TaskAdopts(t)
  <2>1. CASE mgr.child # NoPid \/ mgr.cooldown
    <3>1. mgr' = mgr /\ task[t].pc = "adopting" /\ task'[t].pc = "failing"
      BY <1>2, <1>6, <2>1 DEF TaskAdopts
    <3> QED BY <1>1, <3>1, LoadsKept
  <2>2. CASE ~(mgr.child # NoPid \/ mgr.cooldown)
    <3>1. task[t].pc = "adopting" /\ task'[t].pc = "idle" /\ mgr' = Adopted(task[t].pid, task[t].model)
      BY <1>2, <1>6, <2>2 DEF TaskAdopts, NoTask
    <3>2. task[t].pid # NoPid
      BY <3>1 DEF TaskStages
    <3> QED BY <1>1, <3>1, <3>2, LoadsEnded DEF Adopted
  <2> QED BY <2>1, <2>2
<1>7. CASE TaskSettlesReady(t)
  <2>1. task[t].pc = "settling" /\ task'[t].pc = "idle" /\ task[t].pid # NoPid
    BY <1>2, <1>7 DEF TaskSettlesReady, NoTask, TaskStages
  <2>2. mgr'.state \in {"Bare", "Ready"} /\ mgr'.pid = task[t].pid
    BY <1>2, <1>7 DEF TaskSettlesReady, Managed
  <2> QED BY <1>1, <2>1, <2>2, LoadsEnded
<1>8. CASE TaskSettlesByKill(t) \/ TaskSettlesCrash(t) \/ TaskFails(t)
  <2>1. task[t].pc \in {"settling", "failing"} /\ task'[t].pc \in {"idle", "killing"}
    BY <1>2, <1>8 DEF TaskSettlesByKill, TaskSettlesCrash, TaskFails, NoTask, Tasks
  <2>2. mgr'.state = "Error" /\ mgr'.pid = mgr.pid
    BY <1>2, <1>8 DEF TaskSettlesByKill, TaskSettlesCrash, TaskFails, Managed
  <2> QED BY <1>1, <2>1, <2>2, LoadsEnded
<1> QED BY <1>3, <1>4, <1>5, <1>6, <1>7, <1>8 DEF TaskStep

LEMMA HaltMaps ==
  ASSUME Consistent, Stop \/ EmergencyStop \/ EmergencyReaps \/ EmergencyAborted \/ CooldownEnds
  PROVE  \/ Stutters
         \/ Phase' \in {"Idle", "Error"} /\ ~HasPid' /\ UNCHANGED Loads
<1>1. mgr \in Managed /\ Loads' = Loads
  BY DEF Consistent, TypeOK, Loads, Stop, EmergencyStop, EmergencyReaps, EmergencyAborted, CooldownEnds
<1>2. Emergency.state = "Error"
  BY <1>1 DEF Emergency, Managed
<1> QED BY <1>1, <1>2, EmergencyType DEF Consistent, Stutters, Phase, HasPid, Managed, Stop, EmergencyStop,
       EmergencyReaps, EmergencyAborted, CooldownEnds, Fresh

LEMMA PollMaps ==
  ASSUME Consistent, PollNext \/ Snapshot \/ StatusAdopts
  PROVE  \/ Stutters
         \/ Phase = "Error" /\ Phase' = "Idle" /\ UNCHANGED <<HasPid, Loads>>
         \/ Phase # "Loading" /\ Phase' \in {"Bare", "Ready"} /\ HasPid' /\ UNCHANGED Loads
<1> USE DEF Stutters, Phase, HasPid
<1>1. mgr \in Managed /\ Loads' = Loads
  BY DEF Consistent, TypeOK, Loads, PollNext, PollRecovery, PollConnects, PollRecovers, PollAdoption,
     PollProbes, PollAdopts, Snapshot, StatusAdopts
<1>2. CASE PollRecovery \/ PollConnects \/ PollAdoption \/ PollProbes \/ Snapshot
  BY <1>1, <1>2 DEF PollRecovery, PollConnects, PollAdoption, PollProbes, Snapshot
<1>3. CASE PollRecovers
  BY <1>1, <1>3 DEF PollRecovers, Managed
<1>4. CASE PollAdopts
  <2>1. poll.pid # NoPid
    BY <1>4 DEF Consistent, TypeOK, Polls, PollAdopts, PollStep
  <2> QED BY <1>1, <1>4, <2>1 DEF PollAdopts, AdoptExternal, Adopted
<1>5. CASE StatusAdopts
  BY <1>1, <1>5 DEF StatusAdopts, AdoptExternal, Adopted
<1> QED BY <1>2, <1>3, <1>4, <1>5 DEF PollNext

LEMMA CrashMaps ==
  ASSUME DaemonCrashes
  PROVE  Phase' = "Idle" /\ ~HasPid' /\ Loads' = {}
BY DEF DaemonCrashes, Fresh, NoTask, Phase, HasPid, Loads

-----------------------------------------------------------------------------
(* The client's view of the manager is the one ServeLifecycle describes.   *)
THEOREM ManagerKeepsLifecycle ==
  ASSUME "disconnect" \notin Events
  PROVE  Spec => KeepsLifecycle
<1> USE DEF Phase, HasPid, Loads
<1>1. Init => Lifecycle!Init
  BY DEF Init, Fresh, NoTask, Lifecycle!Init
<1>2. Consistent /\ [Next]_vars => [Lifecycle!Next]_(Lifecycle!vars)
  <2> SUFFICES ASSUME Consistent, [Next]_vars PROVE Lifecycle!Next \/ Stutters
    BY DEF Stutters, Lifecycle!vars
  <2>1. ASSUME NEW t \in Task, (\E m \in MaybeModel : Load(t, m)) \/ DaemonStarts(t)
        PROVE  Lifecycle!Next
    BY <2>1, BeginMaps DEF Lifecycle!Next, Lifecycle!Begin
  <2>2. ASSUME NEW t \in Task, LoadDropped(t) PROVE FALSE
    BY <2>2 DEF LoadDropped
  <2>3. ASSUME NEW t \in Task, TaskStep(t) PROVE Lifecycle!Next \/ Stutters
    BY <2>3, LoadMaps DEF Lifecycle!Next, Lifecycle!Dispose, Lifecycle!End
  <2>4. CASE Stop \/ EmergencyStop \/ EmergencyReaps \/ EmergencyAborted \/ CooldownEnds
    BY <2>4, HaltMaps DEF Lifecycle!Next, Lifecycle!Halt
  <2>5. CASE PollNext \/ Snapshot \/ StatusAdopts
    BY <2>5, PollMaps DEF Lifecycle!Next, Lifecycle!Adopt, Lifecycle!Recover
  <2>6. CASE DaemonCrashes
    BY <2>6, CrashMaps DEF Lifecycle!Next, Lifecycle!Forget
  <2>7. CASE MachineNext
    BY <2>7 DEF MachineNext, Boots, BindFails, Exits, Wedges, Appears, Machine, Stutters
  <2>8. CASE UNCHANGED vars
    BY <2>8 DEF vars, Stutters
  <2> QED BY <2>1, <2>2, <2>3, <2>4, <2>5, <2>6, <2>7, <2>8 DEF Next
<1> QED BY <1>1, <1>2, AlwaysConsistent, PTL DEF Spec, KeepsLifecycle, Lifecycle!Spec

(* So that Loading is never a dead end.                                    *)
THEOREM LoadingAlwaysHasLoad ==
  ASSUME "disconnect" \notin Events
  PROVE  Spec => []LoadingHasLoad
<1>1. Lifecycle!Init => Lifecycle!LoadingIsLoad
  BY DEF Lifecycle!Init, Lifecycle!LoadingIsLoad
<1>2. Lifecycle!LoadingIsLoad /\ [Lifecycle!Next]_(Lifecycle!vars) => Lifecycle!LoadingIsLoad'
  BY DEF Lifecycle!LoadingIsLoad, Lifecycle!Next, Lifecycle!vars, Lifecycle!Begin, Lifecycle!Dispose,
     Lifecycle!End, Lifecycle!Halt, Lifecycle!Adopt, Lifecycle!Recover, Lifecycle!Forget
<1>3. Lifecycle!LoadingIsLoad => LoadingHasLoad
  BY DEF Lifecycle!LoadingIsLoad, LoadingHasLoad
<1> QED BY <1>1, <1>2, <1>3, ManagerKeepsLifecycle, PTL DEF KeepsLifecycle, Lifecycle!Spec

(* And a server that is reported has a process, or a load under way.       *)
THEOREM ReadyIsAlwaysBacked ==
  ASSUME "disconnect" \notin Events
  PROVE  Spec => []ReadyIsBacked
<1>1. Lifecycle!Init => Lifecycle!ReadyIsBacked
  BY DEF Lifecycle!Init, Lifecycle!ReadyIsBacked
<1>2. Lifecycle!ReadyIsBacked /\ [Lifecycle!Next]_(Lifecycle!vars) => Lifecycle!ReadyIsBacked'
  BY DEF Lifecycle!ReadyIsBacked, Lifecycle!Next, Lifecycle!vars, Lifecycle!Begin, Lifecycle!Dispose,
     Lifecycle!End, Lifecycle!Halt, Lifecycle!Adopt, Lifecycle!Recover, Lifecycle!Forget
<1>3. Lifecycle!ReadyIsBacked => ReadyIsBacked
  BY DEF Lifecycle!ReadyIsBacked, ReadyIsBacked
<1> QED BY <1>1, <1>2, <1>3, ManagerKeepsLifecycle, PTL DEF KeepsLifecycle, Lifecycle!Spec
=============================================================================
