------------------------------ MODULE Watchdog ------------------------------
(***************************************************************************)
(* The process watchdog (src/src/watchdog.rs). Every five seconds its loop *)
(* takes the last metrics snapshot, probes the port of each inference      *)
(* process in it, kills what has been unreachable for thirty seconds, and  *)
(* looks for the signature of a GPU lock, whose suspects it kills for good *)
(* once it has lasted fifteen. Snapshots are taken by another task, so the *)
(* loop judges processes by what they were.                                *)
(*                                                                         *)
(* Time is counted in seconds; it passes while the loop sleeps, and while  *)
(* it waits for a process to obey a SIGTERM.                               *)
(***************************************************************************)
EXTENDS Naturals, Sequences, FiniteSets

CONSTANTS
    Pid,        \* the processes; an id does not return while the loop remembers it
    Portless,   \* those without a --port: their port is not probed
    Jitter,     \* by how much a sleep may be longer than check_interval_secs
    Events      \* stubborn: SIGTERM may be ignored; immune: so may SIGKILL

ASSUME WatchdogAssumption ==
    /\ IsFiniteSet(Pid) /\ Portless \subseteq Pid
    /\ Jitter \subseteq Nat /\ Jitter # {}
    /\ Events \subseteq {"stubborn", "immune"}

(* WatchdogConfig::default(), and the bounds in evaluate_gpu_lock and      *)
(* kill_process_with_escalation.                                           *)
CheckInterval  == 5
StuckThreshold == 30
AutoKillDelay  == 30
ConfirmAfter   == 15
TermGrace      == 3

(* Ages are not counted further than this: it is beyond every threshold.   *)
AgeCap == 31

VARIABLES
    proc,       \* the inference processes of the machine
    snap,       \* the snapshot: its processes in order, and those that spin on an idle GPU
    wd,         \* the loop
    stuck,      \* stuck_since, as ages
    lock,       \* gpu_lock_first_seen, as an age
    tried,      \* kill_attempted
    severity,   \* of the last report
    unseen,     \* not in the code: for how long the loop has found no port open
    sigkilled   \* not in the code: the processes that were sent SIGKILL

vars == <<proc, snap, wd, stuck, lock, tried, severity, unseen, sigkilled>>

(* booting: does not listen yet. deaf: does not listen any more.           *)
Statuses == {"none", "booting", "open", "deaf"}

Age   == 0 .. AgeCap
NoAge == AgeCap + 1
Ages  == Age \cup {NoAge}

(* The orders in which ps may list a set of processes.                     *)
Orders(P) == {s \in [1 .. Cardinality(P) -> P] : \A i, j \in DOMAIN s : s[i] = s[j] => i = j}
Lists     == UNION {Orders(P) : P \in SUBSET Pid}
Elems(s)  == {s[i] : i \in DOMAIN s}

WdPcs      == {"asleep", "checking", "suspecting", "judging", "killing", "waiting"}
Severities == <<"None", "Suspected", "Confirmed", "Unrecoverable">>

(* Types; a timer runs exactly while there are suspects, and a loop that   *)
(* has reported has nothing left to do.                                    *)
TypeOK ==
    /\ proc \in [Pid -> Statuses]
    /\ snap \in [listed : Lists, spin : SUBSET Pid]
    /\ wd \in [pc : WdPcs, todo : Lists, suspects : Lists]
    /\ wd.pc = "asleep" => wd.todo = << >> /\ wd.suspects = << >>
    /\ stuck \in [Pid -> Ages]
    /\ lock \in [suspects : Lists, age : Ages]
    /\ lock.age = NoAge <=> lock.suspects = << >>
    /\ tried \subseteq Pid
    /\ severity \in Elems(Severities)
    /\ unseen \in [Pid -> Ages]
    /\ sigkilled \subseteq Pid

NoLock == [suspects |-> << >>, age |-> NoAge]
Asleep == [pc |-> "asleep", todo |-> << >>, suspects |-> << >>]

Init ==
    /\ proc = [p \in Pid |-> "none"]
    /\ snap = [listed |-> << >>, spin |-> {}]
    /\ wd = Asleep
    /\ stuck = [p \in Pid |-> NoAge]
    /\ lock = NoLock
    /\ tried = {}
    /\ severity = "None"
    /\ unseen = [p \in Pid |-> NoAge]
    /\ sigkilled = {}

Alive(p) == proc[p] # "none"

(* check_port_reachable.                                                   *)
Open(p) == p \notin Portless /\ proc[p] = "open"

Later(age, d) == IF age = NoAge THEN NoAge
                 ELSE IF age + d > AgeCap THEN AgeCap ELSE age + d

TimePasses(d) ==
    /\ stuck' = [p \in Pid |-> Later(stuck[p], d)]
    /\ unseen' = [p \in Pid |-> Later(unseen[p], d)]
    /\ lock' = [lock EXCEPT !.age = Later(@, d)]

World   == <<proc, snap>>
History == <<unseen, sigkilled>>

-----------------------------------------------------------------------------
(* The loop. It keeps the snapshot locked from here to the report, so that *)
(* no newer one arrives while it works.                                    *)
Wakes ==
    /\ wd.pc = "asleep"
    /\ \E j \in Jitter : TimePasses(CheckInterval + j)
    /\ wd' = [Asleep EXCEPT !.pc = "checking", !.todo = snap.listed]
    /\ UNCHANGED <<World, tried, severity, sigkilled>>

(* The process that the loop is looking at.                                *)
At(pc)   == wd.pc = pc /\ wd.todo # << >>
Done(pc) == wd.pc = pc /\ wd.todo = << >>
It       == Head(wd.todo)

(* The first time that a port is found closed, or none.                    *)
Since(age, p) == CASE Open(p)                    -> NoAge
                   [] ~Open(p) /\ age = NoAge   -> 0
                   [] OTHER                      -> age

Keeps(event, p) == IF event \in Events THEN {proc[p], "none"} ELSE {"none"}

(* kill_process sends a SIGTERM, and that is all.                          *)
Term(p) == \E s \in Keeps("stubborn", p) : proc' = [proc EXCEPT ![p] = s]

(* evaluate_process: the age of a process that is not killed yet.          *)
Watched(p) == p \notin tried \cup Portless

(* Variant for KillsAreEarned: an open port does not end the stuck time.   *)
ChecksForgetful ==
    /\ At("checking")
    /\ wd' = [wd EXCEPT !.todo = Tail(@)]
    /\ unseen' = [unseen EXCEPT ![It] = IF It \in Portless THEN @ ELSE Since(@, It)]
    /\ stuck' = [stuck EXCEPT ![It] = IF Watched(It) /\ ~Open(It) THEN Since(@, It) ELSE @]
    /\ IF Watched(It) /\ ~Open(It) /\ stuck'[It] >= StuckThreshold
       THEN Term(It) /\ tried' = tried \cup {It}
       ELSE UNCHANGED <<proc, tried>>
    /\ UNCHANGED <<snap, lock, severity, sigkilled>>

(* One process: probe, evaluate_process, and the kill of a stuck one.      *)
Checks ==
    /\ At("checking")
    /\ wd' = [wd EXCEPT !.todo = Tail(@)]
    /\ unseen' = [unseen EXCEPT ![It] = IF It \in Portless THEN @ ELSE Since(@, It)]
    /\ stuck' = [stuck EXCEPT ![It] = IF Watched(It) THEN Since(@, It) ELSE @]
    /\ IF Watched(It) /\ ~Open(It) /\ stuck'[It] >= StuckThreshold
       THEN Term(It) /\ tried' = tried \cup {It}
       ELSE UNCHANGED <<proc, tried>>
    /\ UNCHANGED <<snap, lock, severity, sigkilled>>

(* What is no longer in the snapshot is forgotten.                         *)
CleansUp ==
    LET Present(ages) == [p \in Pid |-> IF p \in Elems(snap.listed) THEN ages[p] ELSE NoAge] IN
    /\ Done("checking")
    /\ stuck' = Present(stuck)
    /\ unseen' = Present(unseen)
    /\ tried' = tried \cap Elems(snap.listed)
    /\ sigkilled' = sigkilled \cap Elems(snap.listed)
    /\ wd' = [wd EXCEPT !.pc = "suspecting", !.todo = snap.listed]
    /\ UNCHANGED <<World, lock, severity>>

(* evaluate_gpu_lock: each port is probed a second time.                   *)
Suspects ==
    /\ At("suspecting")
    /\ wd' = [wd EXCEPT !.todo = Tail(@),
                 !.suspects = IF It \in snap.spin /\ ~Open(It) THEN Append(@, It) ELSE @]
    /\ UNCHANGED <<World, stuck, lock, tried, severity, History>>

(* Variant for SeverityClimbs: the timer belongs to the lock, whoever is   *)
(* suspected of it, and goes on when it has gone.                          *)
TimesOnce ==
    /\ Done("suspecting")
    /\ lock' = IF wd.suspects = << >> THEN lock
               ELSE [suspects |-> wd.suspects, age |-> IF lock.age = NoAge THEN 0 ELSE lock.age]
    /\ wd' = [wd EXCEPT !.pc = "judging"]
    /\ UNCHANGED <<World, stuck, tried, severity, History>>

(* The timer runs as long as the suspects are exactly the same, in the     *)
(* same order.                                                             *)
Times ==
    /\ Done("suspecting")
    /\ lock' = CASE wd.suspects = << >>                                  -> NoLock
                 [] wd.suspects # << >> /\ wd.suspects = lock.suspects   -> lock
                 [] OTHER -> [suspects |-> wd.suspects, age |-> 0]
    /\ wd' = [wd EXCEPT !.pc = "judging"]
    /\ UNCHANGED <<World, stuck, tried, severity, History>>

Judgement ==
    IF wd.suspects = << >> THEN "None"
    ELSE IF lock.age > AutoKillDelay THEN "Unrecoverable"
    ELSE IF lock.age > ConfirmAfter THEN "Confirmed" ELSE "Suspected"

(* In the end the report is written, and the snapshot released.            *)
Reports(s) == severity' = s /\ wd' = Asleep

(* Variant for RebootIsEarned: the first suspect alone is killed.          *)
JudgesTheFirst ==
    /\ wd.pc = "judging"
    /\ IF Judgement = "Confirmed"
       THEN wd' = [wd EXCEPT !.pc = "killing", !.todo = SubSeq(wd.suspects, 1, 1)] /\ UNCHANGED severity
       ELSE Reports(Judgement)
    /\ UNCHANGED <<World, stuck, lock, tried, History>>

Judges ==
    /\ wd.pc = "judging"
    /\ IF Judgement = "Confirmed"
       THEN wd' = [wd EXCEPT !.pc = "killing", !.todo = wd.suspects] /\ UNCHANGED severity
       ELSE Reports(Judgement)
    /\ UNCHANGED <<World, stuck, lock, tried, History>>

(* A suspect that has had a signal before is passed over.                  *)
PassesOver ==
    /\ At("killing") /\ It \in tried
    /\ wd' = [wd EXCEPT !.todo = Tail(@)]
    /\ UNCHANGED <<World, stuck, lock, tried, severity, History>>

(* kill_process_with_escalation: SIGTERM; a process that is not there any  *)
(* more ends it at once.                                                   *)
Terminates ==
    /\ At("killing") /\ It \notin tried
    /\ IF Alive(It)
       THEN Term(It) /\ wd' = [wd EXCEPT !.pc = "waiting"] /\ UNCHANGED tried
       ELSE /\ tried' = tried \cup {It}
            /\ wd' = [wd EXCEPT !.todo = Tail(@)]
            /\ UNCHANGED proc
    /\ UNCHANGED <<snap, stuck, lock, severity, History>>

(* Three seconds later, SIGKILL if it is still there.                      *)
Escalates ==
    /\ wd.pc = "waiting"
    /\ TimePasses(TermGrace)
    /\ IF Alive(It)
       THEN /\ \E s \in Keeps("immune", It) : proc' = [proc EXCEPT ![It] = s]
            /\ sigkilled' = sigkilled \cup {It}
       ELSE UNCHANGED <<proc, sigkilled>>
    /\ tried' = tried \cup {It}
    /\ wd' = [wd EXCEPT !.pc = "killing", !.todo = Tail(@)]
    /\ UNCHANGED <<snap, severity>>

KillsEnd ==
    /\ Done("killing")
    /\ Reports("Confirmed")
    /\ UNCHANGED <<World, stuck, lock, tried, History>>

LoopStep ==
    \/ Wakes \/ Checks \/ CleansUp \/ Suspects \/ Times \/ Judges
    \/ PassesOver \/ Terminates \/ Escalates \/ KillsEnd

-----------------------------------------------------------------------------
(* The machine.                                                            *)

Mine == <<wd, stuck, lock, tried, severity, History>>

(* The poll loop stores a new snapshot when the watchdog has let go of it. *)
(* Any process may be busy, and the GPU idle, when it is taken; ps lists   *)
(* the processes by their load.                                            *)
Snapshot ==
    /\ wd.pc = "asleep"
    /\ LET up == {p \in Pid : Alive(p)} IN
       \E list \in Orders(up), spin \in SUBSET up :
          snap' = [listed |-> list, spin |-> spin]
    /\ UNCHANGED <<proc, Mine>>

Becomes(p, s) == proc' = [proc EXCEPT ![p] = s]

Remembered ==
    Elems(snap.listed) \cup Elems(lock.suspects) \cup tried \cup {p \in Pid : stuck[p] # NoAge}

(* A server starts, listens if it has a port, stops listening or exits.    *)
Starts(p)  == ~Alive(p) /\ p \notin Remembered /\ Becomes(p, "booting")
Listens(p) == p \notin Portless /\ proc[p] \in {"booting", "deaf"} /\ Becomes(p, "open")
Hangs(p)   == proc[p] = "open" /\ Becomes(p, "deaf")
Exits(p)   == Alive(p) /\ Becomes(p, "none")

ProcessStep(p) ==
    /\ Starts(p) \/ Listens(p) \/ Hangs(p) \/ Exits(p)
    /\ UNCHANGED <<snap, Mine>>

Next == LoopStep \/ Snapshot \/ \E p \in Pid : ProcessStep(p)

Spec == Init /\ [][Next]_vars

-----------------------------------------------------------------------------
(* Properties.                                                             *)

(* No kill without cause: a process that the watchdog kills had no open    *)
(* port at any check of the last thirty seconds, or it has been among the  *)
(* same suspects of a GPU lock for more than fifteen.                      *)
KillsAreEarned ==
    [][\A p \in Pid : p \in tried' \ tried =>
          \/ unseen'[p] # NoAge /\ unseen'[p] >= StuckThreshold
          \/ p \in Elems(lock.suspects) /\ lock.age > ConfirmAfter]_vars

(* Why that is so. The table never runs ahead of what the checks found;    *)
StuckIsUnseen ==
    \A p \in Pid \ tried : stuck[p] # NoAge => unseen[p] # NoAge /\ stuck[p] <= unseen[p]

(* and from the judgement to the last kill the loop works on the suspects  *)
(* of the lock that is timed, which has lasted for long enough.            *)
KillsConfirmed ==
    /\ wd.pc = "judging" => wd.suspects = lock.suspects
    /\ wd.pc \in {"killing", "waiting"} =>
          /\ Elems(wd.todo) \subseteq Elems(lock.suspects)
          /\ lock.age > ConfirmAfter /\ lock.age # NoAge
    /\ wd.pc = "waiting" => wd.todo # << >>

(* The two of them: no kill of either path is without its cause.           *)
CauseIsKnown == StuckIsUnseen /\ KillsConfirmed

Rank(s) == CHOOSE i \in DOMAIN Severities : Severities[i] = s

(* No reboot is asked for out of the blue: from one report to the next the *)
(* severity climbs by one step at most.                                    *)
SeverityClimbs == [][Rank(severity') <= Rank(severity) + 1]_vars

(* "SIGKILL sent but process still alive" (types.rs): when a lock is       *)
(* reported as unrecoverable, no suspect that is still there was left out. *)
(* Each was sent SIGKILL, or has ignored the SIGTERM for its closed port.  *)
RebootIsEarned ==
    [][severity' = "Unrecoverable" /\ severity # "Unrecoverable"
          => \A p \in Elems(lock.suspects) : Alive(p) => p \in sigkilled \cup tried]_vars
=============================================================================
