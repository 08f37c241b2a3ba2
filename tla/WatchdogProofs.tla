--------------------------- MODULE WatchdogProofs ---------------------------
(***************************************************************************)
(* Why the watchdog never kills without a cause, for any processes, any    *)
(* lengths of its sleeps and any behaviour of processes under signals; and *)
(* why its severity climbs step by step, and a reboot is asked for only    *)
(* after the kills, as long as it does not oversleep.                      *)
(***************************************************************************)
EXTENDS Watchdog, SequenceTheorems, FiniteSetTheorems, TLAPS

USE WatchdogAssumption

(* As much of the types as the argument needs.                             *)
Types ==
    /\ snap.listed \in Seq(Pid)
    /\ wd \in [pc : WdPcs, todo : Seq(Pid), suspects : Seq(Pid)]
    /\ stuck \in [Pid -> Ages]
    /\ unseen \in [Pid -> Ages]
    /\ lock \in [suspects : Seq(Pid), age : Ages]
    /\ tried \subseteq Pid

Inv == Types /\ CauseIsKnown

-----------------------------------------------------------------------------
(* The elements of a sequence, of its head and of its tail.                *)
LEMMA ElemsOfTail ==
  ASSUME NEW s \in Seq(Pid), s # << >>
  PROVE  /\ Head(s) \in Elems(s) /\ Head(s) \in Pid
         /\ Tail(s) \in Seq(Pid)
         /\ Elems(Tail(s)) \subseteq Elems(s)
<1>1. Len(s) \in Nat \ {0} /\ DOMAIN s = 1 .. Len(s) /\ Head(s) = s[1]
  BY EmptySeq, LenProperties
<1>2. Head(s) \in Elems(s)
  BY <1>1 DEF Elems
<1>3. Head(s) \in Pid /\ Tail(s) \in Seq(Pid) /\ Len(Tail(s)) = Len(s) - 1
      /\ \A i \in 1 .. Len(Tail(s)) : Tail(s)[i] = s[i + 1]
  BY HeadTailProperties
<1>4. DOMAIN Tail(s) = 1 .. Len(Tail(s))
  BY <1>3, LenProperties
<1>5. \A i \in DOMAIN Tail(s) : i + 1 \in DOMAIN s /\ Tail(s)[i] = s[i + 1]
  BY <1>1, <1>3, <1>4
<1> QED BY <1>2, <1>3, <1>5 DEF Elems

(* What ps lists is a sequence of processes.                               *)
LEMMA OrdersAreSequences ==
  ASSUME NEW P \in SUBSET Pid, NEW s \in Orders(P)
  PROVE  s \in Seq(Pid)
<1>1. Cardinality(P) \in Nat
  BY FS_Subset, FS_CardinalityType
<1>2. s \in [1 .. Cardinality(P) -> Pid]
  BY DEF Orders
<1> QED BY <1>1, <1>2, SeqDef

(* Time makes no age wrong, and none younger than another.                 *)
LEMMA LaterAges ==
  ASSUME NEW a \in Ages, NEW b \in Ages, NEW d \in Nat
  PROVE  /\ Later(a, d) \in Ages
         /\ Later(a, d) = NoAge <=> a = NoAge
         /\ a # NoAge /\ b # NoAge /\ a <= b => Later(a, d) <= Later(b, d)
         /\ a # NoAge => Later(a, d) >= a
  BY DEF Later, Ages, Age, NoAge, AgeCap

LEMMA SinceAges ==
  ASSUME NEW p \in Pid, NEW a \in Ages, NEW b \in Ages
  PROVE  /\ Since(a, p) \in Ages
         /\ Open(p) <=> Since(a, p) = NoAge
         /\ (a # NoAge => b # NoAge /\ a <= b) /\ ~Open(p) => Since(a, p) <= Since(b, p)
  BY DEF Since, Ages, Age, NoAge, AgeCap

-----------------------------------------------------------------------------
LEMMA InitInv == Init => Inv
<1> SUFFICES ASSUME Init PROVE Inv
  OBVIOUS
<1>1. Types
  BY EmptySeq DEF Init, Types, Asleep, NoLock, WdPcs, Ages, Age, NoAge, AgeCap
<1>2. CauseIsKnown
  BY DEF Init, CauseIsKnown, StuckIsUnseen, KillsConfirmed, Asleep
<1> QED BY <1>1, <1>2 DEF Inv

(* The time that passes, in a sleep or a wait.                             *)
LEMMA TimePassesInv ==
  ASSUME Inv, NEW d \in Nat, TimePasses(d)
  PROVE  /\ stuck' \in [Pid -> Ages] /\ unseen' \in [Pid -> Ages]
         /\ lock' \in [suspects : Seq(Pid), age : Ages]
         /\ lock'.suspects = lock.suspects
         /\ lock'.age = NoAge <=> lock.age = NoAge
         /\ lock.age # NoAge => lock'.age >= lock.age
         /\ \A p \in Pid \ tried : stuck'[p] # NoAge => unseen'[p] # NoAge /\ stuck'[p] <= unseen'[p]
<1>1. \A p \in Pid : stuck[p] \in Ages /\ unseen[p] \in Ages
  BY DEF Inv, Types
<1>2. lock.age \in Ages /\ lock.suspects \in Seq(Pid)
  BY DEF Inv, Types
<1>3. stuck' \in [Pid -> Ages] /\ unseen' \in [Pid -> Ages]
  BY <1>1, LaterAges DEF TimePasses
<1>4. lock' = [suspects |-> lock.suspects, age |-> Later(lock.age, d)]
  BY DEF TimePasses, Inv, Types
<1>5. \A p \in Pid \ tried : stuck'[p] # NoAge => unseen'[p] # NoAge /\ stuck'[p] <= unseen'[p]
  BY <1>1, LaterAges DEF TimePasses, Inv, CauseIsKnown, StuckIsUnseen
<1> QED BY <1>2, <1>3, <1>4, <1>5, LaterAges

LEMMA WakesInv == ASSUME Inv, Wakes PROVE Inv'
<1>1. PICK j \in Jitter : TimePasses(CheckInterval + j)
  BY DEF Wakes
<1>2. CheckInterval + j \in Nat
  BY DEF CheckInterval
<1>3. wd' = [pc |-> "checking", todo |-> snap.listed, suspects |-> << >>]
  BY DEF Wakes, Asleep
<1>4. Types'
  <2>1. wd' \in [pc : WdPcs, todo : Seq(Pid), suspects : Seq(Pid)]
    BY <1>3, EmptySeq DEF WdPcs, Inv, Types
  <2>2. stuck' \in [Pid -> Ages] /\ unseen' \in [Pid -> Ages]
        /\ lock' \in [suspects : Seq(Pid), age : Ages]
    BY <1>1, <1>2, TimePassesInv
  <2> QED BY <2>1, <2>2 DEF Wakes, World, Inv, Types
<1>5. CauseIsKnown'
  BY <1>1, <1>2, <1>3, TimePassesInv DEF Wakes, CauseIsKnown, StuckIsUnseen, KillsConfirmed
<1> QED BY <1>4, <1>5 DEF Inv

LEMMA ChecksInv == ASSUME Inv, Checks PROVE Inv'
<1> DEFINE p == Head(wd.todo)
<1>1. p \in Pid /\ Tail(wd.todo) \in Seq(Pid)
  BY ElemsOfTail DEF Checks, At, Inv, Types
<1>2. wd' = [wd EXCEPT !.todo = Tail(wd.todo)] /\ wd.pc = "checking"
  BY DEF Checks, At
<1>3. /\ unseen' = [unseen EXCEPT ![p] = IF p \in Portless THEN unseen[p] ELSE Since(unseen[p], p)]
      /\ stuck' = [stuck EXCEPT ![p] = IF Watched(p) THEN Since(stuck[p], p) ELSE stuck[p]]
  BY DEF Checks, It
<1>4. tried' \in {tried, tried \cup {p}} /\ UNCHANGED <<snap, lock>>
  BY DEF Checks, It
<1>5. stuck[p] \in Ages /\ unseen[p] \in Ages
  BY <1>1 DEF Inv, Types
<1>6. Types'
  <2>1. Since(stuck[p], p) \in Ages /\ Since(unseen[p], p) \in Ages
    BY <1>1, <1>5, SinceAges
  <2>2. stuck' \in [Pid -> Ages] /\ unseen' \in [Pid -> Ages]
    BY <1>3, <2>1, <1>5 DEF Inv, Types
  <2> QED BY <2>2, <1>1, <1>2, <1>4 DEF Inv, Types
<1>7. StuckIsUnseen'
  <2> SUFFICES ASSUME NEW q \in Pid \ tried', stuck'[q] # NoAge
               PROVE  unseen'[q] # NoAge /\ stuck'[q] <= unseen'[q]
    BY DEF StuckIsUnseen
  <2>1. q \notin tried /\ (stuck[q] # NoAge => unseen[q] # NoAge /\ stuck[q] <= unseen[q])
    BY <1>4 DEF Inv, CauseIsKnown, StuckIsUnseen
  <2>2. CASE q # p
    BY <2>1, <2>2, <1>3 DEF Inv, Types
  <2>3. CASE q = p /\ p \in Portless
    BY <2>1, <2>3, <1>3, <1>1 DEF Inv, Types, Watched
  <2>4. CASE q = p /\ p \notin Portless
    <3>1. stuck'[q] = Since(stuck[p], p) /\ unseen'[q] = Since(unseen[p], p)
      BY <2>1, <2>4, <1>3, <1>1 DEF Inv, Types, Watched
    <3> QED BY <3>1, <2>1, <2>4, <1>1, <1>5, SinceAges
  <2> QED BY <2>2, <2>3, <2>4
<1>8. KillsConfirmed'
  BY <1>2 DEF KillsConfirmed, Inv, Types
<1> QED BY <1>6, <1>7, <1>8 DEF Inv, CauseIsKnown

LEMMA CleansUpInv == ASSUME Inv, CleansUp PROVE Inv'
<1>1. wd' = [wd EXCEPT !.pc = "suspecting", !.todo = snap.listed]
  BY DEF CleansUp
<1>2. \A p \in Pid : /\ stuck'[p] = IF p \in Elems(snap.listed) THEN stuck[p] ELSE NoAge
                     /\ unseen'[p] = IF p \in Elems(snap.listed) THEN unseen[p] ELSE NoAge
  BY DEF CleansUp
<1>3. Types'
  <2>1. stuck' \in [Pid -> Ages] /\ unseen' \in [Pid -> Ages]
    BY DEF CleansUp, Inv, Types, Ages
  <2> QED BY <1>1, <2>1 DEF CleansUp, World, Inv, Types, WdPcs
<1>4. StuckIsUnseen'
  BY <1>2 DEF CleansUp, Inv, CauseIsKnown, StuckIsUnseen
<1>5. KillsConfirmed'
  BY <1>1 DEF KillsConfirmed, Inv, Types
<1> QED BY <1>3, <1>4, <1>5 DEF Inv, CauseIsKnown

LEMMA SuspectsInv == ASSUME Inv, Suspects PROVE Inv'
<1>1. Head(wd.todo) \in Pid /\ Tail(wd.todo) \in Seq(Pid)
  BY ElemsOfTail DEF Suspects, At, Inv, Types
<1>2. Append(wd.suspects, Head(wd.todo)) \in Seq(Pid)
  BY <1>1, AppendProperties DEF Inv, Types
<1>3. /\ wd' \in [pc : WdPcs, todo : Seq(Pid), suspects : Seq(Pid)]
      /\ wd'.pc = "suspecting"
  BY <1>1, <1>2 DEF Suspects, At, It, Inv, Types
<1>4. UNCHANGED <<snap, stuck, unseen, lock, tried>>
  BY DEF Suspects, World, History
<1> QED BY <1>3, <1>4 DEF Inv, Types, CauseIsKnown, StuckIsUnseen, KillsConfirmed

LEMMA TimesInv == ASSUME Inv, Times PROVE Inv'
<1>1. wd' = [wd EXCEPT !.pc = "judging"] /\ UNCHANGED <<snap, stuck, unseen, tried>>
  BY DEF Times, World, History
<1>2. /\ lock' \in [suspects : Seq(Pid), age : Ages]
      /\ lock'.suspects = wd.suspects
  <2>1. CASE wd.suspects = << >>
    BY <2>1, EmptySeq DEF Times, NoLock, Ages, Age, NoAge, AgeCap
  <2>2. CASE wd.suspects # << >> /\ wd.suspects = lock.suspects
    BY <2>2 DEF Times, Inv, Types
  <2>3. CASE wd.suspects # << >> /\ wd.suspects # lock.suspects
    BY <2>3 DEF Times, Inv, Types, Ages, Age, NoAge, AgeCap
  <2> QED BY <2>1, <2>2, <2>3
<1>3. Types'
  BY <1>1, <1>2 DEF Inv, Types, WdPcs
<1>4. KillsConfirmed'
  BY <1>1, <1>2 DEF KillsConfirmed, Inv, Types
<1>5. StuckIsUnseen'
  BY <1>1 DEF StuckIsUnseen, Inv, CauseIsKnown
<1> QED BY <1>3, <1>4, <1>5 DEF Inv, CauseIsKnown

LEMMA ReportsInv ==
  ASSUME Inv, NEW s, Reports(s), UNCHANGED <<snap, stuck, unseen, lock, tried>>
  PROVE  Inv'
  BY EmptySeq DEF Reports, Asleep, Inv, Types, WdPcs, CauseIsKnown, StuckIsUnseen, KillsConfirmed

LEMMA JudgesInv == ASSUME Inv, Judges PROVE Inv'
<1>1. UNCHANGED <<snap, stuck, unseen, lock, tried>>
  BY DEF Judges, World, History
<1>2. CASE Judgement = "Confirmed"
  <2>1. wd' = [wd EXCEPT !.pc = "killing", !.todo = wd.suspects] /\ wd.suspects = lock.suspects
    BY <1>2 DEF Judges, Inv, CauseIsKnown, KillsConfirmed
  <2>2. lock.age > ConfirmAfter /\ lock.age # NoAge
    BY <1>2 DEF Judgement, AutoKillDelay, NoAge, AgeCap, ConfirmAfter, Inv, Types, Ages, Age
  <2> QED BY <1>1, <2>1, <2>2 DEF Inv, Types, WdPcs, CauseIsKnown, StuckIsUnseen, KillsConfirmed
<1>3. CASE Judgement # "Confirmed"
  BY <1>1, <1>3, ReportsInv DEF Judges
<1> QED BY <1>2, <1>3

LEMMA PassesOverInv == ASSUME Inv, PassesOver PROVE Inv'
<1>1. Tail(wd.todo) \in Seq(Pid) /\ Elems(Tail(wd.todo)) \subseteq Elems(wd.todo)
  BY ElemsOfTail DEF PassesOver, At, Inv, Types
<1>2. /\ wd' = [wd EXCEPT !.todo = Tail(wd.todo)] /\ wd.pc = "killing"
      /\ UNCHANGED <<snap, stuck, unseen, lock, tried>>
  BY DEF PassesOver, At, World, History
<1> QED BY <1>1, <1>2 DEF Inv, Types, CauseIsKnown, StuckIsUnseen, KillsConfirmed

LEMMA TerminatesInv == ASSUME Inv, Terminates PROVE Inv'
<1>1. /\ Tail(wd.todo) \in Seq(Pid) /\ Elems(Tail(wd.todo)) \subseteq Elems(wd.todo)
      /\ Head(wd.todo) \in Pid /\ wd.todo # << >> /\ wd.pc = "killing"
  BY ElemsOfTail DEF Terminates, At, Inv, Types
<1>2. UNCHANGED <<snap, stuck, unseen, lock>>
  BY DEF Terminates, History
<1>3. \/ wd' = [wd EXCEPT !.pc = "waiting"] /\ tried' = tried
      \/ wd' = [wd EXCEPT !.todo = Tail(wd.todo)] /\ tried' = tried \cup {Head(wd.todo)}
  BY DEF Terminates, It
<1> QED BY <1>1, <1>2, <1>3 DEF Inv, Types, WdPcs, CauseIsKnown, StuckIsUnseen, KillsConfirmed

LEMMA EscalatesInv == ASSUME Inv, Escalates PROVE Inv'
<1>1. /\ Tail(wd.todo) \in Seq(Pid) /\ Elems(Tail(wd.todo)) \subseteq Elems(wd.todo)
      /\ Head(wd.todo) \in Pid
  BY ElemsOfTail DEF Escalates, Inv, Types, CauseIsKnown, KillsConfirmed
<1>2. TimePasses(TermGrace) /\ TermGrace \in Nat
  BY DEF Escalates, TermGrace
<1>3. /\ wd' = [wd EXCEPT !.pc = "killing", !.todo = Tail(wd.todo)] /\ wd.pc = "waiting"
      /\ tried' = tried \cup {Head(wd.todo)} /\ UNCHANGED snap
  BY DEF Escalates, It
<1>4. Types'
  BY <1>1, <1>2, <1>3, TimePassesInv DEF Inv, Types, WdPcs
<1>5. StuckIsUnseen'
  BY <1>2, <1>3, TimePassesInv DEF StuckIsUnseen
<1>6. KillsConfirmed'
  <2>1. /\ lock'.suspects = lock.suspects
        /\ lock'.age > ConfirmAfter /\ lock'.age # NoAge
    <3>1. lock.age \in Ages /\ lock'.age \in Ages
      BY <1>2, TimePassesInv DEF Inv, Types
    <3>2. lock.age > ConfirmAfter /\ lock.age # NoAge
      BY <1>3 DEF Inv, CauseIsKnown, KillsConfirmed
    <3>3. lock'.suspects = lock.suspects /\ lock'.age # NoAge /\ lock'.age >= lock.age
      BY <3>2, <1>2, TimePassesInv
    <3> QED BY <3>1, <3>2, <3>3 DEF ConfirmAfter, Ages, Age, NoAge, AgeCap
  <2> QED BY <2>1, <1>1, <1>3 DEF KillsConfirmed, Inv, Types, CauseIsKnown
<1> QED BY <1>4, <1>5, <1>6 DEF Inv, CauseIsKnown

LEMMA KillsEndInv == ASSUME Inv, KillsEnd PROVE Inv'
  BY ReportsInv DEF KillsEnd, World, History

(* What the machine does leaves the loop alone, but for the snapshot.      *)
LEMMA MachineInv ==
  ASSUME Inv, Snapshot \/ (\E p \in Pid : ProcessStep(p)) \/ UNCHANGED vars
  PROVE  Inv'
<1>1. UNCHANGED <<wd, stuck, unseen, lock, tried>>
  BY DEF Snapshot, ProcessStep, Mine, History, vars
<1>2. snap'.listed \in Seq(Pid)
  <2>1. CASE Snapshot
    <3>1. PICK list \in Orders({p \in Pid : Alive(p)}), spin \in SUBSET Pid :
             snap' = [listed |-> list, spin |-> spin]
      BY <2>1 DEF Snapshot
    <3> QED BY <3>1, OrdersAreSequences
  <2>2. CASE snap' = snap
    BY <2>2 DEF Inv, Types
  <2> QED BY <2>1, <2>2 DEF ProcessStep, vars
<1> QED BY <1>1, <1>2 DEF Inv, Types, CauseIsKnown, StuckIsUnseen, KillsConfirmed

LEMMA StepInv == Inv /\ [Next]_vars => Inv'
<1> SUFFICES ASSUME Inv, [Next]_vars PROVE Inv'
  OBVIOUS
<1>1. CASE Wakes      BY <1>1, WakesInv
<1>2. CASE Checks     BY <1>2, ChecksInv
<1>3. CASE CleansUp   BY <1>3, CleansUpInv
<1>4. CASE Suspects   BY <1>4, SuspectsInv
<1>5. CASE Times      BY <1>5, TimesInv
<1>6. CASE Judges     BY <1>6, JudgesInv
<1>7. CASE PassesOver BY <1>7, PassesOverInv
<1>8. CASE Terminates BY <1>8, TerminatesInv
<1>9. CASE Escalates  BY <1>9, EscalatesInv
<1>10. CASE KillsEnd  BY <1>10, KillsEndInv
<1>11. CASE Snapshot \/ (\E p \in Pid : ProcessStep(p)) \/ UNCHANGED vars
  BY <1>11, MachineInv
<1> QED BY <1>1, <1>2, <1>3, <1>4, <1>5, <1>6, <1>7, <1>8, <1>9, <1>10, <1>11
        DEF Next, LoopStep

(* The table never runs ahead of the checks, and a kill of the GPU-lock    *)
(* path is always of a suspect of a lock that has lasted (watchdog_loop,   *)
(* evaluate_gpu_lock).                                                     *)
THEOREM CauseTheorem == Spec => []CauseIsKnown
<1>1. Inv => CauseIsKnown
  BY DEF Inv
<1> QED BY InitInv, StepInv, <1>1, PTL DEF Spec

-----------------------------------------------------------------------------
(* A step that enters a process in kill_attempted has its cause.           *)
LEMMA StepEarned ==
  ASSUME Inv, [Next]_vars, NEW p \in tried' \ tried
  PROVE  \/ unseen'[p] # NoAge /\ unseen'[p] >= StuckThreshold
         \/ p \in Elems(lock.suspects) /\ lock.age > ConfirmAfter
<1>1. CASE Checks
  <2>1. /\ p = Head(wd.todo) /\ Watched(p) /\ ~Open(p)
        /\ stuck'[p] >= StuckThreshold
    BY <1>1 DEF Checks, It
  <2>2. p \in Pid
    BY <2>1, <1>1, ElemsOfTail DEF Checks, At, Inv, Types
  <2>3. /\ stuck'[p] = Since(stuck[p], p) /\ unseen'[p] = Since(unseen[p], p)
        /\ stuck[p] \in Ages /\ unseen[p] \in Ages
        /\ (stuck[p] # NoAge => unseen[p] # NoAge /\ stuck[p] <= unseen[p])
    BY <1>1, <2>1, <2>2 DEF Checks, It, Watched, Inv, Types, CauseIsKnown, StuckIsUnseen
  <2>4. Since(stuck[p], p) <= Since(unseen[p], p) /\ Since(unseen[p], p) # NoAge
        /\ Since(stuck[p], p) \in Ages /\ Since(unseen[p], p) \in Ages
    BY <2>1, <2>2, <2>3, SinceAges
  <2> QED BY <2>1, <2>3, <2>4 DEF StuckThreshold, Ages, Age, NoAge, AgeCap
<1>2. CASE Terminates
  <2>1. p = Head(wd.todo) /\ wd.pc = "killing"
    BY <1>2 DEF Terminates, At, It
  <2>2. p \in Elems(wd.todo)
    BY <1>2, <2>1, ElemsOfTail DEF Terminates, At, Inv, Types
  <2> QED BY <2>1, <2>2 DEF Inv, CauseIsKnown, KillsConfirmed
<1>3. CASE Escalates
  <2>1. p = Head(wd.todo) /\ wd.pc = "waiting"
    BY <1>3 DEF Escalates, It
  <2>2. p \in Elems(wd.todo)
    BY <2>1, ElemsOfTail DEF Inv, Types, CauseIsKnown, KillsConfirmed
  <2> QED BY <2>1, <2>2 DEF Inv, CauseIsKnown, KillsConfirmed
<1>4. CASE tried' \subseteq tried
  BY <1>4
<1>5. Checks \/ Terminates \/ Escalates \/ tried' \subseteq tried
  BY DEF Next, LoopStep, Wakes, CleansUp, Suspects, Times, Judges, PassesOver, KillsEnd,
         Snapshot, ProcessStep, Mine, vars
<1> QED BY <1>1, <1>2, <1>3, <1>4, <1>5

(* No kill without cause (watchdog_loop, evaluate_gpu_lock): whoever is    *)
(* entered in kill_attempted has been found without an open port for       *)
(* thirty seconds, or suspected of a GPU lock for more than fifteen.       *)
THEOREM KillsAreEarnedTheorem == Spec => KillsAreEarned
<1>1. Inv /\ [Next]_vars =>
        [\A p \in Pid : p \in tried' \ tried =>
            \/ unseen'[p] # NoAge /\ unseen'[p] >= StuckThreshold
            \/ p \in Elems(lock.suspects) /\ lock.age > ConfirmAfter]_vars
  BY StepEarned
<1> QED BY InitInv, StepInv, <1>1, PTL DEF Spec, KillsAreEarned

-----------------------------------------------------------------------------
(* The severity of the reports.                                            *)

(* No sleep of the loop is so long that a lock passes from not yet         *)
(* confirmed to unrecoverable while it sleeps: it may last ten seconds     *)
(* longer than it should, and with eleven both theorems fail.              *)
WakesInTime == \A j \in Jitter : CheckInterval + j <= AutoKillDelay - ConfirmAfter

(* How old a lock is when the last report was less than Confirmed.         *)
Timely ==
    /\ severity \in {"None", "Suspected", "Confirmed", "Unrecoverable"}
    /\ lock.age = NoAge <=> lock.suspects = << >>
    /\ wd.pc \in {"asleep", "checking", "suspecting"} /\ severity = "None" => lock.suspects = << >>
    /\ wd.pc = "asleep" /\ severity = "Suspected" => lock.age <= ConfirmAfter
    /\ wd.pc \in {"checking", "suspecting"} /\ severity = "Suspected" => lock.age <= AutoKillDelay
    /\ wd.pc = "judging" /\ severity = "None" => lock.age \in {0, NoAge}
    /\ wd.pc = "judging" /\ severity = "Suspected" => lock.age <= AutoKillDelay \/ lock.age = NoAge
    /\ wd.pc \in {"killing", "waiting"} => severity # "None"

(* Who was tried when the last report was Confirmed. A suspect that is not *)
(* listed any more is forgotten, and then the lock is another.             *)
Signalled ==
    /\ wd.pc \in {"asleep", "checking"} => wd.suspects = << >>
    /\ wd.pc \in {"asleep", "checking"} /\ severity = "Confirmed" => Elems(lock.suspects) \subseteq tried
    /\ wd.pc = "suspecting" => Elems(wd.todo) \cup Elems(wd.suspects) \subseteq Elems(snap.listed)
    /\ wd.pc = "suspecting" /\ severity = "Confirmed" =>
          Elems(lock.suspects) \cap Elems(snap.listed) \subseteq tried
    /\ wd.pc = "judging" /\ severity = "Confirmed" =>
          Elems(lock.suspects) \subseteq tried \/ lock.age \in {0, NoAge}
    /\ wd.pc \in {"killing", "waiting"} => Elems(lock.suspects) \subseteq tried \cup Elems(wd.todo)

Climbing == Inv /\ Timely /\ Signalled

-----------------------------------------------------------------------------
LEMMA ElemsSplit ==
  ASSUME NEW s \in Seq(Pid), s # << >>
  PROVE  Elems(s) \subseteq {Head(s)} \cup Elems(Tail(s))
<1>1. Len(s) \in Nat \ {0} /\ DOMAIN s = 1 .. Len(s) /\ Head(s) = s[1]
  BY EmptySeq, LenProperties
<1>2. Tail(s) \in Seq(Pid) /\ Len(Tail(s)) = Len(s) - 1
      /\ \A i \in 1 .. Len(Tail(s)) : Tail(s)[i] = s[i + 1]
  BY HeadTailProperties
<1>3. DOMAIN Tail(s) = 1 .. Len(Tail(s))
  BY <1>2, LenProperties
<1>4. ASSUME NEW i \in DOMAIN s, i # 1 PROVE s[i] \in Elems(Tail(s))
  <2>1. i - 1 \in DOMAIN Tail(s) /\ Tail(s)[i - 1] = s[i]
    BY <1>1, <1>2, <1>3, <1>4
  <2> QED BY <2>1 DEF Elems
<1> QED BY <1>1, <1>4 DEF Elems

LEMMA ElemsOfAppend ==
  ASSUME NEW s \in Seq(Pid), NEW e \in Pid
  PROVE  Elems(Append(s, e)) \subseteq Elems(s) \cup {e}
<1>1. /\ Append(s, e) \in Seq(Pid) /\ Len(Append(s, e)) = Len(s) + 1 /\ Len(s) \in Nat
      /\ \A i \in 1 .. Len(s) : Append(s, e)[i] = s[i]
      /\ Append(s, e)[Len(s) + 1] = e
  BY AppendProperties, LenProperties
<1>2. DOMAIN s = 1 .. Len(s) /\ DOMAIN Append(s, e) = 1 .. Len(s) + 1
  BY <1>1, LenProperties
<1>3. ASSUME NEW i \in DOMAIN Append(s, e) PROVE Append(s, e)[i] \in Elems(s) \cup {e}
  <2>1. i \in 1 .. Len(s) \/ i = Len(s) + 1
    BY <1>1, <1>2
  <2> QED BY <1>1, <1>2, <2>1 DEF Elems
<1> QED BY <1>3 DEF Elems

LEMMA ElemsOfEmpty == Elems(<< >>) = {}
BY DEF Elems

(* The ranks of the severities, in the order of the enumeration.           *)
LEMMA Ranks ==
  /\ Rank("None") = 1 /\ Rank("Suspected") = 2 /\ Rank("Confirmed") = 3 /\ Rank("Unrecoverable") = 4
<1>1. DOMAIN Severities = 1 .. 4
  BY DEF Severities
<1>2. /\ Severities[1] = "None" /\ Severities[2] = "Suspected"
      /\ Severities[3] = "Confirmed" /\ Severities[4] = "Unrecoverable"
  BY DEF Severities
<1>3. ASSUME NEW i \in 1 .. 4, NEW s, Severities[i] = s PROVE Rank(s) = i
  <2>1. \A j \in 1 .. 4 : Severities[j] = s => j = i
    BY <1>2, <1>3
  <2> QED BY <1>1, <1>3, <2>1 DEF Rank
<1> QED BY <1>2, <1>3

LEMMA LockAges ==
  ASSUME Inv
  PROVE  lock.age \in 0 .. 32 /\ NoAge = 32 /\ ConfirmAfter = 15 /\ AutoKillDelay = 30
BY DEF Inv, Types, Ages, Age, NoAge, AgeCap, ConfirmAfter, AutoKillDelay

-----------------------------------------------------------------------------
LEMMA InitClimbing == Init => Climbing
<1> SUFFICES ASSUME Init PROVE Climbing
  OBVIOUS
<1>1. Timely
  BY DEF Init, Timely, NoLock, Asleep
<1>2. Signalled
  BY DEF Init, Signalled, Asleep
<1> QED BY <1>1, <1>2, InitInv DEF Climbing

LEMMA WakesClimbing ==
  ASSUME WakesInTime, Climbing, Inv', Wakes
  PROVE  Climbing'
<1> USE DEF Climbing
<1>1. PICK j \in Jitter : TimePasses(CheckInterval + j)
  BY DEF Wakes
<1>2. CheckInterval + j \in Nat /\ CheckInterval + j <= 15
  BY DEF CheckInterval, WakesInTime, AutoKillDelay, ConfirmAfter
<1>3. wd' = [pc |-> "checking", todo |-> snap.listed, suspects |-> << >>] /\ wd.pc = "asleep"
      /\ UNCHANGED <<tried, severity>>
  BY DEF Wakes, Asleep
<1>4. lock'.suspects = lock.suspects /\ (lock'.age = NoAge <=> lock.age = NoAge)
  BY <1>1, <1>2, TimePassesInv
<1>5. lock'.age = Later(lock.age, CheckInterval + j)
  BY <1>1 DEF TimePasses, Inv, Types
<1>6. lock.age <= ConfirmAfter => lock'.age <= AutoKillDelay
  BY <1>2, <1>5, LockAges DEF Later, AgeCap
<1> QED BY <1>3, <1>4, <1>6 DEF Timely, Signalled

(* The steps that leave the lock and the report alone.                     *)
LEMMA LockStays ==
  ASSUME Climbing, Inv', UNCHANGED <<lock, severity>>,
         wd.pc = wd'.pc \/ (wd.pc = "checking" /\ wd'.pc = "suspecting") \/ {wd.pc, wd'.pc} = {"killing", "waiting"}
  PROVE  Timely'
BY DEF Climbing, Timely

LEMMA ChecksClimbing == ASSUME Climbing, Inv', Checks PROVE Climbing'
<1>1. /\ wd.pc = "checking" /\ wd'.pc = "checking" /\ wd'.suspects = wd.suspects
      /\ tried \subseteq tried' /\ UNCHANGED <<lock, severity>>
  BY DEF Checks, At, Climbing, Inv, Types
<1> QED BY <1>1, LockStays DEF Climbing, Signalled

LEMMA CleansUpClimbing == ASSUME Climbing, Inv', CleansUp PROVE Climbing'
<1>1. /\ wd.pc = "checking" /\ wd'.pc = "suspecting" /\ wd'.suspects = wd.suspects /\ wd'.todo = snap.listed
      /\ tried' = tried \cap Elems(snap.listed) /\ UNCHANGED <<lock, severity, snap>>
  BY DEF CleansUp, Done, Climbing, Inv, Types, World
<1>2. Signalled'
  BY <1>1, ElemsOfEmpty DEF Climbing, Signalled
<1> QED BY <1>1, <1>2, LockStays DEF Climbing

LEMMA SuspectsClimbing == ASSUME Climbing, Inv', Suspects PROVE Climbing'
<1> USE DEF Climbing
<1>1. wd.pc = "suspecting" /\ wd.todo # << >> /\ wd.todo \in Seq(Pid) /\ wd.suspects \in Seq(Pid)
  BY DEF Suspects, At, Inv, Types
<1>2. /\ wd'.pc = "suspecting" /\ wd'.todo = Tail(wd.todo)
      /\ wd'.suspects \in {wd.suspects, Append(wd.suspects, Head(wd.todo))}
      /\ UNCHANGED <<snap, lock, severity, tried>>
  BY <1>1 DEF Suspects, It, Inv, Types, World
<1>3. /\ Elems(wd'.todo) \subseteq Elems(wd.todo) /\ Head(wd.todo) \in Elems(wd.todo) /\ Head(wd.todo) \in Pid
  BY <1>1, <1>2, ElemsOfTail
<1>4. Elems(wd'.suspects) \subseteq Elems(wd.suspects) \cup {Head(wd.todo)}
  BY <1>1, <1>2, <1>3, ElemsOfAppend
<1>5. Signalled'
  BY <1>1, <1>2, <1>3, <1>4 DEF Signalled
<1> QED BY <1>1, <1>2, <1>5, LockStays

LEMMA TimesClimbing == ASSUME Climbing, Inv', Times PROVE Climbing'
<1> USE DEF Climbing
<1>1. /\ wd.pc = "suspecting" /\ wd'.pc = "judging" /\ wd'.suspects = wd.suspects
      /\ UNCHANGED <<severity, tried>>
  BY DEF Times, Done, Inv, Types
<1>2. \/ wd.suspects # << >> /\ wd.suspects = lock.suspects /\ lock' = lock
      \/ lock'.age = 0 /\ lock'.suspects # << >>
      \/ lock'.age = NoAge /\ lock'.suspects = << >>
  BY DEF Times, NoLock
<1>3. Timely'
  BY <1>1, <1>2, LockAges DEF Timely
<1>4. Signalled'
  BY <1>1, <1>2 DEF Signalled
<1> QED BY <1>3, <1>4

LEMMA JudgesClimbing == ASSUME Climbing, Inv', Judges PROVE Climbing'
<1> USE DEF Climbing
<1>1. wd.pc = "judging" /\ UNCHANGED <<lock, tried>> /\ wd.suspects = lock.suspects
  BY DEF Judges, World, History, Inv, CauseIsKnown, KillsConfirmed
<1>2. CASE Judgement = "Confirmed"
  <2>1. wd'.pc = "killing" /\ wd'.todo = lock.suspects /\ severity' = severity
    BY <1>1, <1>2 DEF Judges, Inv, Types
  <2>2. lock.age > ConfirmAfter /\ lock.age # NoAge
    BY <1>1, <1>2, LockAges DEF Judgement, Timely
  <2> QED BY <1>1, <2>1, <2>2, LockAges DEF Timely, Signalled
<1>3. CASE Judgement # "Confirmed"
  <2>1. wd' = Asleep /\ severity' = Judgement
    BY <1>3 DEF Judges, Reports
  <2>2. /\ Judgement \in {"None", "Suspected", "Unrecoverable"}
        /\ Judgement = "None" => lock.suspects = << >>
        /\ Judgement = "Suspected" => ~(lock.age > ConfirmAfter)
    BY <1>1, <1>3 DEF Judgement
  <2> QED BY <1>1, <2>1, <2>2, LockAges DEF Timely, Signalled, Asleep
<1> QED BY <1>2, <1>3

LEMMA KillsClimbing == ASSUME Climbing, Inv', PassesOver \/ Terminates PROVE Climbing'
<1> USE DEF Climbing
<1>1. /\ wd.pc = "killing" /\ wd.todo # << >> /\ wd.todo \in Seq(Pid) /\ UNCHANGED <<lock, severity>>
  BY DEF PassesOver, Terminates, At, Inv, Types
<1>2. \/ wd'.pc = "waiting" /\ wd'.todo = wd.todo /\ tried' = tried
      \/ wd'.pc = "killing" /\ wd'.todo = Tail(wd.todo) /\ tried' = tried \cup {Head(wd.todo)}
  BY <1>1 DEF PassesOver, Terminates, It, Inv, Types
<1>3. Signalled'
  BY <1>1, <1>2, ElemsSplit DEF Signalled
<1> QED BY <1>1, <1>2, <1>3, LockStays

LEMMA EscalatesClimbing == ASSUME Climbing, Inv', Escalates PROVE Climbing'
<1> USE DEF Climbing
<1>1. /\ wd.pc = "waiting" /\ wd.todo # << >> /\ wd.todo \in Seq(Pid) /\ UNCHANGED severity
  BY DEF Escalates, Inv, Types, CauseIsKnown, KillsConfirmed
<1>2. wd'.pc = "killing" /\ wd'.todo = Tail(wd.todo) /\ tried' = tried \cup {Head(wd.todo)}
  BY <1>1 DEF Escalates, It, Inv, Types
<1>3. lock'.suspects = lock.suspects /\ (lock'.age = NoAge <=> lock.age = NoAge)
  BY TimePassesInv DEF Escalates, TermGrace
<1>4. Signalled'
  BY <1>1, <1>2, <1>3, ElemsSplit DEF Signalled
<1>5. Timely'
  BY <1>1, <1>2, <1>3 DEF Timely
<1> QED BY <1>4, <1>5

LEMMA KillsEndClimbing == ASSUME Climbing, Inv', KillsEnd PROVE Climbing'
<1> USE DEF Climbing
<1>1. /\ wd.pc = "killing" /\ wd.todo = << >> /\ wd' = Asleep /\ severity' = "Confirmed"
      /\ UNCHANGED <<lock, tried>>
  BY DEF KillsEnd, Done, Reports, History
<1>2. Elems(lock.suspects) \subseteq tried
  BY <1>1, ElemsOfEmpty DEF Signalled
<1> QED BY <1>1, <1>2 DEF Timely, Signalled, Asleep

(* The snapshot changes only while the loop sleeps.                        *)
LEMMA MachineClimbing ==
  ASSUME Climbing, Inv', Snapshot \/ (\E p \in Pid : ProcessStep(p)) \/ UNCHANGED vars
  PROVE  Climbing'
<1>1. UNCHANGED <<wd, lock, tried, severity>> /\ (wd.pc = "asleep" \/ snap' = snap)
  BY DEF Snapshot, ProcessStep, Mine, vars
<1> QED BY <1>1 DEF Climbing, Timely, Signalled

LEMMA StepClimbing == ASSUME WakesInTime, Climbing, [Next]_vars PROVE Climbing'
<1>0. Inv'
  BY StepInv DEF Climbing
<1>1. CASE Wakes      BY <1>0, <1>1, WakesClimbing
<1>2. CASE Checks     BY <1>0, <1>2, ChecksClimbing
<1>3. CASE CleansUp   BY <1>0, <1>3, CleansUpClimbing
<1>4. CASE Suspects   BY <1>0, <1>4, SuspectsClimbing
<1>5. CASE Times      BY <1>0, <1>5, TimesClimbing
<1>6. CASE Judges     BY <1>0, <1>6, JudgesClimbing
<1>7. CASE PassesOver \/ Terminates BY <1>0, <1>7, KillsClimbing
<1>8. CASE Escalates  BY <1>0, <1>8, EscalatesClimbing
<1>9. CASE KillsEnd   BY <1>0, <1>9, KillsEndClimbing
<1>10. CASE Snapshot \/ (\E p \in Pid : ProcessStep(p)) \/ UNCHANGED vars
  BY <1>0, <1>10, MachineClimbing
<1> QED BY <1>1, <1>2, <1>3, <1>4, <1>5, <1>6, <1>7, <1>8, <1>9, <1>10
        DEF Next, LoopStep

(* Only the judgement and the end of the kills write a report.             *)
LEMMA WhoReports ==
  ASSUME [Next]_vars, severity' # severity
  PROVE  Judges \/ KillsEnd
BY DEF Next, LoopStep, Wakes, Checks, CleansUp, Suspects, Times, PassesOver, Terminates, Escalates,
       Snapshot, ProcessStep, Mine, vars

(* What the loop may report after what it has reported.                    *)
LEMMA ReportsClimb ==
  ASSUME Climbing, Judges \/ KillsEnd
  PROVE  \/ severity' = severity
         \/ severity' \in {"None", "Suspected"}
         \/ severity' = "Confirmed" /\ severity # "None"
         \/ /\ severity' = "Unrecoverable" /\ severity \in {"Confirmed", "Unrecoverable"}
            /\ severity = "Confirmed" => Elems(lock.suspects) \subseteq tried
<1> USE DEF Climbing
<1>1. CASE KillsEnd
  BY <1>1 DEF KillsEnd, Done, Reports, Timely
<1>2. CASE Judges
  <2>1. wd.pc = "judging" /\ wd.suspects = lock.suspects
    BY <1>2 DEF Judges, Inv, CauseIsKnown, KillsConfirmed
  <2>2. CASE Judgement = "Confirmed"
    BY <1>2, <2>2 DEF Judges
  <2>3. CASE Judgement \in {"None", "Suspected"}
    BY <1>2, <2>3 DEF Judges, Reports
  <2>4. CASE Judgement = "Unrecoverable"
    <3>1. severity' = "Unrecoverable"
      BY <1>2, <2>4 DEF Judges, Reports
    <3>2. lock.suspects # << >> /\ lock.age > AutoKillDelay
      BY <2>1, <2>4 DEF Judgement
    <3>3. lock.age \notin {0, NoAge} /\ ~(lock.age <= AutoKillDelay)
      <4>1. lock.age \in 0 .. 32 /\ NoAge = 32 /\ AutoKillDelay = 30
        BY LockAges
      <4>2. lock.age # NoAge /\ lock.age > AutoKillDelay
        BY <3>2 DEF Timely
      <4>3. \A a \in 0 .. 32 : a > 30 => a # 0 /\ ~(a <= 30)
        OBVIOUS
      <4> QED BY <4>1, <4>2, <4>3
    <3> QED BY <2>1, <3>1, <3>3 DEF Timely, Signalled
  <2> QED BY <2>2, <2>3, <2>4 DEF Judgement
<1> QED BY <1>1, <1>2

(* The severity climbs one step at a time (evaluate_gpu_lock), unless the  *)
(* loop sleeps for more than ten seconds longer than it should.            *)
THEOREM SeverityTheorem ==
  ASSUME WakesInTime
  PROVE  Spec => SeverityClimbs
<1>1. Climbing /\ [Next]_vars => [Rank(severity') <= Rank(severity) + 1]_vars
  <2> SUFFICES ASSUME Climbing, [Next]_vars PROVE Rank(severity') <= Rank(severity) + 1
    OBVIOUS
  <2>1. severity \in {"None", "Suspected", "Confirmed", "Unrecoverable"}
    BY DEF Climbing, Timely
  <2>2. CASE severity' = severity
    BY <2>1, <2>2, Ranks
  <2>3. CASE severity' # severity
    BY <2>1, <2>3, WhoReports, ReportsClimb, Ranks
  <2> QED BY <2>2, <2>3
<1>2. Climbing /\ [Next]_vars => Climbing'
  BY StepClimbing
<1> QED BY InitClimbing, <1>1, <1>2, PTL DEF Spec, SeverityClimbs

(* A reboot is asked for only after a signal to every suspect that is      *)
(* still there, under the same condition.                                  *)
THEOREM RebootTheorem ==
  ASSUME WakesInTime
  PROVE  Spec => RebootIsEarned
<1>1. Climbing /\ [Next]_vars =>
        [severity' = "Unrecoverable" /\ severity # "Unrecoverable"
          => \A p \in Elems(lock.suspects) : Alive(p) => p \in sigkilled \cup tried]_vars
  <2> SUFFICES ASSUME Climbing, [Next]_vars, severity' = "Unrecoverable", severity # "Unrecoverable"
               PROVE  \A p \in Elems(lock.suspects) : p \in tried
    OBVIOUS
  <2> QED BY WhoReports, ReportsClimb
<1>2. Climbing /\ [Next]_vars => Climbing'
  BY StepClimbing
<1> QED BY InitClimbing, <1>1, <1>2, PTL DEF Spec, RebootIsEarned
=============================================================================
