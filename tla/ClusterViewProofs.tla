-------------------------- MODULE ClusterViewProofs --------------------------
(***************************************************************************)
(* Why a machine that is renamed is still shown once, for any machines,    *)
(* names, known nodes and sequences of renames, scans, polls and restarts, *)
(* and why the variables keep their types.                                 *)
(***************************************************************************)
EXTENDS ClusterView, SequenceTheorems, FiniteSetTheorems, TLAPS

USE ClusterViewAssumption

-----------------------------------------------------------------------------
(* Names.                                                                  *)

(* One number is taken off, unless the name is known or has none.          *)
Shorter(n, known) == IF n \in known \/ Parent[n] = None THEN n ELSE Parent[n]

LEMMA ShorterIsName ==
  ASSUME NEW n \in Name, NEW known PROVE Shorter(n, known) \in Name
BY DEF Shorter

LEMMA CanonicalIsName ==
  ASSUME NEW n \in Name, NEW known
  PROVE  Canonical(n, known) \in Name
<1> DEFINE a1 == Shorter(n, known)
           a2 == Shorter(a1, known)
           a3 == Shorter(a2, known)
           a4 == Shorter(a3, known)
           a5 == Shorter(a4, known)
           a6 == Shorter(a5, known)
           names == <<n, a1, a2, a3, a4, a5, a6>>
           G(f) == [i \in 0..6 |-> IF i = 0 THEN n
                                   ELSE IF f[i-1] \in known \/ Parent[f[i-1]] = None THEN f[i-1]
                                   ELSE Parent[f[i-1]]]
           w == [i \in 0..6 |-> names[i + 1]]
           s == CHOOSE f : f = G(f)
<1>1. Canonical(n, known) = s[6]
  BY DEF Canonical
<1>2. w = G(w)
  <2>1. DOMAIN w = 0..6 /\ DOMAIN G(w) = 0..6
    OBVIOUS
  <2>2. /\ w[0] = n /\ w[1] = a1 /\ w[2] = a2 /\ w[3] = a3
        /\ w[4] = a4 /\ w[5] = a5 /\ w[6] = a6
    <3> HIDE DEF a1, a2, a3, a4, a5, a6
    <3> QED OBVIOUS
  <2>3. ASSUME NEW i \in 0..6 PROVE w[i] = G(w)[i]
    <3> HIDE DEF w, a1, a2, a3, a4, a5, a6
    <3>1. CASE i = 0
      BY <2>2, <3>1
    <3>2. CASE i # 0
      <4>1. i \in 1..6 /\ G(w)[i] = Shorter(w[i-1], known)
        BY <3>2 DEF Shorter
      <4>2. w[i] = Shorter(w[i-1], known)
        BY <2>2, <4>1 DEF a1, a2, a3, a4, a5, a6
      <4> QED BY <4>1, <4>2
    <3> QED BY <3>1, <3>2
  <2> QED BY <2>1, <2>3
<1>3. s = G(s)
  <2> HIDE DEF w, G
  <2> QED BY <1>2
<1> HIDE DEF s
<1>4. s[0] = n /\ \A i \in 1..6 : s[i] = Shorter(s[i-1], known)
  <2>1. s[0] = n
    BY <1>3
  <2>2. ASSUME NEW i \in 1..6 PROVE s[i] = Shorter(s[i-1], known)
    <3>1. i \in 0..6 /\ i # 0
      OBVIOUS
    <3>2. G(s)[i] = Shorter(s[i-1], known)
      BY <3>1 DEF Shorter
    <3> HIDE DEF G
    <3> QED BY <1>3, <3>2
  <2> QED BY <2>1, <2>2
<1>5. /\ s[0] = n /\ s[1] = Shorter(s[0], known) /\ s[2] = Shorter(s[1], known)
      /\ s[3] = Shorter(s[2], known) /\ s[4] = Shorter(s[3], known)
      /\ s[5] = Shorter(s[4], known) /\ s[6] = Shorter(s[5], known)
  <2> HIDE DEF G
  <2> QED BY <1>4
<1> HIDE DEF G
<1>6. s[1] \in Name /\ s[2] \in Name /\ s[3] \in Name
  BY <1>5, ShorterIsName
<1>7. s[4] \in Name /\ s[5] \in Name /\ s[6] \in Name
  BY <1>5, <1>6, ShorterIsName
<1> QED BY <1>1, <1>7

LEMMA KeyIsName ==
  ASSUME NEW n \in Name
  PROVE  Key(n) \in Name
BY CanonicalIsName DEF Key

-----------------------------------------------------------------------------
(* One entry.                                                              *)

(* A machine has the names it is called by, one after the other.           *)
IsNameOf(n, m) == \E i \in DOMAIN Called[m] : n = Called[m][i]

Numbered == calls \in [Machine -> Nat] /\ \A m \in Machine : calls[m] \in DOMAIN Called[m]

(* What the metrics poller has found of a machine it has under a name of   *)
(* that machine, and it is shown under the key of one.                     *)
FoundByName == \A f \in poller.found : f[2].of \in Machine => IsNameOf(f[1], f[2].of)
ShownByKey  == \A n \in Name, m \in Machine :
                  shown[n] # None /\ shown[n].of = m => \E k \in Name : IsNameOf(k, m) /\ n = Key(k)

Placed ==
    /\ Numbered /\ FoundByName /\ ShownByKey
    /\ up \subseteq Machine /\ poller \in [at : {"waiting", "polling"}, todo : SUBSET Name, found : SUBSET (Name \X Entry)]
    /\ shown \in [Name -> {None} \cup Entry]

LEMMA NamesAreNames ==
  ASSUME NEW m \in Machine
  PROVE  /\ \A i \in DOMAIN Called[m] : Called[m][i] \in Name
         /\ \A k : IsNameOf(k, m) => k \in Name
         /\ Len(Called[m]) \in Nat /\ DOMAIN Called[m] = 1 .. Len(Called[m]) /\ 1 \in DOMAIN Called[m]
<1>1. Called[m] \in Seq(Name) /\ Called[m] # <<>>
  OBVIOUS
<1>2. Len(Called[m]) \in Nat \ {0} /\ DOMAIN Called[m] = 1 .. Len(Called[m])
  BY <1>1, EmptySeq, LenProperties
<1>3. \A i \in DOMAIN Called[m] : Called[m][i] \in Name
  BY <1>1, <1>2
<1> QED BY <1>2, <1>3 DEF IsNameOf

LEMMA OwnName ==
  ASSUME Numbered, NEW m \in Machine
  PROVE  IsNameOf(NameOf(m), m) /\ NameOf(m) \in Name
<1>1. calls[m] \in DOMAIN Called[m]
  BY DEF Numbered
<1> QED BY <1>1, NamesAreNames DEF IsNameOf, NameOf

LEMMA Entries ==
  /\ \A m \in Machine : [of |-> m, online |-> TRUE] \in Entry
  /\ [of |-> None, online |-> FALSE] \in Entry
  /\ \A e \in Entry : e # None => e.of \in Machine \cup {None}
BY DEF Entry

(* A step that leaves the poller's finds and what is shown alone.          *)
LEMMA NothingShown ==
  ASSUME Placed, UNCHANGED <<real, shown, poller>>, up' \subseteq Machine, Numbered'
  PROVE  Placed'
<1>1. FoundByName'
  BY DEF Placed, FoundByName
<1>2. ShownByKey'
  BY DEF Placed, ShownByKey, Key
<1> QED BY <1>1, <1>2 DEF Placed

LEMMA PlacedInit == Init => Placed
<1> SUFFICES ASSUME Init PROVE Placed
  OBVIOUS
<1>1. Numbered
  BY NamesAreNames DEF Init, Numbered
<1>2. \A n \in Name : shown[n] = None
  BY DEF Init
<1>3. FoundByName /\ ShownByKey
  BY <1>2 DEF Init, FoundByName, ShownByKey
<1> QED BY <1>1, <1>3 DEF Init, Placed

LEMMA PlacedRestarts == ASSUME Placed, Restarts PROVE Placed'
<1>1. /\ shown' = [n \in Name |-> None] /\ poller' = [at |-> "waiting", todo |-> {}, found |-> {}]
      /\ UNCHANGED <<calls, up>>
  BY DEF Restarts, Starts
<1>2. FoundByName' /\ ShownByKey'
  BY <1>1 DEF FoundByName, ShownByKey
<1> QED BY <1>1, <1>2 DEF Placed, Numbered

LEMMA PlacedPollBegins == ASSUME Placed, PollBegins, Polled \subseteq Name PROVE Placed'
<1>1. poller' = [at |-> "polling", todo |-> Polled, found |-> {}] /\ UNCHANGED <<real, calls, up, shown>>
  BY DEF PollBegins
<1>2. FoundByName'
  BY <1>1 DEF FoundByName
<1>3. ShownByKey' /\ Numbered'
  BY <1>1 DEF Placed, ShownByKey, Key, Numbered
<1> QED BY <1>1, <1>2, <1>3 DEF Placed

LEMMA PlacedCollects == ASSUME Placed, NEW n \in Name, Collects(n) PROVE Placed'
<1>1. UNCHANGED <<real, calls, up, shown>>
  BY DEF Collects
<1>2. PICK r : /\ poller' = [poller EXCEPT !.todo = @ \ {n}, !.found = @ \cup {r}]
               /\ \/ r = <<n, [of |-> None, online |-> FALSE]>>
                  \/ \E m \in Answers(n) : r = <<NameOf(m), [of |-> m, online |-> TRUE]>>
  BY DEF Collects
<1>3. r \in Name \X Entry /\ (r[2].of \in Machine => IsNameOf(r[1], r[2].of))
  <2>1. CASE r = <<n, [of |-> None, online |-> FALSE]>>
    BY <2>1, Entries
  <2>2. ASSUME NEW m \in Answers(n), r = <<NameOf(m), [of |-> m, online |-> TRUE]>>
        PROVE  r \in Name \X Entry /\ (r[2].of \in Machine => IsNameOf(r[1], r[2].of))
    <3>1. m \in Machine
      BY DEF Answers, Placed
    <3> QED BY <2>2, <3>1, OwnName, Entries DEF Placed
  <2> QED BY <1>2, <2>1, <2>2
<1>4. /\ poller'.found = poller.found \cup {r}
      /\ poller' \in [at : {"waiting", "polling"}, todo : SUBSET Name, found : SUBSET (Name \X Entry)]
  BY <1>2, <1>3 DEF Placed
<1>5. FoundByName'
  BY <1>3, <1>4 DEF Placed, FoundByName
<1>6. ShownByKey' /\ Numbered'
  BY <1>1 DEF Placed, ShownByKey, Key, Numbered
<1> QED BY <1>1, <1>4, <1>5, <1>6 DEF Placed

LEMMA PlacedPollIsIn == ASSUME Placed, PollIsIn PROVE Placed'
<1>1. /\ poller' = [at |-> "waiting", todo |-> {}, found |-> {}]
      /\ UNCHANGED <<real, calls, up>>
  BY DEF PollIsIn
<1>2. PICK pick : /\ \A k \in DOMAIN pick : \E f \in poller.found : Key(f[1]) = k /\ f[2] = pick[k]
                  /\ shown' = [n \in Name |-> IF n \in DOMAIN pick THEN pick[n] ELSE shown[n]]
  BY DEF PollIsIn
<1>3. ASSUME NEW n \in Name
      PROVE  \/ shown'[n] = shown[n]
             \/ \E f \in poller.found : Key(f[1]) = n /\ f[2] = shown'[n] /\ f \in Name \X Entry
  <2>1. CASE n \in DOMAIN pick
    BY <1>2, <2>1 DEF Placed
  <2>2. CASE n \notin DOMAIN pick
    BY <1>2, <2>2
  <2> QED BY <2>1, <2>2
<1>4. shown' \in [Name -> {None} \cup Entry]
  <2>1. \A n \in Name : shown'[n] \in {None} \cup Entry
    BY <1>3 DEF Placed
  <2> QED BY <1>2, <2>1
<1>5. ShownByKey'
  <2> SUFFICES ASSUME NEW n \in Name, NEW m \in Machine, shown'[n] # None, shown'[n].of = m
               PROVE  \E k \in Name : IsNameOf(k, m) /\ n = Key(k)
    BY <1>1 DEF ShownByKey, Key
  <2>1. CASE shown'[n] = shown[n]
    BY <2>1 DEF Placed, ShownByKey
  <2>2. ASSUME NEW f \in poller.found, Key(f[1]) = n, f[2] = shown'[n], f \in Name \X Entry
        PROVE  \E k \in Name : IsNameOf(k, m) /\ n = Key(k)
    BY <2>2 DEF Placed, FoundByName
  <2> QED BY <1>3, <2>1, <2>2
<1>6. FoundByName' /\ Numbered'
  BY <1>1 DEF FoundByName, Placed, Numbered
<1> QED BY <1>1, <1>4, <1>5, <1>6 DEF Placed

LEMMA PlacedHubEnters == ASSUME Placed, HubEnters PROVE Placed'
<1>1. UNCHANGED <<real, calls, up, poller>>
  BY DEF HubEnters
<1>2. PICK k : k = NameOf(Local)
  OBVIOUS
<1>3. k \in Name /\ IsNameOf(k, Local) /\ Key(k) \in Name
  BY <1>2, OwnName, KeyIsName DEF Placed
<1>4. shown' = [shown EXCEPT ![Key(k)] = [of |-> Local, online |-> TRUE]]
  BY <1>2 DEF HubEnters
<1>5. shown' \in [Name -> {None} \cup Entry]
  BY <1>4, Entries DEF Placed
<1>6. ShownByKey'
  <2> SUFFICES ASSUME NEW n \in Name, NEW m \in Machine, shown'[n] # None, shown'[n].of = m
               PROVE  \E q \in Name : IsNameOf(q, m) /\ n = Key(q)
    BY <1>1 DEF ShownByKey, Key
  <2>1. CASE n = Key(k)
    <3>1. shown'[n] = [of |-> Local, online |-> TRUE]
      BY <1>4, <2>1 DEF Placed
    <3> QED BY <1>3, <2>1, <3>1
  <2>2. CASE n # Key(k)
    BY <1>4, <2>2 DEF Placed, ShownByKey
  <2> QED BY <2>1, <2>2
<1>7. FoundByName' /\ Numbered'
  BY <1>1 DEF FoundByName, Placed, Numbered
<1> QED BY <1>1, <1>5, <1>6, <1>7 DEF Placed

LEMMA PlacedMachines ==
  ASSUME Placed, NEW m \in Machine, GoesDown(m) \/ ComesUp(m) \/ IsRenamed(m)
  PROVE  Placed'
<1>1. UNCHANGED <<real, shown, poller>>
  BY DEF GoesDown, ComesUp, IsRenamed
<1>2. up' \subseteq Machine
  BY DEF GoesDown, ComesUp, IsRenamed, Placed
<1>3. Numbered'
  <2>1. CASE UNCHANGED calls
    BY <2>1 DEF Placed, Numbered
  <2>2. CASE IsRenamed(m)
    <3>1. /\ calls' = [calls EXCEPT ![m] = calls[m] + 1] /\ calls[m] < Len(Called[m])
          /\ calls \in [Machine -> Nat] /\ calls[m] \in Nat
      BY <2>2 DEF IsRenamed, Placed, Numbered
    <3>2. calls[m] + 1 \in DOMAIN Called[m]
      BY <3>1, NamesAreNames
    <3> QED BY <3>1, <3>2 DEF Placed, Numbered
  <2> QED BY <2>1, <2>2 DEF GoesDown, ComesUp
<1> QED BY <1>1, <1>2, <1>3, NothingShown

(* What is asked is a name: the parts of the types that Polled reads.      *)
Addressed ==
    /\ real \subseteq Name /\ map \in NodeMap
    /\ hub \in BOOLEAN /\ scan \in [Name -> {"none", "failed", "ok"}]

LEMMA PolledAreNames ==
  ASSUME Addressed
  PROVE  Polled \subseteq Name
<1>1. Seeds \subseteq Name
  BY DEF Seeds, Addressed
<1>2. \A n \in Name : Resolve(n) \in Name
  BY DEF Resolve, Addressed, NodeMap
<1> QED BY <1>1, <1>2 DEF Polled

-----------------------------------------------------------------------------
(* The rest of the types.                                                  *)

ScannerType == [at : {"start", "seeds", "waiting", "scan"}, todo : SUBSET Name,
                found : SUBSET (Name \X BOOLEAN)]

Typed ==
    /\ Addressed /\ starts \in 0..MaxStarts /\ file \in NodeMap
    /\ events \in Seq(Event) /\ Len(events) <= Capacity
    /\ scanner \in ScannerType

Inv == Placed /\ Typed

LEMMA SeedsAreNames == ASSUME Addressed PROVE Seeds \subseteq Name
BY DEF Seeds, Addressed

LEMMA AnswersAreMachines ==
  ASSUME Placed, NEW n, NEW m \in Answers(n)
  PROVE  m \in Machine /\ NameOf(m) \in Name
BY OwnName DEF Answers, Placed

(* The channel of events keeps to its capacity.                            *)
LEMMA EmitsKeeps ==
  ASSUME events \in Seq(Event), NEW es \in Seq(Event), Emits(es)
  PROVE  events' \in Seq(Event) /\ Len(events') <= Capacity
<1>1. PICK all : all = events \o es
  OBVIOUS
<1>2. all \in Seq(Event) /\ Len(all) \in Nat
  BY <1>1, ConcatProperties, LenProperties
<1>3. CASE events' = <<>>
  BY <1>3, EmptySeq
<1>4. CASE events' = all /\ Len(all) <= Capacity
  BY <1>2, <1>4
<1>5. CASE events' = SubSeq(all, Len(all) - Capacity + 1, Len(all)) /\ ~(Len(all) <= Capacity)
  <2>1. /\ Len(all) - Capacity + 1 \in Int /\ Len(all) \in Int
        /\ \A i \in Len(all) - Capacity + 1 .. Len(all) : i \in 1 .. Len(all)
        /\ Len(all) - Capacity + 1 <= Len(all)
        /\ Len(all) - (Len(all) - Capacity + 1) + 1 = Capacity
    BY <1>2, <1>5
  <2>2. \A i \in Len(all) - Capacity + 1 .. Len(all) : all[i] \in Event
    BY <1>2, <2>1, ElementOfSeq
  <2>3. /\ SubSeq(all, Len(all) - Capacity + 1, Len(all)) \in Seq(Event)
        /\ Len(SubSeq(all, Len(all) - Capacity + 1, Len(all))) = Capacity
    BY <2>1, <2>2, SubSeqProperties
  <2> QED BY <1>5, <2>3
<1> QED BY <1>1, <1>3, <1>4, <1>5 DEF Emits

LEMMA AnnouncedAreEvents ==
  ASSUME NEW n \in Name, NEW me \in Name
  PROVE  Announced(n, me) \in Seq(Event)
<1>1. PICK a, b : /\ a = <<[kind |-> "probed", from |-> me, to |-> me]>>
                  /\ b = IF me = n THEN <<>> ELSE <<[kind |-> "alias", from |-> n, to |-> me]>>
  OBVIOUS
<1>2. /\ [kind |-> "probed", from |-> me, to |-> me] \in Event
      /\ [kind |-> "alias", from |-> n, to |-> me] \in Event
  BY DEF Event
<1>3. \A e \in Event : <<e>> \in Seq(Event)
  OBVIOUS
<1>4. a \in Seq(Event)
  BY <1>1, <1>2, <1>3
<1>5. b \in Seq(Event)
  BY <1>1, <1>2, <1>3, EmptySeq
<1> QED BY <1>1, <1>4, <1>5, ConcatProperties DEF Announced

LEMMA TypedStays ==
  ASSUME Typed, UNCHANGED <<hub, starts, real, scan, map, file, events, scanner>>
  PROVE  Typed'
BY DEF Typed, Addressed, ScannerType

LEMMA TypedScans ==
  ASSUME Inv, Scans
  PROVE  Typed'
<1> USE DEF Inv
<1>1. Seeds \subseteq Name
  BY SeedsAreNames DEF Typed
<1>2. CASE AsksSeeds \/ AsksAll
  <2>1. scanner' \in ScannerType
    BY <1>1, <1>2 DEF AsksSeeds, AsksAll, Asks, ScannerType
  <2> QED BY <1>2, <2>1 DEF AsksSeeds, AsksAll, Typed, Addressed
<1>3. ASSUME NEW n \in Name, Probes(n) PROVE Typed'
  <2>1. UNCHANGED <<hub, starts, real, scan, map, file>>
    BY <1>3 DEF Probes
  <2>2. ASSUME NEW r \in Name \X BOOLEAN, Finds(n, r) PROVE scanner' \in ScannerType
    BY <2>2 DEF Finds, Typed, ScannerType
  <2>3. scanner' \in ScannerType
    <3>1. CASE Finds(n, <<n, FALSE>>)
      BY <2>2, <3>1
    <3>2. ASSUME NEW m \in Answers(n), Finds(n, <<NameOf(m), TRUE>>) PROVE scanner' \in ScannerType
      BY <2>2, <3>2, AnswersAreMachines
    <3> QED BY <1>3, <3>1, <3>2 DEF Probes
  <2>4. events' \in Seq(Event) /\ Len(events') <= Capacity
    <3>1. CASE UNCHANGED events
      BY <3>1 DEF Typed
    <3>2. ASSUME NEW m \in Answers(n), Emits(Announced(n, NameOf(m)))
          PROVE  events' \in Seq(Event) /\ Len(events') <= Capacity
      BY <3>2, AnswersAreMachines, AnnouncedAreEvents, EmitsKeeps DEF Typed
    <3> QED BY <1>3, <3>1, <3>2 DEF Probes
  <2> QED BY <2>1, <2>3, <2>4 DEF Typed, Addressed
<1>4. CASE SeedsAreIn \/ ScanIsIn
  <2>1. scanner' \in ScannerType
    BY <1>4 DEF SeedsAreIn, ScanIsIn, ScannerType
  <2>2. scan' \in [Name -> {"none", "failed", "ok"}]
    <3>1. CASE SeedsAreIn
      BY <3>1 DEF SeedsAreIn
    <3>2. CASE ScanIsIn
      <4>1. \A n \in Name : Merged(n) \in {"none", "failed", "ok"}
        BY DEF Merged, Typed, Addressed
      <4> QED BY <3>2, <4>1 DEF ScanIsIn
    <3> QED BY <1>4, <3>1, <3>2
  <2> QED BY <1>4, <2>1, <2>2 DEF SeedsAreIn, ScanIsIn, Typed, Addressed
<1> QED BY <1>2, <1>3, <1>4 DEF Scans

LEMMA TypedUpdates ==
  ASSUME Inv, Updates
  PROVE  Typed'
<1> USE DEF Inv
<1>1. PICK e : e = Head(events)
  OBVIOUS
<1>2. /\ events # <<>> /\ events' = Tail(events)
      /\ UNCHANGED <<hub, starts, real, scan, scanner>>
  BY DEF Updates
<1>3. e \in Event /\ events' \in Seq(Event) /\ Len(events') = Len(events) - 1 /\ Len(events) \in Nat
  BY <1>1, <1>2, HeadTailProperties, LenProperties DEF Typed
<1>4. PICK new : /\ new = IF e.kind = "probed"
                           THEN [map EXCEPT !.nodes = @ \cup {Canonical(e.to, @)}]
                           ELSE [map EXCEPT !.nodes = @ \cup {e.to}, !.alias[e.from] = e.to]
                 /\ map' = new /\ file' \in {new, file}
  BY <1>1 DEF Updates
<1>5. new \in NodeMap
  <2>1. map \in NodeMap /\ e.to \in Name /\ e.from \in Name
    BY <1>3 DEF Typed, Addressed, Event
  <2>2. Canonical(e.to, map.nodes) \in Name
    BY <2>1, CanonicalIsName
  <2> QED BY <1>4, <2>1, <2>2 DEF NodeMap
<1>6. file' \in NodeMap
  BY <1>4, <1>5 DEF Typed
<1>7. Len(events') <= Capacity
  BY <1>3 DEF Typed
<1> QED BY <1>2, <1>3, <1>4, <1>5, <1>6, <1>7 DEF Typed, Addressed

LEMMA TypedRestarts ==
  ASSUME Inv, Restarts
  PROVE  Typed'
<1>1. /\ real' = file.nodes /\ map' = file /\ UNCHANGED <<hub, file>> /\ events' = <<>>
      /\ scan' = [n \in Name |-> "none"] /\ starts' = starts + 1 /\ starts < MaxStarts
      /\ scanner' = [at |-> "start", todo |-> {}, found |-> {}]
  BY DEF Restarts, Starts
<1>2. scanner' \in ScannerType
  BY <1>1 DEF ScannerType
<1> QED BY <1>1, <1>2, EmptySeq DEF Inv, Typed, Addressed, NodeMap

-----------------------------------------------------------------------------
LEMMA InitInv == Init => Inv
<1> SUFFICES ASSUME Init PROVE Inv
  OBVIOUS
<1>1. file \in NodeMap
  BY DEF Init, NodeMap
<1>2. scanner \in ScannerType
  BY DEF Init, ScannerType
<1> QED BY <1>1, <1>2, EmptySeq, PlacedInit DEF Init, Inv, Typed, Addressed, NodeMap

LEMMA StepInv == Inv /\ [Next]_vars => Inv'
<1> SUFFICES ASSUME Inv, [Next]_vars PROVE Inv'
  OBVIOUS
<1> USE DEF Inv
<1>1. CASE Scans
  <2>1. UNCHANGED <<real, shown, poller, up, calls>>
    BY <1>1 DEF Scans, AsksSeeds, AsksAll, SeedsAreIn, ScanIsIn, Probes
  <2> QED BY <1>1, <2>1, NothingShown, TypedScans DEF Placed, Numbered
<1>2. CASE Polls
  <2>1. Typed'
    BY <1>2, TypedStays DEF Polls, PollBegins, Collects, PollIsIn
  <2> QED BY <1>2, <2>1, PolledAreNames, PlacedPollBegins, PlacedCollects, PlacedPollIsIn DEF Polls, Typed
<1>3. CASE HubEnters
  <2>1. Typed'
    BY <1>3, TypedStays DEF HubEnters
  <2> QED BY <1>3, <2>1, PlacedHubEnters
<1>4. CASE Updates
  <2>1. UNCHANGED <<real, shown, poller, up, calls>>
    BY <1>4 DEF Updates
  <2> QED BY <1>4, <2>1, NothingShown, TypedUpdates DEF Placed, Numbered
<1>5. CASE Restarts
  BY <1>5, PlacedRestarts, TypedRestarts
<1>6. ASSUME NEW m \in Machine, GoesDown(m) \/ ComesUp(m) \/ IsRenamed(m) PROVE Inv'
  <2>1. Typed'
    BY <1>6, TypedStays DEF GoesDown, ComesUp, IsRenamed
  <2> QED BY <1>6, <2>1, PlacedMachines
<1>7. CASE UNCHANGED vars
  BY <1>7, NothingShown, TypedStays DEF vars, Placed, Numbered
<1> QED BY <1>1, <1>2, <1>3, <1>4, <1>5, <1>6, <1>7 DEF Next

(* The variables hold what the code can store in them; the channel of      *)
(* events stays within its capacity, and names that are shortened stay     *)
(* names.                                                                  *)
THEOREM TypesHold == Spec => []TypeOK
<1>1. Inv => TypeOK
  BY DEF Inv, Placed, Numbered, Typed, Addressed, ScannerType, TypeOK
<1> QED BY InitInv, StepInv, <1>1, PTL DEF Spec

(* One machine, one entry (ClusterState::update_nodes, canonicalize): a    *)
(* machine whose names all lead to one known node is never shown twice,    *)
(* however often it is renamed between the polls.                          *)
THEOREM RenamedOnce == Spec => []OneEntry
<1>1. Inv => OneEntry
  <2> SUFFICES ASSUME Inv, NEW m \in Machine,
                      \A i, j \in DOMAIN Called[m] : Key(Called[m][i]) = Key(Called[m][j])
               PROVE  Cardinality(Shows(m)) <= 1
    BY DEF OneEntry
  <2>1. PICK k : k = Key(Called[m][1])
    OBVIOUS
  <2>2. ASSUME NEW n \in Shows(m) PROVE n = k
    <3>1. PICK name \in Name : IsNameOf(name, m) /\ n = Key(name)
      BY DEF Shows, Inv, Placed, ShownByKey
    <3> QED BY <2>1, <3>1, NamesAreNames DEF IsNameOf
  <2>3. Shows(m) = {} \/ Shows(m) = {k}
    BY <2>2
  <2>4. Cardinality({}) = 0
    BY FS_EmptySet
  <2>5. Cardinality({k}) = 1
    BY FS_Singleton
  <2>6. Cardinality(Shows(m)) = 0 \/ Cardinality(Shows(m)) = 1
    BY <2>3, <2>4, <2>5, Zenon
  <2>7. PICK count : count = Cardinality(Shows(m))
    OBVIOUS
  <2>8. count = 0 \/ count = 1
    BY <2>6, <2>7, Zenon
  <2>9. count <= 1
    BY <2>8, SMT
  <2> QED BY <2>7, <2>9, Zenon
<1> QED BY InitInv, StepInv, <1>1, PTL DEF Spec
=============================================================================
