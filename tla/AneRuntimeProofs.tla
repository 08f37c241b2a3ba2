--------------------------- MODULE AneRuntimeProofs ---------------------------
(***************************************************************************)
(* Proofs about the ANE runtime and the runs of the example programs.      *)
(*                                                                         *)
(* The graphs: what the calls of the builder make is well made (Good), and *)
(* so are the kernels of the examples, for dimensions of every size; from  *)
(* a graph that is, compile makes a list of operations (Listed) whose text *)
(* defines before it reads (Scoped) and refers to the weights it was given *)
(* (Chunked).  The operators that join lists and count along them are      *)
(* recursive functions; NatInd and Recursion give induction over them.     *)
(*                                                                         *)
(* The runs, for prompts, budgets, caches and models of every size: every  *)
(* run of the runtime is one of InferenceSession, whatever graphs were     *)
(* built and compiled before; and in a run that goes on (Held), what is on *)
(* the surface, in the caches and in the recurrent states comes from the   *)
(* tokens they were given.                                                 *)
(***************************************************************************)
EXTENDS AneRuntime, FiniteSetTheorems, FunctionTheorems, SequenceTheorems, WellFoundedInduction, TLAPS

-----------------------------------------------------------------------------
(* Numbers, recursion and lists.                                           *)

(* The order of Nat is well-founded; the library says it of an operator.   *)
LEMMA NatOrder ==
  \E R : IsWellFoundedOn(R, Nat) /\ \A x, y \in Nat : <<x, y>> \in R <=> x < y
<1>1. \A x, y \in Nat : <<x, y>> \in OpToRel(<, Nat) <=> x < y
  BY DEF OpToRel
<1>2. IsWellFoundedOn(OpToRel(<, Nat), Nat)
  BY NatLessThanWellFounded
<1> QED BY <1>1, <1>2

(* Induction: a set that has 0, and with a number the next, has them all.  *)
LEMMA NatInd ==
  ASSUME NEW S, 0 \in S, \A n \in Nat : n \in S => n + 1 \in S
  PROVE  Nat \subseteq S
<1> SUFFICES ASSUME Nat \ S # {} PROVE FALSE
  OBVIOUS
<1>1. PICK R : IsWellFoundedOn(R, Nat) /\ \A x, y \in Nat : <<x, y>> \in R <=> x < y
  BY NatOrder
<1>2. PICK x \in Nat \ S : \A y \in Nat \ S : <<y, x>> \notin R
  <2> DEFINE T == Nat \ S
  <2>1. T \subseteq Nat /\ T # {}
    OBVIOUS
  <2> HIDE DEF T
  <2>2. \E x \in T : \A y \in T : ~ (<<y, x>> \in R)
    <3>1. IsWellFoundedOn(R, Nat)
      BY <1>1
    <3> QED BY <2>1, <3>1, WFMin, Zenon
  <2> QED BY <2>2 DEF T
<1>3. x # 0 /\ x - 1 \in Nat /\ x - 1 < x
  BY <1>2
<1>4. x - 1 \in S
  BY <1>1, <1>2, <1>3
<1> QED BY <1>2, <1>3, <1>4

(* Induction from 1 to n.                                                  *)
LEMMA UpTo ==
  ASSUME NEW n \in Nat, NEW S, 1 \in S, \A i \in 1 .. n - 1 : i \in S => i + 1 \in S
  PROVE  1 .. n \subseteq S
<1> DEFINE T == {i \in Nat : i + 1 \in 1 .. n => i + 1 \in S}
<1>1. 0 \in T
  OBVIOUS
<1>2. ASSUME NEW i \in Nat, i \in T PROVE i + 1 \in T
  <2> SUFFICES ASSUME (i + 1) + 1 \in 1 .. n PROVE (i + 1) + 1 \in S
    OBVIOUS
  <2>1. i + 1 \in 1 .. n /\ i + 1 \in 1 .. n - 1
    OBVIOUS
  <2>2. i + 1 \in S
    BY <1>2, <2>1
  <2> QED BY <2>1, <2>2
<1> HIDE DEF T
<1>3. Nat \subseteq T
  BY <1>1, <1>2, NatInd
<1>4. \A i \in 1 .. n : i - 1 \in Nat /\ i - 1 \in T /\ (i - 1) + 1 = i
  BY <1>3
<1> QED BY <1>4 DEF T

(* A function on 1 .. n may be defined by its first value and its step.    *)
Recurs(f, X, base, G, n) ==
  f \in [1 .. n -> X] /\ \A i \in 1 .. n : f[i] = IF i = 1 THEN base ELSE G[<<i, f[i - 1]>>]

LEMMA Recursion ==
  ASSUME NEW X, NEW base \in X, NEW G \in [Nat \X X -> X], NEW n \in Nat
  PROVE  \E f : Recurs(f, X, base, G, n)
<1> DEFINE T == {m \in Nat : \E f : Recurs(f, X, base, G, m)}
<1>1. 0 \in T
  <2> DEFINE e == [i \in 1 .. 0 |-> base]
  <2>1. e \in [1 .. 0 -> X]
    OBVIOUS
  <2>2. \A i \in 1 .. 0 : e[i] = IF i = 1 THEN base ELSE G[<<i, e[i - 1]>>]
    <3> HIDE DEF e
    <3>1. \A i \in 1 .. 0 : FALSE
      OBVIOUS
    <3> QED BY <3>1
  <2>3. Recurs(e, X, base, G, 0)
    <3> HIDE DEF e
    <3> QED BY <2>1, <2>2 DEF Recurs
  <2> QED BY <2>3
<1>2. ASSUME NEW m \in Nat, m \in T PROVE m + 1 \in T
  <2>1. PICK f \in [1 .. m -> X] : \A i \in 1 .. m : f[i] = IF i = 1 THEN base ELSE G[<<i, f[i - 1]>>]
    BY <1>2 DEF Recurs
  <2> DEFINE last == IF m = 0 THEN base ELSE G[<<m + 1, f[m]>>]
             h == [i \in 1 .. m + 1 |-> IF i = m + 1 THEN last ELSE f[i]]
  <2>2. last \in X
    <3>1. CASE m = 0
      BY <3>1
    <3>2. CASE m # 0
      <4>1. f[m] \in X /\ <<m + 1, f[m]>> \in Nat \X X
        BY <3>2
      <4> QED BY <3>2, <4>1
    <3> QED BY <3>1, <3>2
  <2>3. h \in [1 .. m + 1 -> X]
    <3> HIDE DEF last
    <3> QED BY <2>2
  <2>4. ASSUME NEW i \in 1 .. m + 1 PROVE h[i] = IF i = 1 THEN base ELSE G[<<i, h[i - 1]>>]
    <3>1. CASE i = m + 1 /\ m = 0
      BY <3>1
    <3>2. CASE i = m + 1 /\ m # 0
      <4>1. h[i] = last /\ i # 1 /\ i - 1 = m /\ m \in 1 .. m + 1 /\ m # m + 1
        BY <3>2
      <4>2. h[m] = f[m]
        BY <4>1
      <4> QED BY <3>2, <4>1, <4>2
    <3>3. CASE i # m + 1
      <4>1. i \in 1 .. m /\ h[i] = f[i]
        BY <3>3
      <4>2. i # 1 => i - 1 \in 1 .. m + 1 /\ i - 1 # m + 1
        BY <4>1
      <4>3. i # 1 => h[i - 1] = f[i - 1]
        BY <4>2
      <4> QED BY <2>1, <4>1, <4>3
    <3> QED BY <3>1, <3>2, <3>3
  <2> HIDE DEF h
  <2>5. m + 1 \in Nat
    OBVIOUS
  <2>6. Recurs(h, X, base, G, m + 1)
    BY <2>3, <2>4 DEF Recurs
  <2> QED BY <2>5, <2>6
<1> HIDE DEF T
<1>3. n \in T
  BY <1>1, <1>2, NatInd
<1> QED BY <1>3 DEF T

(* A list of lists, one after the other: its parts, from the first on.     *)
LEMMA Joins ==
  ASSUME NEW S, NEW lists \in Seq(Seq(S)), lists # <<>>
  PROVE  \E f \in [1 .. Len(lists) -> Seq(S)] :
           /\ f[1] = lists[1]
           /\ \A i \in 1 .. Len(lists) - 1 : f[i + 1] = f[i] \o lists[i + 1]
           /\ FlattenSeq(lists) = f[Len(lists)]
<1> DEFINE n == Len(lists)
           G == [x \in Nat \X Seq(S) |-> IF x[1] \in 1 .. n THEN x[2] \o lists[x[1]] ELSE x[2]]
           Flattening(f) == f = [i \in 1 .. Len(lists) |-> IF i = 1 THEN lists[i] ELSE f[i - 1] \o lists[i]]
           flat == CHOOSE f : Flattening(f)
<1>1. n \in Nat \ {0} /\ \A i \in 1 .. n : lists[i] \in Seq(S)
  BY EmptySeq, LenProperties, ElementOfSeq
<1> HIDE DEF n
<1>2. G \in [Nat \X Seq(S) -> Seq(S)]
  <2> SUFFICES ASSUME NEW x \in Nat \X Seq(S)
               PROVE  (IF x[1] \in 1 .. n THEN x[2] \o lists[x[1]] ELSE x[2]) \in Seq(S)
    OBVIOUS
  <2>1. x[2] \in Seq(S)
    OBVIOUS
  <2>2. x[1] \in 1 .. n => x[2] \o lists[x[1]] \in Seq(S)
    BY <1>1, <2>1, ConcatProperties
  <2> QED BY <2>1, <2>2
<1>3. lists[1] \in Seq(S)
  BY <1>1
<1>4. PICK f \in [1 .. n -> Seq(S)] : \A i \in 1 .. n : f[i] = IF i = 1 THEN lists[1] ELSE G[<<i, f[i - 1]>>]
  <2>1. n \in Nat
    BY <1>1
  <2> HIDE DEF G
  <2>2. \E f : Recurs(f, Seq(S), lists[1], G, n)
    BY <1>2, <1>3, <2>1, Recursion
  <2> QED BY <2>2 DEF Recurs
<1>5. \A i \in 1 .. n : i # 1 => f[i - 1] \in Seq(S) /\ <<i, f[i - 1]>> \in Nat \X Seq(S)
  BY <1>1
<1>6. \A i \in 1 .. n : f[i] = IF i = 1 THEN lists[i] ELSE f[i - 1] \o lists[i]
  BY <1>4, <1>5
<1>7. Flattening(f)
  <2>1. f = [i \in 1 .. n |-> IF i = 1 THEN lists[i] ELSE f[i - 1] \o lists[i]]
    BY <1>6
  <2> QED BY <2>1 DEF n
<1>8. Flattening(flat)
  <2> HIDE DEF Flattening
  <2> QED BY <1>7
<1>9. FlattenSeq(lists) = flat[Len(lists)]
  BY <1>1 DEF FlattenSeq, n
<1> HIDE DEF flat
<1>10. \A i \in 1 .. n : flat[i] = IF i = 1 THEN lists[i] ELSE flat[i - 1] \o lists[i]
  BY <1>8 DEF n
<1>11. 1 .. n \subseteq {i \in 1 .. n : flat[i] \in Seq(S)}
  <2> DEFINE T == {i \in 1 .. n : flat[i] \in Seq(S)}
  <2>1. 1 \in T
    <3>1. 1 \in 1 .. n
      BY <1>1
    <3>2. flat[1] = lists[1]
      BY <1>10, <3>1
    <3> QED BY <1>3, <3>1, <3>2
  <2>2. ASSUME NEW i \in 1 .. n - 1, i \in T PROVE i + 1 \in T
    <3>1. i + 1 \in 1 .. n /\ i + 1 # 1 /\ (i + 1) - 1 = i
      BY <1>1
    <3>2. flat[i + 1] = flat[i] \o lists[i + 1]
      BY <1>10, <3>1
    <3>3. flat[i] \in Seq(S) /\ lists[i + 1] \in Seq(S)
      BY <1>1, <2>2, <3>1
    <3>4. flat[i] \o lists[i + 1] \in Seq(S)
      BY <3>3, ConcatProperties
    <3> QED BY <3>1, <3>2, <3>4
  <2>3. n \in Nat
    BY <1>1
  <2> HIDE DEF T
  <2>4. 1 .. n \subseteq T
    BY <2>1, <2>2, <2>3, UpTo
  <2> QED BY <2>4 DEF T
<1>12. flat \in [1 .. n -> Seq(S)]
  <2>1. flat = [i \in 1 .. n |-> IF i = 1 THEN lists[i] ELSE flat[i - 1] \o lists[i]]
    BY <1>8 DEF n
  <2>2. DOMAIN flat = 1 .. n
    BY <2>1
  <2>3. flat = [i \in 1 .. n |-> flat[i]]
    BY <2>1
  <2> QED BY <1>11, <2>2, <2>3
<1>13. flat[1] = lists[1]
  BY <1>1, <1>10
<1>14. \A i \in 1 .. n - 1 : flat[i + 1] = flat[i] \o lists[i + 1]
  <2> SUFFICES ASSUME NEW i \in 1 .. n - 1 PROVE flat[i + 1] = flat[i] \o lists[i + 1]
    OBVIOUS
  <2>1. i + 1 \in 1 .. n /\ i + 1 # 1 /\ (i + 1) - 1 = i
    BY <1>1
  <2> QED BY <1>10, <2>1
<1> QED BY <1>9, <1>12, <1>13, <1>14 DEF n

(* What the parts have is what the whole has.                              *)
LEMMA JoinedMembers ==
  ASSUME NEW S, NEW lists \in Seq(Seq(S))
  PROVE  /\ FlattenSeq(lists) \in Seq(S)
         /\ ToSet(FlattenSeq(lists)) = UNION {ToSet(lists[i]) : i \in DOMAIN lists}
<1>1. Len(lists) \in Nat /\ DOMAIN lists = 1 .. Len(lists) /\ \A i \in 1 .. Len(lists) : lists[i] \in Seq(S)
  BY LenProperties, ElementOfSeq
<1>2. CASE lists = <<>>
  <2>1. FlattenSeq(lists) = <<>> /\ Len(lists) = 0
    BY <1>2 DEF FlattenSeq
  <2>2. ToSet(FlattenSeq(lists)) = {} /\ DOMAIN lists = {}
    BY <1>2, <2>1 DEF ToSet
  <2> QED BY <2>1, <2>2, EmptySeq
<1>3. CASE lists # <<>>
  <2> DEFINE n == Len(lists)
  <2>1. n \in Nat \ {0}
    BY <1>3, EmptySeq
  <2>2. PICK f \in [1 .. n -> Seq(S)] :
           /\ f[1] = lists[1]
           /\ \A i \in 1 .. n - 1 : f[i + 1] = f[i] \o lists[i + 1]
           /\ FlattenSeq(lists) = f[n]
    BY <1>3, Joins
  <2> DEFINE T == {k \in 1 .. n : ToSet(f[k]) = UNION {ToSet(lists[i]) : i \in 1 .. k}}
  <2>3. 1 \in T
    <3>1. 1 \in 1 .. n /\ 1 .. 1 = {1}
      BY <2>1
    <3> QED BY <2>2, <3>1
  <2>4. ASSUME NEW k \in 1 .. n - 1, k \in T PROVE k + 1 \in T
    <3>1. k + 1 \in 1 .. n /\ k \in 1 .. n /\ 1 .. k + 1 = (1 .. k) \cup {k + 1}
      BY <2>1
    <3>2. f[k] \in Seq(S) /\ lists[k + 1] \in Seq(S)
      BY <1>1, <3>1
    <3>3. ToSet(f[k] \o lists[k + 1]) = ToSet(f[k]) \cup ToSet(lists[k + 1])
      <4> HIDE DEF T, n
      <4> DEFINE s == f[k]
                 t == lists[k + 1]
      <4>1. s \in Seq(S) /\ t \in Seq(S)
        BY <3>2
      <4> HIDE DEF s, t
      <4>2. /\ Len(s) \in Nat /\ Len(t) \in Nat /\ DOMAIN s = 1 .. Len(s) /\ DOMAIN t = 1 .. Len(t)
            /\ DOMAIN (s \o t) = 1 .. Len(s) + Len(t)
            /\ \A i \in 1 .. Len(s) + Len(t) : (s \o t)[i] = IF i <= Len(s) THEN s[i] ELSE t[i - Len(s)]
        <5>1. s \o t \in Seq(S) /\ Len(s \o t) = Len(s) + Len(t)
          BY <4>1, ConcatProperties
        <5> QED BY <4>1, <5>1, ConcatProperties, LenProperties
      <4>3. ASSUME NEW i \in DOMAIN s PROVE s[i] \in ToSet(s \o t)
        <5>1. i \in 1 .. Len(s) + Len(t) /\ (s \o t)[i] = s[i]
          BY <4>2
        <5> QED BY <4>2, <5>1 DEF ToSet
      <4>4. ASSUME NEW i \in DOMAIN t PROVE t[i] \in ToSet(s \o t)
        <5>1. Len(s) + i \in 1 .. Len(s) + Len(t) /\ (s \o t)[Len(s) + i] = t[i]
          BY <4>2
        <5> QED BY <4>2, <5>1 DEF ToSet
      <4>5. ASSUME NEW i \in DOMAIN (s \o t) PROVE (s \o t)[i] \in ToSet(s) \cup ToSet(t)
        <5>1. i > Len(s) => i - Len(s) \in DOMAIN t
          BY <4>2
        <5>2. i <= Len(s) => i \in DOMAIN s
          BY <4>2
        <5> QED BY <4>2, <5>1, <5>2 DEF ToSet
      <4>6. ToSet(s \o t) = ToSet(s) \cup ToSet(t)
        BY <4>3, <4>4, <4>5 DEF ToSet
      <4> QED BY <4>6 DEF s, t
    <3>4. ToSet(f[k + 1]) = ToSet(f[k]) \cup ToSet(lists[k + 1])
      BY <2>2, <3>3
    <3>5. ToSet(f[k]) = UNION {ToSet(lists[i]) : i \in 1 .. k}
      BY <2>4
    <3>6. UNION {ToSet(lists[i]) : i \in 1 .. k + 1} = (UNION {ToSet(lists[i]) : i \in 1 .. k}) \cup ToSet(lists[k + 1])
      BY <3>1
    <3>7. ToSet(f[k + 1]) = UNION {ToSet(lists[i]) : i \in 1 .. k + 1}
      BY <3>4, <3>5, <3>6
    <3> QED BY <3>1, <3>7
  <2> HIDE DEF T
  <2>5. n \in T
    <3>1. n \in Nat /\ n \in 1 .. n
      BY <2>1
    <3>2. 1 .. n \subseteq T
      BY <2>3, <2>4, <3>1, UpTo
    <3> QED BY <3>1, <3>2
  <2>6. ToSet(FlattenSeq(lists)) = UNION {ToSet(lists[i]) : i \in 1 .. n}
    BY <2>2, <2>5 DEF T
  <2>7. FlattenSeq(lists) \in Seq(S)
    BY <2>1, <2>2
  <2> QED BY <1>1, <2>6, <2>7
<1> QED BY <1>2, <1>3

(* And where: each part begins where those before it end.                  *)
LEMMA JoinedPlaces ==
  ASSUME NEW S, NEW lists \in Seq(Seq(S)), NEW off \in [1 .. Len(lists) -> Nat],
         Len(lists) > 0 => off[1] = 0,
         \A i \in 1 .. Len(lists) - 1 : off[i + 1] = off[i] + Len(lists[i])
  PROVE  \A i \in 1 .. Len(lists) : \A j \in 1 .. Len(lists[i]) :
            off[i] + j \in DOMAIN FlattenSeq(lists) /\ FlattenSeq(lists)[off[i] + j] = lists[i][j]
<1>1. Len(lists) \in Nat /\ DOMAIN lists = 1 .. Len(lists) /\ \A i \in 1 .. Len(lists) : lists[i] \in Seq(S)
  BY LenProperties, ElementOfSeq
<1>2. CASE lists = <<>>
  <2>1. Len(lists) = 0
    BY <1>2
  <2> QED BY <2>1
<1>3. CASE lists # <<>>
  <2> DEFINE n == Len(lists)
  <2>1. n \in Nat \ {0}
    BY <1>3, EmptySeq
  <2>2. PICK f \in [1 .. n -> Seq(S)] :
           /\ f[1] = lists[1]
           /\ \A i \in 1 .. n - 1 : f[i + 1] = f[i] \o lists[i + 1]
           /\ FlattenSeq(lists) = f[n]
    BY <1>3, Joins
  <2>3. \A i \in 1 .. n : /\ lists[i] \in Seq(S) /\ Len(lists[i]) \in Nat /\ off[i] \in Nat
                          /\ f[i] \in Seq(S) /\ Len(f[i]) \in Nat /\ DOMAIN f[i] = 1 .. Len(f[i])
    BY <1>1, <2>2, LenProperties
  <2> DEFINE Placed(k) == \A i \in 1 .. k : \A j \in 1 .. Len(lists[i]) :
                             off[i] + j \in 1 .. Len(f[k]) /\ f[k][off[i] + j] = lists[i][j]
             T == {k \in 1 .. n : Len(f[k]) = off[k] + Len(lists[k]) /\ Placed(k)}
  <2>4. 1 \in T
    <3>1. 1 \in 1 .. n /\ 1 .. 1 = {1} /\ off[1] = 0
      BY <2>1
    <3>2. Placed(1)
      BY <2>2, <2>3, <3>1
    <3> QED BY <2>2, <2>3, <3>1, <3>2
  <2>5. ASSUME NEW k \in 1 .. n - 1, k \in T PROVE k + 1 \in T
    <3> DEFINE s == f[k]
               t == lists[k + 1]
    <3>1. k + 1 \in 1 .. n /\ k \in 1 .. n /\ 1 .. k + 1 = (1 .. k) \cup {k + 1}
      BY <2>1
    <3>2. /\ s \in Seq(S) /\ t \in Seq(S) /\ Len(s) \in Nat /\ Len(t) \in Nat
          /\ f[k + 1] = s \o t /\ off[k + 1] = Len(s) /\ off[k] \in Nat
      BY <2>2, <2>3, <2>5, <3>1
    <3>3. Placed(k)
      BY <2>5
    <3> HIDE DEF s, t
    <3>4. /\ Len(f[k + 1]) = Len(s) + Len(t)
          /\ \A i \in 1 .. Len(s) + Len(t) : f[k + 1][i] = IF i <= Len(s) THEN s[i] ELSE t[i - Len(s)]
      BY <3>2, ConcatProperties
    <3>5. ASSUME NEW i \in 1 .. k, NEW j \in 1 .. Len(lists[i])
          PROVE  off[i] + j \in 1 .. Len(f[k + 1]) /\ f[k + 1][off[i] + j] = lists[i][j]
      <4>1. off[i] + j \in 1 .. Len(s) /\ s[off[i] + j] = lists[i][j]
        BY <3>3 DEF s
      <4> HIDE DEF T
      <4>2. off[i] + j \in 1 .. Len(s) + Len(t) /\ off[i] + j <= Len(s)
        BY <3>2, <4>1
      <4> DEFINE v == off[i] + j
      <4>3. v \in 1 .. Len(s) + Len(t) /\ v <= Len(s) /\ s[v] = lists[i][j]
        BY <4>1, <4>2
      <4> HIDE DEF v
      <4>4. v \in 1 .. Len(f[k + 1]) /\ f[k + 1][v] = s[v]
        BY <3>4, <4>3
      <4> QED BY <4>3, <4>4 DEF v
    <3>6. ASSUME NEW j \in 1 .. Len(t)
          PROVE  off[k + 1] + j \in 1 .. Len(f[k + 1]) /\ f[k + 1][off[k + 1] + j] = t[j]
      <4> HIDE DEF T
      <4>1. Len(s) + j \in 1 .. Len(s) + Len(t) /\ ~ (Len(s) + j <= Len(s)) /\ (Len(s) + j) - Len(s) = j
        BY <3>2
      <4> QED BY <3>2, <3>4, <4>1
    <3>7. Placed(k + 1)
      <4> SUFFICES ASSUME NEW i \in 1 .. k + 1, NEW j \in 1 .. Len(lists[i])
                   PROVE  off[i] + j \in 1 .. Len(f[k + 1]) /\ f[k + 1][off[i] + j] = lists[i][j]
        OBVIOUS
      <4>1. CASE i = k + 1
        <5>1. j \in 1 .. Len(t) /\ t = lists[i]
          BY <4>1 DEF t
        <5> QED BY <3>6, <4>1, <5>1
      <4>2. CASE i # k + 1
        <5>1. i \in 1 .. k
          BY <3>1, <4>2
        <5> QED BY <3>5, <5>1
      <4> QED BY <4>1, <4>2
    <3>8. Len(f[k + 1]) = off[k + 1] + Len(lists[k + 1])
      BY <3>2, <3>4 DEF t
    <3> QED BY <3>1, <3>7, <3>8
  <2> HIDE DEF T
  <2>6. n \in T
    <3>1. n \in Nat /\ n \in 1 .. n
      BY <2>1
    <3>2. 1 .. n \subseteq T
      BY <2>4, <2>5, <3>1, UpTo
    <3> QED BY <3>1, <3>2
  <2>7. Placed(n) /\ DOMAIN f[n] = 1 .. Len(f[n])
    BY <2>1, <2>3, <2>6 DEF T
  <2> QED BY <2>2, <2>7
<1> QED BY <1>2, <1>3

-----------------------------------------------------------------------------
(* Lines that define each name once and read only what is defined above,   *)
(* or is in A.                                                             *)
Defs(s) == {s[i].defines : i \in DOMAIN s}
Above(A, s, i) == A \cup {s[j].defines : j \in 1 .. i - 1}
Scoped(A, s) == \A i \in DOMAIN s : s[i].defines \notin Above(A, s, i) /\ s[i].reads \subseteq Above(A, s, i)

LEMMA ScopedTwo ==
  ASSUME NEW S, NEW s \in Seq(S), NEW t \in Seq(S), NEW A, Scoped(A, s), Scoped(A \cup Defs(s), t)
  PROVE  Scoped(A, s \o t) /\ Defs(s \o t) = Defs(s) \cup Defs(t)
<1>1. /\ Len(s) \in Nat /\ Len(t) \in Nat /\ DOMAIN s = 1 .. Len(s) /\ DOMAIN t = 1 .. Len(t)
      /\ DOMAIN (s \o t) = 1 .. Len(s) + Len(t)
      /\ \A i \in 1 .. Len(s) + Len(t) : (s \o t)[i] = IF i <= Len(s) THEN s[i] ELSE t[i - Len(s)]
  <2>1. s \o t \in Seq(S) /\ Len(s \o t) = Len(s) + Len(t)
    BY ConcatProperties
  <2> QED BY <2>1, ConcatProperties, LenProperties
<1>2. \A i \in DOMAIN s : i \in DOMAIN (s \o t) /\ (s \o t)[i] = s[i]
  BY <1>1
<1>3. \A i \in DOMAIN t : Len(s) + i \in DOMAIN (s \o t) /\ (s \o t)[Len(s) + i] = t[i]
  BY <1>1
<1>4. \A i \in DOMAIN (s \o t) : i \in DOMAIN s \/ (i > Len(s) /\ i - Len(s) \in DOMAIN t /\ (s \o t)[i] = t[i - Len(s)])
  BY <1>1
<1>5. Defs(s \o t) = Defs(s) \cup Defs(t)
  <2>1. ASSUME NEW i \in DOMAIN s PROVE s[i].defines \in Defs(s \o t)
    BY <1>2 DEF Defs
  <2>2. ASSUME NEW i \in DOMAIN t PROVE t[i].defines \in Defs(s \o t)
    BY <1>3 DEF Defs
  <2>3. ASSUME NEW i \in DOMAIN (s \o t) PROVE (s \o t)[i].defines \in Defs(s) \cup Defs(t)
    BY <1>2, <1>4 DEF Defs
  <2> QED BY <2>1, <2>2, <2>3 DEF Defs
<1>6. ASSUME NEW i \in DOMAIN s PROVE Above(A, s \o t, i) = Above(A, s, i)
  <2>1. \A j \in 1 .. i - 1 : (s \o t)[j] = s[j]
    BY <1>1
  <2> QED BY <2>1 DEF Above
<1>7. ASSUME NEW i \in DOMAIN (s \o t), i > Len(s)
      PROVE  Above(A, s \o t, i) = Above(A \cup Defs(s), t, i - Len(s))
  <2>1. \A j \in 1 .. i - 1 : \/ j \in DOMAIN s /\ (s \o t)[j] = s[j]
                              \/ j - Len(s) \in 1 .. (i - Len(s)) - 1 /\ (s \o t)[j] = t[j - Len(s)]
    BY <1>1, <1>7
  <2>2. \A j \in DOMAIN s : j \in 1 .. i - 1 /\ (s \o t)[j] = s[j]
    BY <1>1, <1>7
  <2>3. \A j \in 1 .. (i - Len(s)) - 1 : Len(s) + j \in 1 .. i - 1 /\ (s \o t)[Len(s) + j] = t[j]
    BY <1>1, <1>7
  <2>4. ASSUME NEW x \in Above(A, s \o t, i) PROVE x \in Above(A \cup Defs(s), t, i - Len(s))
    <3>1. x \in A \/ \E j \in 1 .. i - 1 : x = (s \o t)[j].defines
      BY DEF Above
    <3> QED BY <2>1, <3>1 DEF Above, Defs
  <2>5. ASSUME NEW x \in Above(A \cup Defs(s), t, i - Len(s)) PROVE x \in Above(A, s \o t, i)
    <3>1. \/ x \in A
          \/ \E j \in DOMAIN s : x = s[j].defines
          \/ \E j \in 1 .. (i - Len(s)) - 1 : x = t[j].defines
      BY DEF Above, Defs
    <3> QED BY <2>2, <2>3, <3>1 DEF Above
  <2> QED BY <2>4, <2>5
<1>8. ASSUME NEW i \in DOMAIN (s \o t)
      PROVE  (s \o t)[i].defines \notin Above(A, s \o t, i) /\ (s \o t)[i].reads \subseteq Above(A, s \o t, i)
  <2>1. CASE i \in DOMAIN s
    BY <1>2, <1>6, <2>1 DEF Scoped
  <2>2. CASE i > Len(s) /\ i - Len(s) \in DOMAIN t /\ (s \o t)[i] = t[i - Len(s)]
    BY <1>7, <2>2 DEF Scoped
  <2> QED BY <1>4, <2>1, <2>2
<1>9. Scoped(A, s \o t)
  BY <1>8 DEF Scoped
<1> QED BY <1>5, <1>9

(* Part by part.                                                           *)
LEMMA ScopedParts ==
  ASSUME NEW S, NEW lists \in Seq(Seq(S)), lists # <<>>, NEW A,
         \A i \in 1 .. Len(lists) : Scoped(A \cup UNION {Defs(lists[j]) : j \in 1 .. i - 1}, lists[i])
  PROVE  /\ Scoped(A, FlattenSeq(lists))
         /\ Defs(FlattenSeq(lists)) = UNION {Defs(lists[j]) : j \in 1 .. Len(lists)}
<1> DEFINE n == Len(lists)
           U(k) == UNION {Defs(lists[j]) : j \in 1 .. k}
<1>1. n \in Nat \ {0} /\ \A i \in 1 .. n : lists[i] \in Seq(S)
  BY EmptySeq, ElementOfSeq
<1>2. PICK f \in [1 .. n -> Seq(S)] :
         /\ f[1] = lists[1]
         /\ \A i \in 1 .. n - 1 : f[i + 1] = f[i] \o lists[i + 1]
         /\ FlattenSeq(lists) = f[n]
  BY Joins
<1> DEFINE T == {k \in 1 .. n : Scoped(A, f[k]) /\ Defs(f[k]) = U(k)}
<1>3. 1 \in T
  <2>1. 1 \in 1 .. n /\ 1 .. 1 = {1} /\ 1 .. 1 - 1 = {}
    BY <1>1
  <2>2. U(1) = Defs(lists[1]) /\ A \cup U(1 - 1) = A
    BY <2>1
  <2>3. Scoped(A, lists[1])
    BY <2>1, <2>2
  <2> QED BY <1>2, <2>1, <2>2, <2>3
<1>4. ASSUME NEW k \in 1 .. n - 1, k \in T PROVE k + 1 \in T
  <2>1. k + 1 \in 1 .. n /\ k \in 1 .. n /\ 1 .. k + 1 = (1 .. k) \cup {k + 1} /\ (k + 1) - 1 = k
    BY <1>1
  <2>2. f[k] \in Seq(S) /\ lists[k + 1] \in Seq(S) /\ f[k + 1] = f[k] \o lists[k + 1]
    BY <1>1, <1>2, <2>1
  <2>3. Scoped(A, f[k]) /\ Defs(f[k]) = U(k)
    BY <1>4
  <2>4. Scoped(A \cup U(k), lists[k + 1])
    BY <2>1
  <2>5. U(k + 1) = U(k) \cup Defs(lists[k + 1])
    BY <2>1
  <2> HIDE DEF T, U
  <2> DEFINE p == f[k]
             q == lists[k + 1]
  <2>6. p \in Seq(S) /\ q \in Seq(S) /\ Scoped(A, p) /\ Scoped(A \cup Defs(p), q)
    BY <2>2, <2>3, <2>4
  <2> HIDE DEF p, q
  <2>7. Scoped(A, p \o q) /\ Defs(p \o q) = Defs(p) \cup Defs(q)
    BY <2>6, ScopedTwo
  <2> QED BY <2>1, <2>2, <2>3, <2>5, <2>7 DEF T, p, q
<1> HIDE DEF T
<1>5. n \in T
  <2>1. n \in Nat /\ n \in 1 .. n
    BY <1>1
  <2>2. 1 .. n \subseteq T
    BY <1>3, <1>4, <2>1, UpTo
  <2> QED BY <2>1, <2>2
<1>6. Scoped(A, f[n]) /\ Defs(f[n]) = U(n)
  BY <1>5 DEF T
<1> QED BY <1>2, <1>6

-----------------------------------------------------------------------------
(* Shapes.                                                                 *)

Positive == Nat \ {0}
Shape == [1 .. 4 -> Positive]

LEMMA Four ==
  ASSUME NEW a \in Positive, NEW b \in Positive, NEW c \in Positive, NEW d \in Positive
  PROVE  <<a, b, c, d>> \in Shape
BY DEF Shape

LEMMA FourMeans ==
  ASSUME NEW s \in Shape
  PROVE  /\ s[1] \in Positive /\ s[2] \in Positive /\ s[3] \in Positive /\ s[4] \in Positive
         /\ DOMAIN s = 1 .. 4
BY DEF Shape

LEMMA Times ==
  ASSUME NEW a \in Positive, NEW b \in Positive
  PROVE  a * b \in Positive /\ a + b \in Positive
BY DEF Positive

LEMMA OneOf == 1 \in Positive /\ 2 \in Positive /\ 3 \in Positive /\ 4 \in Positive
BY DEF Positive

LEMMA ElementsPositive ==
  ASSUME NEW s \in Shape
  PROVE  Elements(s) \in Positive
<1>1. s[1] * s[2] \in Positive
  BY FourMeans, Times
<1>2. s[1] * s[2] * s[3] \in Positive
  BY <1>1, FourMeans, Times
<1>3. s[1] * s[2] * s[3] * s[4] \in Positive
  BY <1>2, FourMeans, Times
<1> QED BY <1>3 DEF Elements

LEMMA ConvShapes ==
  ASSUME NEW s \in Shape, NEW k \in Shape, NEW pad, NEW stride \in Positive
  PROVE  ConvShape(s, k, pad) \in Shape /\ DeconvShape(s, k, stride) \in Shape
<1>1. \A d \in 3 .. 4 : Less(s[d], k[d]) + 1 \in Positive /\ s[d] \in Positive /\ k[2] \in Positive
  BY DEF Less, Positive, Shape
<1>2. \A d \in 3 .. 4 : s[d] * stride \in Positive
  BY <1>1, Times
<1>3. 3 \in 3 .. 4 /\ 4 \in 3 .. 4
  OBVIOUS
<1>4. CASE pad = "valid"
  <2>1. ConvShape(s, k, pad) = <<1, k[2], Less(s[3], k[3]) + 1, Less(s[4], k[4]) + 1>>
    BY <1>4 DEF ConvShape
  <2> QED BY <1>1, <1>2, <1>3, <2>1, Four, OneOf DEF DeconvShape
<1>5. CASE pad # "valid"
  <2>1. ConvShape(s, k, pad) = <<1, k[2], s[3], s[4]>>
    BY <1>5 DEF ConvShape
  <2> QED BY <1>1, <1>2, <1>3, <2>1, Four, OneOf DEF DeconvShape
<1> QED BY <1>4, <1>5

LEMMA PairShapes ==
  ASSUME NEW a \in Shape, NEW b \in Shape, NEW tx \in BOOLEAN, NEW ty \in BOOLEAN
  PROVE  Broadcast(a, b) \in Shape /\ Product(a, b, tx, ty) \in Shape
<1>1. \A d \in 1 .. 4 : a[d] \in Positive /\ b[d] \in Positive
  BY DEF Shape
<1>2. Broadcast(a, b) \in Shape
  BY <1>1 DEF Broadcast, Larger, Shape
<1>3. Product(a, b, tx, ty) \in Shape
  <2>1. (IF tx THEN a[4] ELSE a[3]) \in Positive /\ (IF ty THEN b[3] ELSE b[4]) \in Positive
    BY <1>1
  <2> QED BY <1>1, <2>1, Four DEF Product
<1> QED BY <1>2, <1>3

LEMMA OneShapes ==
  ASSUME NEW s \in Shape, NEW kernel \in Positive, NEW stride \in Positive, NEW pad, NEW by \in Positive,
         NEW axis \in 1 .. 4, NEW perm \in [1 .. 4 -> 1 .. 4]
  PROVE  /\ Pooled(s, kernel, stride, pad) \in Shape
         /\ Padded(s, by) \in Shape
         /\ Reduced(s, axis) \in Shape
         /\ Permuted(s, perm) \in Shape
         /\ Flat(s) \in Shape
         /\ <<1, s[2], 1, 1>> \in Shape
<1>1. \A d \in 1 .. 4 : s[d] \in Positive
  BY DEF Shape
<1>2. Permuted(s, perm) \in Shape
  BY <1>1 DEF Permuted, Shape
<1>3. Reduced(s, axis) \in Shape
  BY <1>1, OneOf DEF Reduced, Shape
<1>4. Flat(s) \in Shape /\ <<1, s[2], 1, 1>> \in Shape
  BY <1>1, ElementsPositive, Four, OneOf DEF Flat
<1>5. Padded(s, by) \in Shape
  <2>1. s[3] + 2 * by \in Positive /\ s[4] + 2 * by \in Positive
    BY <1>1 DEF Positive
  <2> QED BY <1>1, <2>1, Four, OneOf DEF Padded
<1>6. \A d \in 3 .. 4 : Less(s[d], kernel) \div stride + 1 \in Positive
  <2> SUFFICES ASSUME NEW d \in 3 .. 4 PROVE Less(s[d], kernel) \div stride + 1 \in Positive
    OBVIOUS
  <2>1. Less(s[d], kernel) \in Nat
    BY <1>1 DEF Less, Positive
  <2>2. \A n \in Nat : n \div stride \in Nat
    BY DEF Positive
  <2> QED BY <2>1, <2>2 DEF Positive
<1>7. \A d \in 3 .. 4 : DivUp(s[d], stride) \in Positive
  <2> SUFFICES ASSUME NEW d \in 3 .. 4 PROVE DivUp(s[d], stride) \in Positive
    OBVIOUS
  <2>1. s[d] + stride - 1 \in Nat /\ s[d] + stride - 1 >= stride
    BY <1>1 DEF Positive
  <2>2. \A n \in Nat : n >= stride => n \div stride \in Positive
    BY DEF Positive
  <2> QED BY <2>1, <2>2 DEF DivUp
<1>8. Pooled(s, kernel, stride, pad) \in Shape
  <2>1. 3 \in 3 .. 4 /\ 4 \in 3 .. 4 /\ s[2] \in Positive
    BY <1>1
  <2>2. CASE pad = "valid"
    <3>1. Pooled(s, kernel, stride, pad) =
             <<1, s[2], Less(s[3], kernel) \div stride + 1, Less(s[4], kernel) \div stride + 1>>
      BY <2>2 DEF Pooled
    <3> QED BY <1>6, <2>1, <3>1, Four, OneOf
  <2>3. CASE pad # "valid"
    <3>1. Pooled(s, kernel, stride, pad) = <<1, s[2], DivUp(s[3], stride), DivUp(s[4], stride)>>
      BY <2>3 DEF Pooled
    <3> QED BY <1>7, <2>1, <3>1, Four, OneOf
  <2> QED BY <2>2, <2>3
<1> QED BY <1>2, <1>3, <1>4, <1>5, <1>8

(* The concatenated tensor is as long as all of them.                      *)
LEMMA ConcatShape ==
  ASSUME NEW list \in Seq(Shape), list # <<>>, NEW axis \in 1 .. 4
  PROVE  Concatenated(list, axis) \in Shape
<1> DEFINE n == Len(list)
           G == [x \in Nat \X Positive |-> IF x[1] \in 1 .. n THEN x[2] + list[x[1]][axis] ELSE x[2]]
           Summed(f) == f = [i \in DOMAIN list |-> IF i = 1 THEN list[1][axis] ELSE f[i - 1] + list[i][axis]]
           sum == CHOOSE f : Summed(f)
<1>1. n \in Positive /\ DOMAIN list = 1 .. n /\ \A i \in 1 .. n : list[i] \in Shape /\ list[i][axis] \in Positive
  <2>1. \A i \in 1 .. n : list[i] \in Shape
    BY ElementOfSeq
  <2> QED BY <2>1, EmptySeq, LenProperties DEF Positive, Shape
<1> HIDE DEF n
<1>2. G \in [Nat \X Positive -> Positive]
  <2> SUFFICES ASSUME NEW x \in Nat \X Positive
               PROVE  (IF x[1] \in 1 .. n THEN x[2] + list[x[1]][axis] ELSE x[2]) \in Positive
    OBVIOUS
  <2>1. x[2] \in Positive
    OBVIOUS
  <2>2. x[1] \in 1 .. n => x[2] + list[x[1]][axis] \in Positive
    BY <1>1, <2>1, Times
  <2> QED BY <2>1, <2>2
<1>3. n \in Nat /\ 1 \in 1 .. n /\ n \in 1 .. n /\ list[1][axis] \in Positive
  BY <1>1 DEF Positive
<1>4. PICK f : Recurs(f, Positive, list[1][axis], G, n)
  <2> HIDE DEF G
  <2> QED BY <1>2, <1>3, Recursion
<1>5. f \in [1 .. n -> Positive] /\ \A i \in 1 .. n : f[i] = IF i = 1 THEN list[1][axis] ELSE G[<<i, f[i - 1]>>]
  BY <1>4 DEF Recurs
<1>6. \A i \in 1 .. n : i # 1 => f[i - 1] \in Positive /\ <<i, f[i - 1]>> \in Nat \X Positive
  BY <1>3, <1>5
<1>7. \A i \in 1 .. n : f[i] = IF i = 1 THEN list[1][axis] ELSE f[i - 1] + list[i][axis]
  BY <1>5, <1>6
<1>8. Summed(f)
  <2>1. f = [i \in 1 .. n |-> IF i = 1 THEN list[1][axis] ELSE f[i - 1] + list[i][axis]]
    BY <1>5, <1>7
  <2> QED BY <1>1, <2>1
<1>9. Summed(sum)
  <2> HIDE DEF Summed
  <2> QED BY <1>8
<1>10. Concatenated(list, axis) = [list[1] EXCEPT ![axis] = sum[n]]
  BY DEF Concatenated, n
<1> HIDE DEF sum
<1>11. \A i \in 1 .. n : sum[i] = IF i = 1 THEN list[1][axis] ELSE sum[i - 1] + list[i][axis]
  BY <1>1, <1>9
<1> DEFINE T == {i \in 1 .. n : sum[i] \in Positive}
<1>12. 1 \in T
  BY <1>3, <1>11
<1>13. ASSUME NEW i \in 1 .. n - 1, i \in T PROVE i + 1 \in T
  <2>1. i + 1 \in 1 .. n /\ i + 1 # 1 /\ (i + 1) - 1 = i
    BY <1>3
  <2>2. sum[i + 1] = sum[i] + list[i + 1][axis]
    BY <1>11, <2>1
  <2>3. sum[i] \in Positive /\ list[i + 1][axis] \in Positive
    BY <1>1, <1>13, <2>1
  <2>4. sum[i + 1] \in Positive
    BY <2>2, <2>3, Times
  <2> QED BY <2>1, <2>4
<1> HIDE DEF T
<1>14. n \in T
  <2>1. 1 .. n \subseteq T
    BY <1>3, <1>12, <1>13, UpTo
  <2> QED BY <1>3, <2>1
<1>15. sum[n] \in Positive /\ list[1] \in Shape
  BY <1>1, <1>3, <1>14 DEF T
<1> HIDE DEF Positive
<1>16. [list[1] EXCEPT ![axis] = sum[n]] \in Shape
  BY <1>15 DEF Shape
<1> QED BY <1>10, <1>16

-----------------------------------------------------------------------------
(* Graphs.                                                                 *)

(* The kinds of operations with weights of their own, and the others.      *)
Weighted == {"conv", "deconv", "instance_norm"}
Plain == {"activation", "hard_sigmoid", "elementwise", "softmax", "concat", "matmul", "transpose", "slice",
          "reshape", "flatten", "pool", "pad", "reduce"}

Operation == [kind : Weighted \cup Plain, top : Nat, bottoms : Seq(Nat), blobs : Seq(Nat)]
GraphSet == [shapes : Seq(Shape), inputs : Seq(Nat), constants : SUBSET Nat, ops : Seq(Operation)]

(* An operation that was fed tensors made before it, and the weights its   *)
(* kind takes, constants all of them.                                      *)
Fed(op, constants) ==
  /\ \A i \in DOMAIN op.bottoms : op.bottoms[i] \in 1 .. op.top - 1
  /\ \A i \in DOMAIN op.blobs : op.blobs[i] \in constants /\ op.blobs[i] \in 1 .. op.top - 1
  /\ Len(op.blobs) = Advance(op)
  /\ op.kind \in {"conv", "deconv"} => Len(op.blobs) \in 1 .. 2

(* What the calls of the builder make: every tensor is an input, a         *)
(* constant or made by one operation, and operations come in the order of  *)
(* what they make.                                                         *)
Good(g) ==
  /\ g \in GraphSet
  /\ \A i \in DOMAIN g.ops : Fed(g.ops[i], g.constants)
  /\ ToSet(g.inputs) \cup g.constants \cup TopsOf(g.ops) = 1 .. New(g)
  /\ ToSet(g.inputs) \cap g.constants = {}
  /\ TopsOf(g.ops) \cap (ToSet(g.inputs) \cup g.constants) = {}
  /\ \A i, j \in DOMAIN g.ops : i < j => g.ops[i].top < g.ops[j].top

LEMMA Parts ==
  ASSUME NEW g, Good(g)
  PROVE  /\ New(g) \in Nat /\ Tensors(g) = 1 .. New(g)
         /\ g.shapes \in Seq(Shape) /\ g.inputs \in Seq(Nat) /\ g.ops \in Seq(Operation) /\ g.constants \subseteq Nat
         /\ g = [shapes |-> g.shapes, inputs |-> g.inputs, constants |-> g.constants, ops |-> g.ops]
         /\ \A x \in Tensors(g) : x \in Nat /\ ShapeOf(g, x) \in Shape
         /\ g.constants \subseteq Tensors(g) /\ ToSet(g.inputs) \subseteq Tensors(g) /\ TopsOf(g.ops) \subseteq Tensors(g)
<1>1. g.shapes \in Seq(Shape) /\ g.inputs \in Seq(Nat) /\ g.ops \in Seq(Operation) /\ g.constants \subseteq Nat
      /\ g = [shapes |-> g.shapes, inputs |-> g.inputs, constants |-> g.constants, ops |-> g.ops]
  BY DEF Good, GraphSet
<1>2. New(g) \in Nat /\ Tensors(g) = 1 .. New(g)
  BY <1>1, LenProperties DEF New, Tensors
<1>3. \A x \in Tensors(g) : x \in Nat /\ ShapeOf(g, x) \in Shape
  BY <1>1, <1>2, ElementOfSeq DEF ShapeOf, New
<1>4. g.constants \subseteq Tensors(g) /\ ToSet(g.inputs) \subseteq Tensors(g) /\ TopsOf(g.ops) \subseteq Tensors(g)
  BY <1>2 DEF Good
<1> QED BY <1>1, <1>2, <1>3, <1>4

LEMMA Appended ==
  ASSUME NEW S, NEW s \in Seq(S), NEW e \in S
  PROVE  /\ Append(s, e) \in Seq(S) /\ Len(Append(s, e)) = Len(s) + 1 /\ Len(s) \in Nat
         /\ DOMAIN s = 1 .. Len(s) /\ DOMAIN Append(s, e) = 1 .. Len(s) + 1
         /\ \A i \in 1 .. Len(s) : Append(s, e)[i] = s[i]
         /\ Append(s, e)[Len(s) + 1] = e
<1>1. Append(s, e) \in Seq(S) /\ Len(Append(s, e)) = Len(s) + 1
      /\ \A i \in 1 .. Len(s) : Append(s, e)[i] = s[i]
      /\ Append(s, e)[Len(s) + 1] = e
  BY AppendProperties
<1>2. Len(s) \in Nat /\ DOMAIN s = 1 .. Len(s) /\ DOMAIN Append(s, e) = 1 .. Len(Append(s, e))
  BY <1>1, LenProperties
<1> QED BY <1>1, <1>2

LEMMA AppendedMembers ==
  ASSUME NEW S, NEW s \in Seq(S), NEW e \in S
  PROVE  ToSet(Append(s, e)) = ToSet(s) \cup {e} /\ TopsOf(Append(s, e)) = TopsOf(s) \cup {e.top}
<1>1. /\ DOMAIN s = 1 .. Len(s) /\ DOMAIN Append(s, e) = (1 .. Len(s)) \cup {Len(s) + 1}
      /\ \A i \in 1 .. Len(s) : Append(s, e)[i] = s[i]
      /\ Append(s, e)[Len(s) + 1] = e
  BY Appended
<1> DEFINE t == Append(s, e)
<1> HIDE DEF t
<1>2. /\ DOMAIN t = DOMAIN s \cup {Len(s) + 1} /\ t[Len(s) + 1] = e
      /\ \A i \in DOMAIN s : t[i] = s[i]
  BY <1>1 DEF t
<1>3. ToSet(t) = ToSet(s) \cup {e}
  BY <1>2 DEF ToSet
<1>4. TopsOf(t) = TopsOf(s) \cup {e.top}
  BY <1>2 DEF TopsOf
<1> QED BY <1>3, <1>4 DEF t

LEMMA Allocated ==
  ASSUME NEW g, Good(g), NEW x
  PROVE  /\ [g EXCEPT !.shapes = x] = [shapes |-> x, inputs |-> g.inputs, constants |-> g.constants, ops |-> g.ops]
         /\ [g EXCEPT !.shapes = x].inputs = g.inputs
         /\ [g EXCEPT !.shapes = x].constants = g.constants
         /\ [g EXCEPT !.shapes = x].ops = g.ops
<1>1. g = [shapes |-> g.shapes, inputs |-> g.inputs, constants |-> g.constants, ops |-> g.ops]
  BY Parts
<1> DEFINE h == [g EXCEPT !.shapes = x]
<1>2. h = [shapes |-> x, inputs |-> g.inputs, constants |-> g.constants, ops |-> g.ops]
  BY <1>1
<1> HIDE DEF h
<1>3. h.inputs = g.inputs /\ h.constants = g.constants /\ h.ops = g.ops
  BY <1>2
<1> QED BY <1>2, <1>3 DEF h

LEMMA UpdatedInputs ==
  ASSUME NEW g, Good(g), NEW x, NEW y
  PROVE  [[g EXCEPT !.shapes = x] EXCEPT !.inputs = y] =
           [shapes |-> x, inputs |-> y, constants |-> g.constants, ops |-> g.ops]
<1> DEFINE h == [g EXCEPT !.shapes = x]
<1>1. h = [shapes |-> x, inputs |-> g.inputs, constants |-> g.constants, ops |-> g.ops]
  BY Allocated
<1> HIDE DEF h
<1>2. [h EXCEPT !.inputs = y] = [shapes |-> x, inputs |-> y, constants |-> g.constants, ops |-> g.ops]
  BY <1>1
<1> QED BY <1>2 DEF h

LEMMA UpdatedConstants ==
  ASSUME NEW g, Good(g), NEW x, NEW y
  PROVE  [[g EXCEPT !.shapes = x] EXCEPT !.constants = y] =
           [shapes |-> x, inputs |-> g.inputs, constants |-> y, ops |-> g.ops]
<1> DEFINE h == [g EXCEPT !.shapes = x]
<1>1. h = [shapes |-> x, inputs |-> g.inputs, constants |-> g.constants, ops |-> g.ops]
  BY Allocated
<1> HIDE DEF h
<1>2. [h EXCEPT !.constants = y] = [shapes |-> x, inputs |-> g.inputs, constants |-> y, ops |-> g.ops]
  BY <1>1
<1> QED BY <1>2 DEF h

LEMMA UpdatedOps ==
  ASSUME NEW g, Good(g), NEW x, NEW y
  PROVE  [[g EXCEPT !.shapes = x] EXCEPT !.ops = y] =
           [shapes |-> x, inputs |-> g.inputs, constants |-> g.constants, ops |-> y]
<1> DEFINE h == [g EXCEPT !.shapes = x]
<1>1. h = [shapes |-> x, inputs |-> g.inputs, constants |-> g.constants, ops |-> g.ops]
  BY Allocated
<1> HIDE DEF h
<1>2. [h EXCEPT !.ops = y] = [shapes |-> x, inputs |-> g.inputs, constants |-> g.constants, ops |-> y]
  BY <1>1
<1> QED BY <1>2 DEF h

LEMMA PlaceholderGood ==
  ASSUME NEW g, Good(g), NEW s \in Shape
  PROVE  Good(Placeholder(g, s)) /\ New(Placeholder(g, s)) = New(g) + 1
         /\ Placeholder(g, s).constants = g.constants
<1> DEFINE n == New(g) + 1
           h == Placeholder(g, s)
<1>1. n \in Nat /\ 1 .. n = (1 .. New(g)) \cup {n} /\ n \notin 1 .. New(g)
  BY Parts
<1>2. h = [shapes |-> Append(g.shapes, s), inputs |-> Append(g.inputs, n), constants |-> g.constants, ops |-> g.ops]
  <2>1. Alloc(g, s) = [g EXCEPT !.shapes = Append(g.shapes, s)]
    BY DEF Alloc
  <2>2. Alloc(g, s).inputs = g.inputs
    BY <2>1, Allocated
  <2>3. h = [Alloc(g, s) EXCEPT !.inputs = Append(g.inputs, n)]
    BY <2>2 DEF Placeholder
  <2> DEFINE x == Append(g.shapes, s)
             y == Append(g.inputs, n)
  <2> HIDE DEF h, n, x, y
  <2>4. [[g EXCEPT !.shapes = x] EXCEPT !.inputs = y] =
          [shapes |-> x, inputs |-> y, constants |-> g.constants, ops |-> g.ops]
    BY UpdatedInputs
  <2>5. h = [[g EXCEPT !.shapes = x] EXCEPT !.inputs = y]
    BY <2>1, <2>3 DEF x, y
  <2> QED BY <2>4, <2>5 DEF x, y
<1> HIDE DEF h
<1>3. h.shapes = Append(g.shapes, s) /\ h.inputs = Append(g.inputs, n) /\ h.constants = g.constants /\ h.ops = g.ops
  BY <1>2
<1>4. New(h) = n
  BY <1>3, Parts, Appended DEF New
<1> HIDE DEF n
<1>5. ToSet(h.inputs) = ToSet(g.inputs) \cup {n} /\ h.inputs \in Seq(Nat) /\ h.shapes \in Seq(Shape)
  <2>1. g.inputs \in Seq(Nat) /\ g.shapes \in Seq(Shape)
    BY Parts
  <2>2. ToSet(Append(g.inputs, n)) = ToSet(g.inputs) \cup {n} /\ Append(g.inputs, n) \in Seq(Nat)
    BY <1>1, <2>1, Appended, AppendedMembers
  <2>3. Append(g.shapes, s) \in Seq(Shape)
    BY <2>1, Appended
  <2> QED BY <1>3, <2>2, <2>3
<1>6. h \in GraphSet
  BY <1>2, <1>3, <1>5, Parts DEF GraphSet
<1>7. Tensors(g) = 1 .. New(g) /\ n \notin g.constants /\ n \notin TopsOf(g.ops)
  BY <1>1, Parts
<1>8. Good(h)
  BY <1>1, <1>3, <1>4, <1>5, <1>6, <1>7 DEF Good
<1> QED BY <1>3, <1>4, <1>8 DEF h, n

LEMMA ConstantGood ==
  ASSUME NEW g, Good(g), NEW s \in Shape
  PROVE  Good(Constant(g, s)) /\ New(Constant(g, s)) = New(g) + 1
         /\ Constant(g, s).constants = g.constants \cup {New(g) + 1}
<1> DEFINE n == New(g) + 1
           h == Constant(g, s)
<1>1. n \in Nat /\ 1 .. n = (1 .. New(g)) \cup {n} /\ n \notin 1 .. New(g)
  BY Parts
<1>2. h = [shapes |-> Append(g.shapes, s), inputs |-> g.inputs, constants |-> g.constants \cup {n}, ops |-> g.ops]
  <2>1. Alloc(g, s) = [g EXCEPT !.shapes = Append(g.shapes, s)]
    BY DEF Alloc
  <2>2. Alloc(g, s).constants = g.constants
    BY <2>1, Allocated
  <2>3. h = [Alloc(g, s) EXCEPT !.constants = g.constants \cup {n}]
    BY <2>2 DEF Constant
  <2> DEFINE x == Append(g.shapes, s)
             y == g.constants \cup {n}
  <2> HIDE DEF h, n, x, y
  <2>4. [[g EXCEPT !.shapes = x] EXCEPT !.constants = y] =
          [shapes |-> x, inputs |-> g.inputs, constants |-> y, ops |-> g.ops]
    BY UpdatedConstants
  <2>5. h = [[g EXCEPT !.shapes = x] EXCEPT !.constants = y]
    BY <2>1, <2>3 DEF x, y
  <2> QED BY <2>4, <2>5 DEF x, y
<1> HIDE DEF h
<1>3. h.shapes = Append(g.shapes, s) /\ h.inputs = g.inputs /\ h.constants = g.constants \cup {n} /\ h.ops = g.ops
  BY <1>2
<1>4. New(h) = n
  BY <1>3, Parts, Appended DEF New
<1> HIDE DEF n
<1>5. h.shapes \in Seq(Shape)
  BY <1>3, Parts, Appended
<1>6. h \in GraphSet
  BY <1>1, <1>2, <1>5, Parts DEF GraphSet
<1>7. Tensors(g) = 1 .. New(g) /\ n \notin ToSet(g.inputs) /\ n \notin TopsOf(g.ops)
  BY <1>1, Parts
<1>8. \A i \in DOMAIN h.ops : Fed(h.ops[i], h.constants)
  BY <1>3 DEF Good, Fed
<1>9. Good(h)
  BY <1>1, <1>3, <1>4, <1>6, <1>7, <1>8 DEF Good
<1> QED BY <1>3, <1>4, <1>9 DEF h, n

(* The weights that an operation of a kind may carry.                      *)
Carries(kind, blobs) ==
  CASE kind = "instance_norm"     -> Len(blobs) = 1
    [] kind \in {"conv", "deconv"} -> Len(blobs) \in 1 .. 2
    [] OTHER                      -> blobs = <<>>

LEMMA OneMore ==
  ASSUME NEW k \in Nat
  PROVE  /\ k + 1 \in Nat /\ 1 .. k + 1 = (1 .. k) \cup {k + 1} /\ k + 1 \notin 1 .. k /\ k + 1 - 1 = k
         /\ \A x \in 1 .. k : x < k + 1
<1>1. 1 .. k + 1 = (1 .. k) \cup {k + 1}
  OBVIOUS
<1>2. k + 1 \in Nat /\ k + 1 \notin 1 .. k /\ k + 1 - 1 = k
  OBVIOUS
<1>3. \A x \in 1 .. k : x < k + 1
  OBVIOUS
<1> QED BY <1>1, <1>2, <1>3

LEMMA PushGood ==
  ASSUME NEW g, Good(g), NEW kind \in Weighted \cup Plain,
         NEW bottoms \in Seq(Nat), \A i \in DOMAIN bottoms : bottoms[i] \in Tensors(g),
         NEW blobs \in Seq(Nat), \A i \in DOMAIN blobs : blobs[i] \in g.constants, Carries(kind, blobs),
         NEW s \in Shape
  PROVE  Good(Push(g, kind, bottoms, blobs, s)) /\ New(Push(g, kind, bottoms, blobs, s)) = New(g) + 1
         /\ Push(g, kind, bottoms, blobs, s).constants = g.constants
<1> DEFINE n == New(g) + 1
           h == Push(g, kind, bottoms, blobs, s)
           r == [kind |-> kind, top |-> n, bottoms |-> bottoms, blobs |-> blobs]
<1>1. n \in Nat /\ 1 .. n = (1 .. New(g)) \cup {n} /\ n \notin 1 .. New(g) /\ n - 1 = New(g)
      /\ \A x \in 1 .. New(g) : x < n
  <2>1. New(g) \in Nat
    BY Parts
  <2> HIDE DEF h, r
  <2> QED BY <2>1, OneMore
<1>2. h = [shapes |-> Append(g.shapes, s), inputs |-> g.inputs, constants |-> g.constants, ops |-> Append(g.ops, r)]
  <2>1. Alloc(g, s) = [g EXCEPT !.shapes = Append(g.shapes, s)]
    BY DEF Alloc
  <2>2. Alloc(g, s).ops = g.ops
    BY <2>1, Allocated
  <2>3. h = [Alloc(g, s) EXCEPT !.ops = Append(g.ops, r)]
    BY <2>2 DEF Push
  <2> DEFINE x == Append(g.shapes, s)
             y == Append(g.ops, r)
  <2> HIDE DEF h, n, r, x, y
  <2>4. [[g EXCEPT !.shapes = x] EXCEPT !.ops = y] =
          [shapes |-> x, inputs |-> g.inputs, constants |-> g.constants, ops |-> y]
    BY UpdatedOps
  <2>5. h = [[g EXCEPT !.shapes = x] EXCEPT !.ops = y]
    BY <2>1, <2>3 DEF x, y
  <2> QED BY <2>4, <2>5 DEF x, y
<1>3. r \in Operation /\ r.top = n
  BY <1>1 DEF Operation
<1>4. Fed(r, g.constants)
  <2>1. \A x \in Tensors(g) : x \in 1 .. r.top - 1
    BY <1>1, Parts
  <2>2. Len(blobs) = Advance(r)
    <3>1. CASE kind = "instance_norm"
      BY <3>1 DEF Carries, Advance
    <3>2. CASE kind \in {"conv", "deconv"}
      BY <3>2 DEF Carries, Advance
    <3>3. CASE kind \notin {"conv", "deconv", "instance_norm"}
      <4>1. blobs = <<>>
        BY <3>3 DEF Carries
      <4>2. Len(blobs) = 0
        BY <4>1
      <4>3. kind # "constant"
        BY DEF Weighted, Plain
      <4>4. r.kind = kind
        OBVIOUS
      <4> HIDE DEF h, n, r
      <4>5. Advance(r) = 0
        BY <3>3, <4>3, <4>4 DEF Advance
      <4> QED BY <4>2, <4>5
    <3> QED BY <3>1, <3>2, <3>3
  <2>3. kind \in {"conv", "deconv"} => Len(blobs) \in 1 .. 2
    BY DEF Carries
  <2>4. \A i \in DOMAIN blobs : blobs[i] \in Tensors(g)
    BY Parts
  <2> QED BY <2>1, <2>2, <2>3, <2>4 DEF Fed
<1> HIDE DEF h, r
<1>5. h.shapes = Append(g.shapes, s) /\ h.inputs = g.inputs /\ h.constants = g.constants /\ h.ops = Append(g.ops, r)
  BY <1>2
<1>6. New(h) = n
  BY <1>5, Parts, Appended DEF New
<1> HIDE DEF n
<1>7. h.shapes \in Seq(Shape) /\ h.ops \in Seq(Operation) /\ TopsOf(h.ops) = TopsOf(g.ops) \cup {n}
  BY <1>3, <1>5, Parts, Appended, AppendedMembers
<1>8. h \in GraphSet
  BY <1>2, <1>5, <1>7, Parts DEF GraphSet
<1>9. Tensors(g) = 1 .. New(g) /\ n \notin ToSet(g.inputs) /\ n \notin g.constants /\ n \notin TopsOf(g.ops)
  BY <1>1, Parts
<1>10. /\ Len(g.ops) \in Nat /\ DOMAIN g.ops = 1 .. Len(g.ops) /\ DOMAIN h.ops = 1 .. Len(g.ops) + 1
       /\ \A i \in 1 .. Len(g.ops) : h.ops[i] = g.ops[i]
       /\ h.ops[Len(g.ops) + 1] = r
  BY <1>3, <1>5, Parts, Appended
<1>11. \A i \in DOMAIN h.ops : Fed(h.ops[i], h.constants)
  <2> SUFFICES ASSUME NEW i \in DOMAIN h.ops PROVE Fed(h.ops[i], h.constants)
    OBVIOUS
  <2>1. i \in DOMAIN g.ops \/ i = Len(g.ops) + 1
    BY <1>10
  <2>2. i \in DOMAIN g.ops => Fed(g.ops[i], g.constants)
    BY DEF Good
  <2> QED BY <1>4, <1>5, <1>10, <2>1, <2>2
<1>12. \A i, j \in DOMAIN h.ops : i < j => h.ops[i].top < h.ops[j].top
  <2> SUFFICES ASSUME NEW i \in DOMAIN h.ops, NEW j \in DOMAIN h.ops, i < j PROVE h.ops[i].top < h.ops[j].top
    OBVIOUS
  <2>1. i \in DOMAIN g.ops /\ h.ops[i] = g.ops[i]
    BY <1>10
  <2>2. g.ops[i].top \in TopsOf(g.ops)
    BY <2>1 DEF TopsOf
  <2>3. g.ops[i].top < n
    BY <1>1, <1>9, <2>2, Parts
  <2>4. CASE j \in DOMAIN g.ops
    BY <1>10, <2>1, <2>4 DEF Good
  <2>5. CASE j = Len(g.ops) + 1
    BY <1>3, <1>10, <2>1, <2>3, <2>5
  <2> QED BY <1>10, <2>4, <2>5
<1>13. Good(h)
  BY <1>1, <1>5, <1>6, <1>7, <1>8, <1>9, <1>11, <1>12 DEF Good
<1> QED BY <1>5, <1>6, <1>13 DEF h, n

(* A graph with k tensors more.                                            *)
Grown(h, g, k) == Good(h) /\ New(h) = New(g) + k

LEMMA PlainMeans ==
  ASSUME NEW kind \in Plain
  PROVE  Carries(kind, <<>>)
BY DEF Plain, Carries

LEMMA PlainGrown ==
  ASSUME NEW g, Good(g), NEW kind \in Plain,
         NEW bottoms \in Seq(Nat), \A i \in DOMAIN bottoms : bottoms[i] \in Tensors(g), NEW s \in Shape
  PROVE  Grown(Push(g, kind, bottoms, <<>>, s), g, 1)
<1>1. <<>> \in Seq(Nat) /\ DOMAIN <<>> = {} /\ Carries(kind, <<>>)
  BY EmptySeq, PlainMeans
<1>2. \A i \in DOMAIN <<>> : <<>>[i] \in g.constants
  BY <1>1
<1> QED BY <1>1, <1>2, PushGood DEF Grown

LEMMA Singles ==
  ASSUME NEW S, NEW x \in S, NEW y \in S, NEW z \in S
  PROVE  /\ <<x>> \in Seq(S) /\ DOMAIN <<x>> = {1}
         /\ <<x, y>> \in Seq(S) /\ DOMAIN <<x, y>> = {1, 2}
         /\ <<x, y, z>> \in Seq(S) /\ DOMAIN <<x, y, z>> = {1, 2, 3}
OBVIOUS

LEMMA PlainOne ==
  ASSUME NEW g, Good(g), NEW x \in Tensors(g), NEW kind \in Plain, NEW s \in Shape
  PROVE  Grown(Push(g, kind, <<x>>, <<>>, s), g, 1)
<1>1. x \in Nat
  BY Parts
<1>2. <<x>> \in Seq(Nat) /\ \A i \in DOMAIN <<x>> : <<x>>[i] \in Tensors(g)
  BY <1>1, Singles
<1> QED BY <1>2, PlainGrown

LEMMA PlainTwo ==
  ASSUME NEW g, Good(g), NEW x \in Tensors(g), NEW y \in Tensors(g), NEW kind \in Plain, NEW s \in Shape
  PROVE  Grown(Push(g, kind, <<x, y>>, <<>>, s), g, 1)
<1>1. x \in Nat /\ y \in Nat
  BY Parts
<1>2. <<x, y>> \in Seq(Nat) /\ \A i \in DOMAIN <<x, y>> : <<x, y>>[i] \in Tensors(g)
  BY <1>1, Singles
<1> QED BY <1>2, PlainGrown

LEMMA OneGrown ==
  ASSUME NEW g, Good(g), NEW x \in Tensors(g)
  PROVE  /\ Grown(Activation(g, x, "activation"), g, 1)
         /\ Grown(Activation(g, x, "hard_sigmoid"), g, 1)
         /\ Grown(Unary(g, x), g, 1)
         /\ Grown(SoftMax(g, x), g, 1)
         /\ Grown(Flatten(g, x), g, 1)
         /\ Grown(GlobalPool(g, x), g, 1)
         /\ \A s \in Shape : Grown(Slice(g, x, s), g, 1) /\ Grown(Reshape(g, x, s), g, 1)
         /\ \A pad : Grown(Pool(g, x, 2, 2, pad), g, 1)
         /\ \A by \in Positive : Grown(Pad(g, x, by), g, 1)
         /\ \A axis \in 1 .. 4 : Grown(Reduce(g, x, axis), g, 1)
         /\ \A perm \in [1 .. 4 -> 1 .. 4] : Grown(Transpose(g, x, perm), g, 1)
<1>1. ShapeOf(g, x) \in Shape
  BY Parts
<1> DEFINE s == ShapeOf(g, x)
<1>2. s \in Shape
  BY <1>1
<1> HIDE DEF s
<1>3. Flat(s) \in Shape /\ <<1, s[2], 1, 1>> \in Shape
  BY <1>2, ElementsPositive, FourMeans, Four, OneOf DEF Flat
<1>4. \A kind \in Plain : \A t \in Shape : Grown(Push(g, kind, <<x>>, <<>>, t), g, 1)
  BY PlainOne
<1>5. /\ "activation" \in Plain /\ "hard_sigmoid" \in Plain /\ "elementwise" \in Plain /\ "softmax" \in Plain
      /\ "flatten" \in Plain /\ "pool" \in Plain /\ "slice" \in Plain /\ "reshape" \in Plain
      /\ "pad" \in Plain /\ "reduce" \in Plain /\ "transpose" \in Plain
  BY DEF Plain
<1>6. /\ Grown(Activation(g, x, "activation"), g, 1) /\ Grown(Activation(g, x, "hard_sigmoid"), g, 1)
      /\ Grown(Unary(g, x), g, 1) /\ Grown(SoftMax(g, x), g, 1)
      /\ Grown(Flatten(g, x), g, 1) /\ Grown(GlobalPool(g, x), g, 1)
      /\ \A t \in Shape : Grown(Slice(g, x, t), g, 1) /\ Grown(Reshape(g, x, t), g, 1)
  BY <1>2, <1>3, <1>4, <1>5 DEF Activation, Unary, SoftMax, Flatten, GlobalPool, Slice, Reshape, s
<1>7. ASSUME NEW pad, NEW by \in Positive, NEW axis \in 1 .. 4, NEW perm \in [1 .. 4 -> 1 .. 4]
      PROVE  /\ Grown(Pool(g, x, 2, 2, pad), g, 1) /\ Grown(Pad(g, x, by), g, 1)
             /\ Grown(Reduce(g, x, axis), g, 1) /\ Grown(Transpose(g, x, perm), g, 1)
  <2>1. /\ Pooled(s, 2, 2, pad) \in Shape /\ Padded(s, by) \in Shape
        /\ Reduced(s, axis) \in Shape /\ Permuted(s, perm) \in Shape
    BY <1>2, OneShapes, OneOf
  <2> QED BY <1>4, <1>5, <2>1 DEF Pool, Pad, Reduce, Transpose, s
<1>8. 1 \in Positive /\ 1 \in 1 .. 4 /\ [d \in 1 .. 4 |-> d] \in [1 .. 4 -> 1 .. 4]
  BY OneOf
<1>9. \A pad : Grown(Pool(g, x, 2, 2, pad), g, 1)
  BY <1>7, <1>8
<1>10. \A by \in Positive : Grown(Pad(g, x, by), g, 1)
  BY <1>7, <1>8
<1>11. \A axis \in 1 .. 4 : Grown(Reduce(g, x, axis), g, 1)
  BY <1>7, <1>8
<1>12. \A perm \in [1 .. 4 -> 1 .. 4] : Grown(Transpose(g, x, perm), g, 1)
  BY <1>7, <1>8
<1> QED BY <1>6, <1>9, <1>10, <1>11, <1>12

LEMMA TwoGrown ==
  ASSUME NEW g, Good(g), NEW x \in Tensors(g), NEW y \in Tensors(g), NEW tx \in BOOLEAN, NEW ty \in BOOLEAN
  PROVE  Grown(Binary(g, x, y), g, 1) /\ Grown(MatMul(g, x, y, tx, ty), g, 1)
<1>1. ShapeOf(g, x) \in Shape /\ ShapeOf(g, y) \in Shape
  BY Parts
<1>2. Broadcast(ShapeOf(g, x), ShapeOf(g, y)) \in Shape /\ Product(ShapeOf(g, x), ShapeOf(g, y), tx, ty) \in Shape
  BY <1>1, PairShapes
<1>3. "elementwise" \in Plain /\ "matmul" \in Plain
  BY DEF Plain
<1> QED BY <1>2, <1>3, PlainTwo DEF Binary, MatMul

LEMMA ConcatGrown ==
  ASSUME NEW g, Good(g), NEW list \in Seq(Nat), list # <<>>, \A i \in DOMAIN list : list[i] \in Tensors(g)
  PROVE  Grown(Concat(g, list, 2), g, 1)
<1> DEFINE shapes == [i \in DOMAIN list |-> ShapeOf(g, list[i])]
<1>1. Len(list) \in Nat \ {0} /\ DOMAIN list = 1 .. Len(list)
  BY EmptySeq, LenProperties
<1>2. \A i \in 1 .. Len(list) : ShapeOf(g, list[i]) \in Shape
  BY <1>1, Parts
<1>3. shapes \in [1 .. Len(list) -> Shape] /\ DOMAIN shapes = 1 .. Len(list) /\ 1 \in DOMAIN shapes
  BY <1>1, <1>2
<1> HIDE DEF shapes
<1>4. shapes \in Seq(Shape)
  BY <1>1, <1>3, SeqDef
<1>5. shapes # <<>>
  BY <1>3
<1>6. Concatenated(shapes, 2) \in Shape
  BY <1>4, <1>5, ConcatShape
<1>7. "concat" \in Plain
  BY DEF Plain
<1> QED BY <1>6, <1>7, PlainGrown DEF Concat, shapes

LEMMA ConvGrown ==
  ASSUME NEW g, Good(g), NEW x \in Tensors(g), NEW w \in g.constants,
         NEW bias \in {<<>>} \cup {<<b>> : b \in g.constants}, NEW pad
  PROVE  Grown(Convolution(g, x, w, bias, pad), g, 1) /\ Grown(Deconvolution(g, x, w, bias, 2), g, 1)
<1>1. /\ ShapeOf(g, x) \in Shape /\ ShapeOf(g, w) \in Shape /\ x \in Nat /\ w \in Nat /\ g.constants \subseteq Nat
  BY Parts
<1>2. <<x>> \in Seq(Nat) /\ \A i \in DOMAIN <<x>> : <<x>>[i] \in Tensors(g)
  BY <1>1, Singles
<1> DEFINE blobs == <<w>> \o bias
<1>3. blobs = <<w>> \/ \E b \in g.constants : blobs = <<w, b>>
  <2>1. CASE bias = <<>>
    <3>1. <<w>> \in Seq(Nat)
      BY <1>1, Singles
    <3>2. <<w>> \o <<>> = <<w>>
      BY <3>1, ConcatEmptySeq
    <3> QED BY <2>1, <3>2
  <2>2. ASSUME NEW b \in g.constants, bias = <<b>> PROVE blobs = <<w, b>>
    <3>1. <<w>> \in Seq(Nat) /\ <<b>> \in Seq(Nat) /\ <<w, b>> \in Seq(Nat)
          /\ Len(<<w>>) = 1 /\ Len(<<b>>) = 1 /\ Len(<<w, b>>) = 2
      BY <1>1, Singles
    <3>2. <<w>> \o <<b>> \in Seq(Nat) /\ Len(<<w>> \o <<b>>) = 2
          /\ \A i \in 1 .. 2 : (<<w>> \o <<b>>)[i] = <<w, b>>[i]
      BY <3>1, ConcatProperties
    <3>3. <<w>> \o <<b>> = <<w, b>>
      BY <3>1, <3>2, SeqEqual
    <3> QED BY <2>2, <3>3
  <2> QED BY <2>1, <2>2
<1> HIDE DEF blobs
<1>4. blobs \in Seq(Nat) /\ (\A i \in DOMAIN blobs : blobs[i] \in g.constants) /\ Len(blobs) \in 1 .. 2
  <2>1. CASE blobs = <<w>>
    BY <1>1, <2>1, Singles
  <2>2. ASSUME NEW b \in g.constants, blobs = <<w, b>>
        PROVE  blobs \in Seq(Nat) /\ (\A i \in DOMAIN blobs : blobs[i] \in g.constants) /\ Len(blobs) \in 1 .. 2
    BY <1>1, <2>2, Singles
  <2> QED BY <1>3, <2>1, <2>2
<1>5. Carries("conv", blobs) /\ Carries("deconv", blobs)
  BY <1>4 DEF Carries
<1>6. ConvShape(ShapeOf(g, x), ShapeOf(g, w), pad) \in Shape /\ DeconvShape(ShapeOf(g, x), ShapeOf(g, w), 2) \in Shape
  BY <1>1, ConvShapes, OneOf
<1>7. \A s \in Shape : Grown(Push(g, "conv", <<x>>, blobs, s), g, 1) /\ Grown(Push(g, "deconv", <<x>>, blobs, s), g, 1)
  <2>1. "conv" \in Weighted \cup Plain /\ "deconv" \in Weighted \cup Plain
    BY DEF Weighted
  <2> DEFINE xs == <<x>>
  <2>2. xs \in Seq(Nat) /\ \A i \in DOMAIN xs : xs[i] \in Tensors(g)
    BY <1>2
  <2> HIDE DEF xs
  <2>3. \A s \in Shape : Grown(Push(g, "conv", xs, blobs, s), g, 1)
    BY <1>4, <1>5, <2>1, <2>2, PushGood DEF Grown
  <2>4. \A s \in Shape : Grown(Push(g, "deconv", xs, blobs, s), g, 1)
    BY <1>4, <1>5, <2>1, <2>2, PushGood DEF Grown
  <2> QED BY <2>3, <2>4 DEF xs
<1> QED BY <1>6, <1>7 DEF Convolution, Deconvolution, blobs

LEMMA NormGrown ==
  ASSUME NEW g, Good(g), NEW x \in Tensors(g), NEW w \in g.constants
  PROVE  Grown(InstanceNorm(g, x, w), g, 1)
<1>1. /\ ShapeOf(g, x) \in Shape /\ x \in Nat /\ w \in Nat
  BY Parts
<1> DEFINE xs == <<x>>
           ws == <<w>>
<1>2. xs \in Seq(Nat) /\ \A i \in DOMAIN xs : xs[i] \in Tensors(g)
  BY <1>1, Singles
<1>3. ws \in Seq(Nat) /\ \A i \in DOMAIN ws : ws[i] \in g.constants
  BY <1>1, Singles
<1>4. Carries("instance_norm", ws) /\ "instance_norm" \in Weighted \cup Plain
  <2>1. Len(ws) = 1
    OBVIOUS
  <2> HIDE DEF ws
  <2> QED BY <2>1 DEF Carries, Weighted
<1> HIDE DEF xs, ws
<1>5. Grown(Push(g, "instance_norm", xs, ws, ShapeOf(g, x)), g, 1)
  BY <1>1, <1>2, <1>3, <1>4, PushGood DEF Grown
<1> QED BY <1>5 DEF InstanceNorm, xs, ws

-----------------------------------------------------------------------------
(* The calls a user may make, and the kernels of the two programs.         *)

LEMMA EmptyGood == Good(Empty) /\ New(Empty) = 0
<1>1. /\ Empty.shapes = <<>> /\ Empty.inputs = <<>> /\ Empty.constants = {} /\ Empty.ops = <<>>
      /\ Empty = [shapes |-> Empty.shapes, inputs |-> Empty.inputs, constants |-> Empty.constants, ops |-> Empty.ops]
  BY DEF Empty
<1> DEFINE g == Empty
<1> HIDE DEF g
<1>2. DOMAIN g.ops = {} /\ DOMAIN g.inputs = {} /\ Len(g.shapes) = 0
  BY <1>1 DEF g
<1>3. ToSet(g.inputs) = {} /\ TopsOf(g.ops) = {} /\ New(g) = 0
  BY <1>2 DEF ToSet, TopsOf, New
<1>4. g \in GraphSet
  BY <1>1, EmptySeq DEF GraphSet, g
<1>5. Good(g)
  BY <1>1, <1>2, <1>3, <1>4 DEF Good, g
<1> QED BY <1>3, <1>5 DEF g

LEMMA GivenAreShapes == GivenShapes \subseteq Shape
BY MilAssumption DEF Shape, Positive

LEMMA ScalarShape == Scalar \in Shape
BY Four, OneOf DEF Scalar

LEMMA DeclareGood ==
  ASSUME NEW g, Good(g), NEW h \in Declare(g)
  PROVE  Good(h)
BY GivenAreShapes, PlaceholderGood, ConstantGood DEF Declare

LEMMA WithWeightsGood ==
  ASSUME NEW g, Good(g), NEW h \in WithWeights(g)
  PROVE  Good(h)
<1> DEFINE biases == {<<>>} \cup {<<b>> : b \in g.constants}
<1>1. h \in (UNION {{Convolution(g, x, w, bias, "valid"), Convolution(g, x, w, bias, "same"), Deconvolution(g, x, w, bias, 2)}
                     : x \in Tensors(g), w \in g.constants, bias \in biases})
            \cup {InstanceNorm(g, x, w) : x \in Tensors(g), w \in g.constants}
  BY DEF WithWeights
<1>2. ASSUME NEW x \in Tensors(g), NEW w \in g.constants, NEW bias \in biases
      PROVE  /\ Good(Convolution(g, x, w, bias, "valid")) /\ Good(Convolution(g, x, w, bias, "same"))
             /\ Good(Deconvolution(g, x, w, bias, 2)) /\ Good(InstanceNorm(g, x, w))
  BY ConvGrown, NormGrown DEF Grown
<1>3. CASE \E x \in Tensors(g), w \in g.constants : h = InstanceNorm(g, x, w)
  <2>1. <<>> \in biases
    OBVIOUS
  <2> QED BY <1>2, <1>3, <2>1
<1>4. CASE \E x \in Tensors(g), w \in g.constants, bias \in biases :
             h \in {Convolution(g, x, w, bias, "valid"), Convolution(g, x, w, bias, "same"), Deconvolution(g, x, w, bias, 2)}
  BY <1>2, <1>4
<1> QED BY <1>1, <1>3, <1>4

LEMMA OfOneGood ==
  ASSUME NEW g, Good(g), NEW h \in OfOne(g)
  PROVE  Good(h)
<1>1. PICK x \in Tensors(g) :
        h \in {Activation(g, x, "activation"), Activation(g, x, "hard_sigmoid"), Unary(g, x), SoftMax(g, x), Flatten(g, x),
               Pool(g, x, 2, 2, "valid"), Pool(g, x, 2, 2, "same"), GlobalPool(g, x), Pad(g, x, 1), Reduce(g, x, 2),
               Transpose(g, x, <<1, 3, 4, 2>>), Slice(g, x, Scalar)}
              \cup {Reshape(g, x, s) : s \in GivenShapes}
  BY DEF OfOne
<1>2. <<1, 3, 4, 2>> \in [1 .. 4 -> 1 .. 4] /\ 2 \in 1 .. 4
  OBVIOUS
<1>3. /\ Grown(Activation(g, x, "activation"), g, 1)
      /\ Grown(Activation(g, x, "hard_sigmoid"), g, 1)
      /\ Grown(Unary(g, x), g, 1)
      /\ Grown(SoftMax(g, x), g, 1)
      /\ Grown(Flatten(g, x), g, 1)
      /\ Grown(GlobalPool(g, x), g, 1)
      /\ Grown(Pool(g, x, 2, 2, "valid"), g, 1) /\ Grown(Pool(g, x, 2, 2, "same"), g, 1)
      /\ Grown(Pad(g, x, 1), g, 1)
      /\ Grown(Reduce(g, x, 2), g, 1)
      /\ Grown(Transpose(g, x, <<1, 3, 4, 2>>), g, 1)
      /\ Grown(Slice(g, x, Scalar), g, 1)
      /\ \A s \in GivenShapes : Grown(Reshape(g, x, s), g, 1)
  BY <1>2, OneGrown, OneOf, ScalarShape, GivenAreShapes
<1> QED BY <1>1, <1>3 DEF Grown

LEMMA OfTwoGood ==
  ASSUME NEW g, Good(g), NEW h \in OfTwo(g)
  PROVE  Good(h)
<1> DEFINE calls(x, y) == {Binary(g, x, y), Concat(g, <<x, y>>, 2), Against(g, x, y)}
<1>1. PICK x \in Tensors(g), y \in Tensors(g) : h \in calls(x, y)
  <2>1. h \in UNION {calls(x, y) : x \in Tensors(g), y \in Tensors(g)}
    BY DEF OfTwo
  <2> HIDE DEF calls
  <2> QED BY <2>1
<1>2. x \in Nat /\ y \in Nat
  BY Parts
<1>3. Grown(Concat(g, <<x, y>>, 2), g, 1)
  <2> DEFINE list == <<x, y>>
  <2>1. list \in Seq(Nat) /\ list # <<>> /\ \A i \in DOMAIN list : list[i] \in Tensors(g)
    BY <1>2, Singles
  <2> HIDE DEF list
  <2>2. Grown(Concat(g, list, 2), g, 1)
    BY <2>1, ConcatGrown
  <2> QED BY <2>2 DEF list
<1>4. Grown(Binary(g, x, y), g, 1) /\ Grown(Against(g, x, y), g, 1)
  BY TwoGrown DEF Against
<1> QED BY <1>1, <1>3, <1>4 DEF Grown

(* A graph of n tensors.                                                   *)
Holds(g, n) == Good(g) /\ New(g) = n

LEMMA Basic ==
  ASSUME NEW n \in Nat, NEW g, Holds(g, n), NEW x \in 1 .. n, NEW s \in Shape
  PROVE  /\ Holds(Activation(g, x, "activation"), n + 1)
         /\ Holds(SoftMax(g, x), n + 1)
         /\ Holds(Reduce(g, x, 2), n + 1)
         /\ Holds(Slice(g, x, s), n + 1)
         /\ Holds(Reshape(g, x, s), n + 1)
<1>1. x \in Tensors(g) /\ 2 \in 1 .. 4
  BY Parts DEF Holds
<1> QED BY <1>1, OneGrown DEF Holds, Grown

LEMMA Permutes ==
  ASSUME NEW n \in Nat, NEW g, Holds(g, n), NEW x \in 1 .. n
  PROVE  /\ Holds(Transpose(g, x, <<1, 3, 4, 2>>), n + 1)
         /\ Holds(Transpose(g, x, <<1, 4, 2, 3>>), n + 1)
         /\ Holds(Transpose(g, x, SwapHW), n + 1)
<1>1. x \in Tensors(g) /\ Good(g) /\ New(g) = n
  BY Parts DEF Holds
<1>2. \A perm \in [1 .. 4 -> 1 .. 4] : Grown(Transpose(g, x, perm), g, 1)
  BY <1>1, OneGrown
<1>3. <<1, 3, 4, 2>> \in [1 .. 4 -> 1 .. 4] /\ <<1, 4, 2, 3>> \in [1 .. 4 -> 1 .. 4] /\ <<1, 2, 4, 3>> \in [1 .. 4 -> 1 .. 4]
  OBVIOUS
<1> QED BY <1>1, <1>2, <1>3 DEF Holds, Grown, SwapHW

LEMMA Pairs ==
  ASSUME NEW n \in Nat, NEW g, Holds(g, n), NEW x \in 1 .. n, NEW y \in 1 .. n
  PROVE  Holds(Binary(g, x, y), n + 1) /\ Holds(Multiplied(g, x, y), n + 1) /\ Holds(Against(g, x, y), n + 1)
<1>1. x \in Tensors(g) /\ y \in Tensors(g)
  BY Parts DEF Holds
<1> QED BY <1>1, TwoGrown DEF Holds, Grown, Against, Multiplied

LEMMA Products ==
  ASSUME NEW n \in Nat, NEW g, Holds(g, n), NEW x \in 1 .. n, NEW y \in 1 .. n, NEW m, m = n + 1
  PROVE  Holds(Against(g, x, y), m)
BY Pairs

LEMMA PlainProducts ==
  ASSUME NEW n \in Nat, NEW g, Holds(g, n), NEW x \in 1 .. n, NEW y \in 1 .. n, NEW m, m = n + 1
  PROVE  Holds(Multiplied(g, x, y), m)
BY Pairs

LEMMA Triples ==
  ASSUME NEW n \in Nat, NEW g, Holds(g, n), NEW x \in 1 .. n, NEW y \in 1 .. n, NEW z \in 1 .. n
  PROVE  Holds(Concat(g, <<x, y, z>>, 2), n + 1)
<1> DEFINE list == <<x, y, z>>
<1>1. list \in Seq(Nat) /\ list # <<>> /\ \A i \in DOMAIN list : list[i] \in 1 .. n
  BY Singles
<1>2. Tensors(g) = 1 .. n /\ Good(g) /\ New(g) = n
  BY Parts DEF Holds
<1> HIDE DEF list
<1>3. Grown(Concat(g, list, 2), g, 1)
  BY <1>1, <1>2, ConcatGrown
<1> QED BY <1>2, <1>3 DEF Holds, Grown, list

(* The kernels start from placeholders.                                    *)
LEMMA InputsGood ==
  ASSUME NEW list \in Seq(Shape)
  PROVE  Holds(Inputs(list), Len(list))
<1> DEFINE ids == [i \in DOMAIN list |-> i]
           g == Inputs(list)
<1>1. Len(list) \in Nat /\ DOMAIN list = 1 .. Len(list)
  BY LenProperties
<1>2. ids \in [1 .. Len(list) -> Nat] /\ ids \in Seq(Nat) /\ ToSet(ids) = 1 .. Len(list)
  <2>1. ids \in [1 .. Len(list) -> Nat]
    BY <1>1
  <2>2. ids \in Seq(Nat)
    BY <1>1, <2>1, SeqDef
  <2> QED BY <1>1, <2>1, <2>2 DEF ToSet
<1> HIDE DEF ids
<1>3. g = [shapes |-> list, inputs |-> ids, constants |-> {}, ops |-> <<>>]
  <2>1. [[Empty EXCEPT !.shapes = list] EXCEPT !.inputs = ids] =
           [shapes |-> list, inputs |-> ids, constants |-> Empty.constants, ops |-> Empty.ops]
    BY EmptyGood, UpdatedInputs
  <2>2. Empty.constants = {} /\ Empty.ops = <<>>
    BY DEF Empty
  <2>3. g = [[Empty EXCEPT !.shapes = list] EXCEPT !.inputs = ids]
    BY DEF Inputs, ids
  <2> QED BY <2>1, <2>2, <2>3
<1> HIDE DEF g
<1>4. g.shapes = list /\ g.inputs = ids /\ g.constants = {} /\ g.ops = <<>>
  BY <1>3
<1>5. New(g) = Len(list) /\ DOMAIN g.ops = {} /\ TopsOf(g.ops) = {}
  BY <1>4 DEF New, TopsOf
<1>6. g \in GraphSet
  BY <1>2, <1>3, EmptySeq DEF GraphSet
<1>7. Good(g)
  BY <1>2, <1>4, <1>5, <1>6 DEF Good
<1> QED BY <1>5, <1>7 DEF Holds, g

LEMMA Dimensions ==
  /\ Hidden \in Positive /\ Heads \in Positive /\ HeadDim \in Positive /\ KvHeads \in Positive /\ Intermediate \in Positive
  /\ PromptWidth \in Positive /\ DecodeWidth \in Positive /\ MaxSeq \in Positive
  /\ QkFlat \in Positive /\ 3 * QkFlat \in Positive /\ 4 * QkFlat \in Positive /\ QDim \in Positive /\ KvDim \in Positive
<1>1. /\ Hidden \in Positive /\ Heads \in Positive /\ HeadDim \in Positive /\ KvHeads \in Positive /\ Intermediate \in Positive
      /\ PromptWidth \in Positive /\ DecodeWidth \in Positive /\ MaxSeq \in Positive
  BY KernelAssumption DEF Positive
<1>2. QkFlat \in Positive /\ KvDim \in Positive
  BY <1>1, Times DEF QkFlat, KvDim
<1> QED BY <1>1, <1>2, Times, OneOf DEF QDim

LEMMA Wide ==
  ASSUME NEW a \in Positive, NEW b \in Positive, NEW c \in Positive
  PROVE  Spatial(a, b, c) \in Shape /\ PerChannel(a) \in Shape /\ Spatial(a, 1, b) \in Shape
BY Four, OneOf DEF Spatial, PerChannel

LEMMA Declared ==
  ASSUME NEW n \in Nat, NEW g, Holds(g, n), NEW s \in Shape
  PROVE  Holds(Constant(g, s), n + 1) /\ n + 1 \in Constant(g, s).constants
BY ConstantGood DEF Holds

LEMMA Newest ==
  ASSUME NEW n \in Nat, NEW g, Holds(g, n), n # 0, NEW x \in 1 .. n, NEW s \in Shape
  PROVE  /\ Holds(With(g, x), n + 1) /\ Holds(Into(g, x), n + 1)
         /\ Holds(Reshaped(g, s), n + 1) /\ Holds(Turned(g), n + 1) /\ Holds(Activated(g), n + 1)
         /\ Holds(WithConstant(g, x, s), n + 2) /\ Holds(Scaled(g, s), n + 2)
<1>1. New(g) = n /\ n \in 1 .. n
  BY DEF Holds
<1>2. /\ Holds(With(g, x), n + 1) /\ Holds(Into(g, x), n + 1)
      /\ Holds(Reshaped(g, s), n + 1) /\ Holds(Turned(g), n + 1) /\ Holds(Activated(g), n + 1)
  BY <1>1, Pairs, Basic, Permutes DEF With, Into, Reshaped, Turned, Activated
<1> DEFINE c == Constant(g, s)
<1>3. Holds(c, n + 1)
  BY Declared
<1> HIDE DEF c
<1>4. \A y \in 1 .. n : Holds(With(c, y), n + 2)
  <2> SUFFICES ASSUME NEW y \in 1 .. n PROVE Holds(With(c, y), n + 2)
    OBVIOUS
  <2>1. New(c) = n + 1 /\ n + 1 \in Nat /\ y \in 1 .. n + 1 /\ n + 1 \in 1 .. n + 1 /\ (n + 1) + 1 = n + 2
    BY <1>3 DEF Holds
  <2>2. Holds(Binary(c, y, n + 1), (n + 1) + 1)
    BY <1>3, <2>1, Pairs
  <2> QED BY <2>1, <2>2 DEF With
<1> QED BY <1>1, <1>2, <1>4 DEF WithConstant, Scaled, c

LEMMA Convolved ==
  ASSUME NEW n \in Nat, NEW g, Holds(g, n), NEW x \in 1 .. n, NEW k \in Positive
  PROVE  Holds(Conv1x1(g, x, k), n + 2) /\ Holds(ConvBias(g, x, k), n + 4)
<1> DEFINE s == Spatial(k, 1, 1)
<1>1. s \in Shape /\ PerChannel(k) \in Shape
  BY Wide, OneOf
<1> HIDE DEF s
<1> DEFINE c == Constant(g, s)
<1>2. Holds(c, n + 1) /\ n + 1 \in c.constants
  BY <1>1, Declared
<1> HIDE DEF c
<1>3. Good(c) /\ New(c) = n + 1 /\ Tensors(c) = 1 .. n + 1 /\ x \in 1 .. n + 1
  BY <1>2, Parts DEF Holds
<1>4. Grown(Convolution(c, x, n + 1, <<>>, "valid"), c, 1)
  <2>1. <<>> \in {<<>>} \cup {<<b>> : b \in c.constants}
    OBVIOUS
  <2> QED BY <1>2, <1>3, <2>1, ConvGrown
<1>5. Holds(Conv1x1(g, x, k), n + 2)
  <2>1. (n + 1) + 1 = n + 2
    OBVIOUS
  <2> QED BY <1>3, <1>4, <2>1 DEF Conv1x1, Holds, Grown, c, s
<1> DEFINE h == Conv1x1(g, x, k)
<1> HIDE DEF h
<1>6. n + 2 \in Nat /\ n + 2 # 0 /\ (n + 2) + 2 = n + 4 /\ 1 \in 1 .. n + 2
  OBVIOUS
<1>7. Holds(Scaled(h, PerChannel(k)), (n + 2) + 2)
  BY <1>1, <1>5, <1>6, Newest DEF h
<1> QED BY <1>5, <1>6, <1>7 DEF ConvBias, h

LEMMA DenseHolds ==
  ASSUME NEW n \in Nat, NEW g, Holds(g, n), n # 0, NEW k \in Positive
  PROVE  Holds(Dense(g, k), n + 2) /\ Holds(Projected(g, k), n + 4)
<1>1. New(g) = n /\ n \in 1 .. n
  BY DEF Holds
<1> QED BY <1>1, Convolved DEF Dense, Projected

(* Constants one after the other.                                          *)
LEMMA ScaledTwice ==
  ASSUME NEW n \in Nat, NEW g, Holds(g, n), n # 0, NEW s \in Shape, NEW t \in Shape
  PROVE  Holds(Scaled(Scaled(g, s), t), n + 4)
<1> DEFINE h == Scaled(g, s)
<1>1. Holds(h, n + 2)
  <2>1. 1 \in 1 .. n
    OBVIOUS
  <2> QED BY <2>1, Newest
<1> HIDE DEF h
<1>2. Holds(Scaled(h, t), (n + 2) + 2)
  <2>1. n + 2 \in Nat /\ n + 2 # 0 /\ 1 \in 1 .. n + 2
    OBVIOUS
  <2> QED BY <1>1, <2>1, Newest
<1> QED BY <1>2 DEF h

LEMMA InverseRootHolds ==
  ASSUME NEW n \in Nat, NEW g, Holds(g, n), n # 0
  PROVE  Holds(InverseRoot(g), n + 7)
<1> DEFINE a == Reduce(g, New(g), 2)
           b == Scaled(Scaled(a, Scalar), Scalar)
<1>1. New(g) = n /\ n \in 1 .. n
  BY DEF Holds
<1>2. Holds(a, n + 1)
  BY <1>1, Basic, ScalarShape
<1> HIDE DEF a
<1>3. Holds(b, (n + 1) + 4)
  <2>1. n + 1 \in Nat /\ n + 1 # 0
    OBVIOUS
  <2> QED BY <1>2, <2>1, ScaledTwice, ScalarShape
<1> HIDE DEF b
<1>4. Holds(Scaled(b, Scalar), (n + 5) + 2)
  <2>1. n + 5 \in Nat /\ n + 5 # 0 /\ 1 \in 1 .. n + 5 /\ (n + 1) + 4 = n + 5
    OBVIOUS
  <2> QED BY <1>3, <2>1, Newest, ScalarShape
<1> QED BY <1>4 DEF InverseRoot, a, b

LEMMA RmsNormHolds ==
  ASSUME NEW n \in Nat, NEW g, Holds(g, n), NEW x \in 1 .. n, NEW k \in Positive
  PROVE  Holds(RmsNorm(g, x, k), n + 11)
<1> DEFINE a == Binary(g, x, x)
           b == InverseRoot(a)
           c == With(b, x)
<1>1. Holds(a, n + 1)
  BY Pairs
<1> HIDE DEF a
<1>2. Holds(b, (n + 1) + 7)
  <2>1. n + 1 \in Nat /\ n + 1 # 0
    OBVIOUS
  <2> QED BY <1>1, <2>1, InverseRootHolds
<1> HIDE DEF b
<1>3. Holds(c, (n + 8) + 1)
  <2>1. n + 8 \in Nat /\ n + 8 # 0 /\ x \in 1 .. n + 8 /\ (n + 1) + 7 = n + 8
    OBVIOUS
  <2> QED BY <1>2, <2>1, Newest, ScalarShape
<1> HIDE DEF c
<1>4. Holds(Scaled(c, PerChannel(k)), (n + 9) + 2)
  <2>1. n + 9 \in Nat /\ n + 9 # 0 /\ 1 \in 1 .. n + 9 /\ (n + 8) + 1 = n + 9
    OBVIOUS
  <2>2. PerChannel(k) \in Shape
    BY Wide
  <2> QED BY <1>3, <2>1, <2>2, Newest
<1> QED BY <1>4 DEF RmsNorm, a, b, c

LEMMA LayerNormHolds ==
  ASSUME NEW n \in Nat, NEW g, Holds(g, n), NEW x \in 1 .. n, NEW k \in Positive
  PROVE  Holds(LayerNorm(g, x, k), n + 19)
<1> DEFINE a == Reduce(g, x, 2)
           b == Scaled(Scaled(a, Scalar), Scalar)
           c == With(b, x)
           d == Into(c, New(c))
           e == InverseRoot(d)
           f == With(e, New(c))
<1>1. Holds(a, n + 1)
  BY Basic, ScalarShape
<1> HIDE DEF a
<1>2. Holds(b, (n + 1) + 4)
  <2>1. n + 1 \in Nat /\ n + 1 # 0
    OBVIOUS
  <2> QED BY <1>1, <2>1, ScaledTwice, ScalarShape
<1> HIDE DEF b
<1>3. Holds(c, (n + 5) + 1)
  <2>1. n + 5 \in Nat /\ n + 5 # 0 /\ x \in 1 .. n + 5 /\ (n + 1) + 4 = n + 5
    OBVIOUS
  <2> QED BY <1>2, <2>1, Newest, ScalarShape
<1> HIDE DEF c
<1>4. Holds(c, n + 6) /\ New(c) = n + 6 /\ n + 6 \in Nat /\ n + 6 # 0 /\ n + 6 \in 1 .. n + 6
  BY <1>3 DEF Holds
<1>5. Holds(d, (n + 6) + 1)
  BY <1>4, Newest, ScalarShape
<1> HIDE DEF d
<1>6. Holds(e, (n + 7) + 7)
  <2>1. n + 7 \in Nat /\ n + 7 # 0 /\ (n + 6) + 1 = n + 7
    OBVIOUS
  <2> QED BY <1>5, <2>1, InverseRootHolds
<1> HIDE DEF e
<1>7. Holds(f, (n + 14) + 1)
  <2>1. n + 14 \in Nat /\ n + 14 # 0 /\ n + 6 \in 1 .. n + 14 /\ (n + 7) + 7 = n + 14
    OBVIOUS
  <2> QED BY <1>4, <1>6, <2>1, Newest, ScalarShape
<1> HIDE DEF f
<1>8. Holds(Scaled(Scaled(f, PerChannel(k)), PerChannel(k)), (n + 15) + 4)
  <2>1. n + 15 \in Nat /\ n + 15 # 0 /\ (n + 14) + 1 = n + 15
    OBVIOUS
  <2>2. PerChannel(k) \in Shape
    BY Wide
  <2> QED BY <1>7, <2>1, <2>2, ScaledTwice
<1> QED BY <1>8 DEF LayerNorm, a, b, c, d, e, f

LEMMA SiluHolds ==
  ASSUME NEW n \in Nat, NEW g, Holds(g, n), NEW x \in 1 .. n
  PROVE  Holds(Silu(g, x), n + 2)
<1> DEFINE a == Activation(g, x, "activation")
<1>1. Holds(a, n + 1)
  BY Basic, ScalarShape
<1> HIDE DEF a
<1>2. Holds(With(a, x), (n + 1) + 1)
  <2>1. n + 1 \in Nat /\ n + 1 # 0 /\ x \in 1 .. n + 1
    OBVIOUS
  <2> QED BY <1>1, <2>1, Newest, ScalarShape
<1> QED BY <1>2 DEF Silu, a

LEMMA GeluHolds ==
  ASSUME NEW n \in Nat, NEW g, Holds(g, n), NEW x \in 1 .. n
  PROVE  Holds(Gelu(g, x), n + 13)
<1> DEFINE a == Binary(g, x, x)
           b == Into(a, x)
           c == Scaled(b, Scalar)
           d == With(c, x)
           e == Scaled(d, Scalar)
           f == Activated(e)
           p == Scaled(f, Scalar)
           q == WithConstant(p, x, Scalar)
           r == Into(q, New(p))
<1>0. /\ \A i \in 1 .. 13 : n + i \in Nat /\ n + i # 0 /\ x \in 1 .. n + i /\ n + i \in 1 .. n + 13
      /\ (n + 1) + 1 = n + 2 /\ (n + 2) + 2 = n + 4 /\ (n + 4) + 1 = n + 5 /\ (n + 5) + 2 = n + 7 /\ (n + 7) + 1 = n + 8
      /\ (n + 8) + 2 = n + 10 /\ (n + 10) + 2 = n + 12 /\ (n + 12) + 1 = n + 13
  OBVIOUS
<1>1. Holds(a, n + 1)
  BY Pairs
<1> HIDE DEF a
<1>2. Holds(b, n + 2)
  BY <1>0, <1>1, Newest, ScalarShape
<1> HIDE DEF b
<1>3. Holds(c, n + 4)
  BY <1>0, <1>2, Newest, ScalarShape
<1> HIDE DEF c
<1>4. Holds(d, n + 5)
  BY <1>0, <1>3, Newest, ScalarShape
<1> HIDE DEF d
<1>5. Holds(e, n + 7)
  BY <1>0, <1>4, Newest, ScalarShape
<1> HIDE DEF e
<1>6. Holds(f, n + 8)
  BY <1>0, <1>5, Newest, ScalarShape
<1> HIDE DEF f
<1>7. Holds(p, n + 10)
  BY <1>0, <1>6, Newest, ScalarShape
<1> HIDE DEF p
<1>8. Holds(q, n + 12)
  BY <1>0, <1>7, Newest, ScalarShape
<1> HIDE DEF q
<1>9. Holds(r, n + 13)
  <2>1. New(p) = n + 10 /\ n + 10 \in 1 .. n + 12 /\ n + 12 \in Nat /\ n + 12 # 0
    BY <1>7 DEF Holds
  <2> QED BY <1>0, <1>8, <2>1, Newest, ScalarShape
<1> QED BY <1>9 DEF Gelu, a, b, c, d, e, f, p, q, r

-----------------------------------------------------------------------------
(* The kernels.                                                            *)

LEMMA HeadsHold ==
  ASSUME NEW n \in Nat, NEW g, Holds(g, n), NEW x \in 1 .. n, NEW w \in Positive
  PROVE  Holds(Gpt2Heads(g, x, w), n + 2)
<1> DEFINE s == <<1, Heads, HeadDim, w>>
           a == Reshape(g, x, s)
<1>1. s \in Shape
  BY Four, OneOf, Dimensions
<1> HIDE DEF s
<1>2. Holds(a, n + 1)
  BY <1>1, Basic
<1> HIDE DEF a
<1>3. Holds(Turned(a), (n + 1) + 1)
  <2>1. n + 1 \in Nat /\ n + 1 # 0 /\ 1 \in 1 .. n + 1
    OBVIOUS
  <2> QED BY <1>2, <2>1, Newest, ScalarShape
<1> QED BY <1>3 DEF Gpt2Heads, a, s

LEMMA AttendedHolds ==
  ASSUME NEW n \in Nat, NEW g, Holds(g, n), NEW x \in 1 .. n, NEW w \in Positive
  PROVE  Holds(Attended(g, x, w), n + 4)
<1> DEFINE a == SoftMax(g, New(g))
           b == Multiplied(a, New(a), x)
           c == Turned(b)
           s == Spatial(QkFlat, 1, w)
<1>0. /\ \A i \in 1 .. 4 : n + i \in Nat /\ n + i # 0 /\ x \in 1 .. n + i /\ n + i \in 1 .. n + i
      /\ (n + 1) + 1 = n + 2 /\ (n + 2) + 1 = n + 3 /\ (n + 3) + 1 = n + 4 /\ n \in 1 .. n
  OBVIOUS
<1>1. Holds(a, n + 1)
  <2>1. New(g) = n
    BY DEF Holds
  <2> QED BY <1>0, <2>1, Basic, ScalarShape
<1> HIDE DEF a
<1>2. Holds(b, n + 2)
  <2>1. New(a) = n + 1 /\ n + 1 \in Nat /\ x \in 1 .. n + 1 /\ n + 1 \in 1 .. n + 1
    BY <1>0, <1>1 DEF Holds
  <2>2. Holds(Multiplied(a, n + 1, x), (n + 1) + 1)
    BY <1>1, <2>1, Pairs
  <2> QED BY <1>0, <2>1, <2>2
<1> HIDE DEF b
<1>3. Holds(c, n + 3)
  BY <1>0, <1>2, Newest, ScalarShape
<1> HIDE DEF c
<1>4. s \in Shape
  BY Wide, Dimensions
<1> HIDE DEF s
<1>5. Holds(Reshaped(c, s), n + 4)
  BY <1>0, <1>3, <1>4, Newest
<1> QED BY <1>5 DEF Attended, a, b, c, s

(* The keys, the values and the mask of a decode step.                     *)
Cached(cached, n) == cached = <<>> \/ \E k, v, m \in 1 .. n : cached = <<k, v, m>>

LEMMA Gpt2PartsHold ==
  ASSUME NEW n \in Nat, NEW g, Holds(g, n), n # 0, NEW w \in Positive
  PROVE  LET part(h, qkv) == Slice(h, qkv, Spatial(QkFlat, 1, w))
             parts(h) == part(part(part(h, New(h)), New(h)), New(h))
         IN Holds(parts(g), n + 3)
<1> DEFINE s == Spatial(QkFlat, 1, w)
           a == Slice(g, New(g), s)
           b == Slice(a, New(g), s)
           c == Slice(b, New(g), s)
<1>1. s \in Shape /\ New(g) = n /\ n \in 1 .. n /\ n \in 1 .. n + 1 /\ n \in 1 .. n + 2
  BY Wide, Dimensions DEF Holds
<1>2. n + 1 \in Nat /\ n + 2 \in Nat /\ (n + 1) + 1 = n + 2 /\ (n + 2) + 1 = n + 3
  OBVIOUS
<1> HIDE DEF s
<1>3. Holds(a, n + 1)
  BY <1>1, Basic
<1> HIDE DEF a
<1>4. Holds(b, n + 2)
  BY <1>1, <1>2, <1>3, Basic
<1> HIDE DEF b
<1>5. Holds(c, n + 3)
  BY <1>1, <1>2, <1>4, Basic
<1> QED BY <1>5 DEF s, a, b, c

LEMMA Gpt2AttentionHolds ==
  ASSUME NEW n \in Nat, NEW g, Holds(g, n), NEW x \in 1 .. n, NEW w \in Positive, NEW cached, Cached(cached, n)
  PROVE  Good(Gpt2Attention(g, x, w, cached))
<1> DEFINE part(h, qkv) == Slice(h, qkv, Spatial(QkFlat, 1, w))
           parts(h) == part(part(part(h, New(h)), New(h)), New(h))
           heads(h, q, k, v, keys) == Gpt2Heads(Gpt2Heads(Gpt2Heads(h, q, w), k, keys), v, keys)
           allHeads(h) == IF cached = <<>> THEN heads(h, New(h) - 2, New(h) - 1, New(h), w)
                          ELSE heads(h, New(h) - 2, cached[1], cached[2], MaxSeq)
           scores(h) == Scaled(Against(h, New(h) - 4, New(h) - 2), Scalar)
           masked(h) == IF cached = <<>> THEN Scaled(h, <<1, 1, w, w>>) ELSE Into(h, cached[3])
           beside(h, k, v) == Concat(h, <<New(h), k, v>>, 2)
           attention(h) == beside(Projected(Attended(masked(scores(h)), New(h), w), QkFlat), New(h) - 7, New(h) - 6)
           a == LayerNorm(g, x, QkFlat)
           b == Projected(a, 3 * QkFlat)
           c == parts(b)
           d == allHeads(c)
           e == Against(d, New(d) - 4, New(d) - 2)
           f == Scaled(e, Scalar)
           m == masked(f)
           o == Attended(m, New(d), w)
           p == Projected(o, QkFlat)
<1>1. Holds(a, n + 19)
  BY LayerNormHolds, Dimensions
<1> HIDE DEF a
<1>2. Holds(b, n + 23)
  <2>1. n + 19 \in Nat /\ n + 19 # 0 /\ (n + 19) + 4 = n + 23
    OBVIOUS
  <2> QED BY <1>1, <2>1, DenseHolds, Dimensions
<1> HIDE DEF b
<1>3. Holds(c, n + 26)
  <2>1. n + 23 \in Nat /\ n + 23 # 0 /\ (n + 23) + 3 = n + 26
    OBVIOUS
  <2>2. Holds(parts(b), (n + 23) + 3)
    BY <1>2, <2>1, Gpt2PartsHold
  <2> QED BY <2>1, <2>2
<1> HIDE DEF c
<1>4. Holds(d, n + 32)
  <2>1. \A q, k, v \in 1 .. n + 26 : \A keys \in Positive : Holds(heads(c, q, k, v, keys), n + 32)
    <3> SUFFICES ASSUME NEW q \in 1 .. n + 26, NEW k \in 1 .. n + 26, NEW v \in 1 .. n + 26, NEW keys \in Positive
                 PROVE  Holds(heads(c, q, k, v, keys), n + 32)
      OBVIOUS
    <3> DEFINE h == Gpt2Heads(c, q, w)
               i == Gpt2Heads(h, k, keys)
               j == Gpt2Heads(i, v, keys)
    <3>1. /\ n + 26 \in Nat /\ n + 28 \in Nat /\ n + 30 \in Nat /\ k \in 1 .. n + 28 /\ v \in 1 .. n + 30
          /\ (n + 26) + 2 = n + 28 /\ (n + 28) + 2 = n + 30 /\ (n + 30) + 2 = n + 32
      OBVIOUS
    <3>2. Holds(h, n + 28)
      BY <1>3, <3>1, HeadsHold
    <3> HIDE DEF h
    <3>3. Holds(i, n + 30)
      BY <3>1, <3>2, HeadsHold
    <3> HIDE DEF i
    <3>4. Holds(j, n + 32)
      BY <3>1, <3>3, HeadsHold
    <3> QED BY <3>4 DEF h, i, j
  <2>2. New(c) = n + 26 /\ New(c) - 2 \in 1 .. n + 26 /\ New(c) - 1 \in 1 .. n + 26 /\ New(c) \in 1 .. n + 26
    BY <1>3 DEF Holds
  <2>3. cached # <<>> => cached[1] \in 1 .. n + 26 /\ cached[2] \in 1 .. n + 26
    BY DEF Cached
  <2>4. MaxSeq \in Positive
    BY Dimensions
  <2> HIDE DEF heads
  <2>5. CASE cached = <<>>
    BY <2>1, <2>2, <2>5
  <2>6. CASE cached # <<>>
    BY <2>1, <2>2, <2>3, <2>4, <2>6
  <2> QED BY <2>5, <2>6
<1> HIDE DEF d
<1>5. New(d) = n + 32 /\ New(d) - 4 \in 1 .. n + 32 /\ New(d) - 2 \in 1 .. n + 32 /\ n + 32 \in Nat
  BY <1>4 DEF Holds
<1>6. Holds(e, n + 33)
  <2>1. (n + 32) + 1 = n + 33
    OBVIOUS
  <2> QED BY <1>4, <1>5, <2>1, Pairs
<1> HIDE DEF e
<1>7. Holds(f, n + 35)
  <2>1. n + 33 \in Nat /\ n + 33 # 0 /\ 1 \in 1 .. n + 33 /\ (n + 33) + 2 = n + 35
    OBVIOUS
  <2> QED BY <1>6, <2>1, Newest, ScalarShape
<1> HIDE DEF f
<1>8. \E l \in {36, 37} : Holds(m, n + l)
  <2>1. n + 35 \in Nat /\ n + 35 # 0 /\ 1 \in 1 .. n + 35 /\ (n + 35) + 2 = n + 37 /\ (n + 35) + 1 = n + 36
    OBVIOUS
  <2>2. CASE cached = <<>>
    <3> DEFINE s == <<1, 1, w, w>>
    <3>1. s \in Shape
      BY Four, OneOf
    <3> HIDE DEF s
    <3>2. Holds(Scaled(f, s), n + 37)
      BY <1>7, <2>1, <3>1, Newest
    <3>3. m = Scaled(f, s)
      BY <2>2 DEF s
    <3> QED BY <3>2, <3>3
  <2>3. CASE cached # <<>>
    <3>1. cached[3] \in 1 .. n
      BY <2>3 DEF Cached
    <3>2. cached[3] \in 1 .. n + 35
      BY <3>1
    <3>3. Holds(Into(f, cached[3]), n + 36)
      BY <1>7, <2>1, <3>2, Newest, ScalarShape
    <3>4. m = Into(f, cached[3])
      BY <2>3
    <3> QED BY <3>3, <3>4
  <2> QED BY <2>2, <2>3
<1> HIDE DEF m
<1>9. PICK l \in {36, 37} : Holds(m, n + l)
  BY <1>8
<1>10. n + l \in Nat /\ n + l # 0 /\ New(d) \in 1 .. n + l
  BY <1>5
<1>11. Holds(o, (n + l) + 4)
  BY <1>9, <1>10, AttendedHolds
<1> HIDE DEF o
<1>12. Holds(p, ((n + l) + 4) + 4)
  <2>1. (n + l) + 4 \in Nat /\ (n + l) + 4 # 0
    OBVIOUS
  <2> QED BY <1>11, <2>1, DenseHolds, Dimensions
<1> HIDE DEF p
<1>13. Good(beside(p, New(d) - 7, New(d) - 6))
  <2> DEFINE k == ((n + l) + 4) + 4
             y == New(d) - 7
             z == New(d) - 6
  <2>1. k \in Nat /\ New(p) = k /\ k \in 1 .. k /\ y \in 1 .. k /\ z \in 1 .. k
    BY <1>5, <1>12 DEF Holds
  <2> HIDE DEF k, y, z
  <2>2. Holds(Concat(p, <<k, y, z>>, 2), k + 1)
    BY <1>12, <2>1, Triples DEF k
  <2> QED BY <2>1, <2>2 DEF Holds, y, z
<1> QED BY <1>13 DEF Gpt2Attention, a, b, c, d, e, f, m, o, p

LEMMA OneInput ==
  ASSUME NEW s \in Shape
  PROVE  Holds(Inputs(<<s>>), 1)
<1> DEFINE list == <<s>>
<1>1. list \in Seq(Shape) /\ Len(list) = 1
  OBVIOUS
<1> HIDE DEF list
<1>2. Holds(Inputs(list), 1)
  BY <1>1, InputsGood
<1> QED BY <1>2 DEF list

LEMMA FeedForwardGood ==
  ASSUME NEW w \in Positive
  PROVE  Good(Gpt2FeedForward(w))
<1> DEFINE i == Inputs(<<Spatial(QkFlat, 1, w)>>)
           a == LayerNorm(i, 1, QkFlat)
           b == Projected(a, 4 * QkFlat)
           c == Gelu(b, New(b))
           d == Projected(c, QkFlat)
<1>1. Holds(i, 1)
  BY OneInput, Wide, Dimensions
<1> HIDE DEF i
<1>2. Holds(a, 20)
  BY <1>1, LayerNormHolds, Dimensions
<1> HIDE DEF a
<1>3. Holds(b, 24)
  BY <1>2, DenseHolds, Dimensions
<1> HIDE DEF b
<1>4. Holds(c, 37)
  <2>1. New(b) = 24
    BY <1>3 DEF Holds
  <2>2. Holds(Gelu(b, 24), 24 + 13)
    BY <1>3, GeluHolds
  <2> QED BY <2>1, <2>2
<1> HIDE DEF c
<1>5. Holds(d, 41)
  BY <1>4, DenseHolds, Dimensions
<1> QED BY <1>5 DEF Gpt2FeedForward, Holds, i, a, b, c, d

LEMMA Gpt2Good ==
  Good(Gpt2PrefillAttention) /\ Good(Gpt2DecodeAttention)
<1>1. Good(Gpt2PrefillAttention)
  <2> DEFINE i == Inputs(<<Spatial(QkFlat, 1, PromptWidth)>>)
  <2>1. Holds(i, 1)
    BY OneInput, Wide, Dimensions
  <2> HIDE DEF i
  <2>2. Cached(<<>>, 1)
    BY DEF Cached
  <2>3. Good(Gpt2Attention(i, 1, PromptWidth, <<>>))
    BY <2>1, <2>2, Gpt2AttentionHolds, Dimensions
  <2> QED BY <2>3 DEF Gpt2PrefillAttention, i
<1>2. Good(Gpt2DecodeAttention)
  <2> DEFINE keep == Spatial(QkFlat, 1, MaxSeq)
             first == Spatial(QkFlat, 1, DecodeWidth)
             mask == <<1, 1, DecodeWidth, MaxSeq>>
             list == <<first, keep, keep, mask>>
             i == Inputs(list)
  <2>1. keep \in Shape /\ first \in Shape /\ mask \in Shape
    BY Wide, Dimensions, Four, OneOf
  <2> HIDE DEF keep, first, mask
  <2>2. list \in Seq(Shape) /\ Len(list) = 4
    BY <2>1
  <2> HIDE DEF list
  <2>3. Holds(i, 4)
    BY <2>2, InputsGood
  <2> HIDE DEF i
  <2>4. Cached(<<2, 3, 4>>, 4)
    BY DEF Cached
  <2>5. Good(Gpt2Attention(i, 1, DecodeWidth, <<2, 3, 4>>))
    BY <2>3, <2>4, Gpt2AttentionHolds, Dimensions
  <2> QED BY <2>5 DEF Gpt2DecodeAttention, i, list, keep, first, mask
<1> QED BY <1>1, <1>2

LEMMA QwenProjectionGood ==
  ASSUME NEW w \in Positive
  PROVE  Good(QwenProjection(w))
<1> DEFINE i == Inputs(<<Spatial(Hidden, 1, w)>>)
           a == RmsNorm(i, 1, Hidden)
           b == ConvBias(a, New(a), QDim)
           c == ConvBias(b, New(a), KvDim)
           d == ConvBias(c, New(a), KvDim)
<1>1. Holds(i, 1)
  BY OneInput, Wide, Dimensions
<1> HIDE DEF i
<1>2. Holds(a, 12)
  BY <1>1, RmsNormHolds, Dimensions
<1> HIDE DEF a
<1>3. New(a) = 12
  BY <1>2 DEF Holds
<1>4. Holds(b, 16)
  BY <1>2, <1>3, Convolved, Dimensions
<1> HIDE DEF b
<1>5. Holds(c, 20)
  BY <1>3, <1>4, Convolved, Dimensions
<1> HIDE DEF c
<1>6. Holds(d, 24)
  BY <1>3, <1>5, Convolved, Dimensions
<1> HIDE DEF d
<1>7. New(d) = 24
  BY <1>6 DEF Holds
<1>8. Good(Concat(d, <<New(d) - 8, New(d) - 4, New(d)>>, 2))
  <2>1. Holds(Concat(d, <<16, 20, 24>>, 2), 24 + 1)
    BY <1>6, Triples
  <2> QED BY <1>7, <2>1 DEF Holds
<1> QED BY <1>8 DEF QwenProjection, i, a, b, c, d

LEMMA QwenAttentionGood ==
  ASSUME NEW w \in Positive, NEW keys \in Positive
  PROVE  Good(QwenAttention(w, keys))
<1> DEFINE row(n) == Spatial(QkFlat, 1, n)
           heads(h) == Gpt2Heads(Reshape(Gpt2Heads(h, 1, w), 3, <<1, Heads, HeadDim, keys>>), 4, keys)
           scores(h) == Scaled(Multiplied(h, New(h) - 3, New(h) - 2), Scalar)
           r == row(w)
           k == row(keys)
           mask == <<1, 1, w, keys>>
           list == <<r, r, k, k, mask>>
           i == Inputs(list)
           s == <<1, Heads, HeadDim, keys>>
           a == Gpt2Heads(i, 1, w)
           b == Reshape(a, 3, s)
           c == Gpt2Heads(b, 4, keys)
           d == Multiplied(c, New(c) - 3, New(c) - 2)
           e == Scaled(d, Scalar)
           f == Into(e, 5)
           o == Attended(f, New(c), w)
           p == Activation(o, 2, "activation")
           q == With(p, New(o))
           t == Dense(q, Hidden)
<1>1. r \in Shape /\ k \in Shape /\ mask \in Shape /\ s \in Shape
  BY Wide, Dimensions, Four, OneOf
<1> HIDE DEF r, k, mask, s
<1>2. list \in Seq(Shape) /\ Len(list) = 5
  BY <1>1
<1> HIDE DEF list
<1>3. Holds(i, 5)
  BY <1>2, InputsGood
<1> HIDE DEF i
<1>4. Holds(a, 7)
  BY <1>3, HeadsHold
<1> HIDE DEF a
<1>5. Holds(b, 8)
  BY <1>1, <1>4, Basic
<1> HIDE DEF b
<1>6. Holds(c, 10)
  BY <1>5, HeadsHold
<1> HIDE DEF c
<1>7. Holds(d, 11)
  <2>1. New(c) - 3 = 7 /\ New(c) - 2 = 8
    BY <1>6 DEF Holds
  <2>2. Holds(Multiplied(c, 7, 8), 10 + 1)
    BY <1>6, PlainProducts
  <2> QED BY <2>1, <2>2
<1> HIDE DEF d
<1>8. Holds(e, 13)
  BY <1>7, Newest, ScalarShape
<1> HIDE DEF e
<1>9. Holds(f, 14)
  BY <1>8, Newest, ScalarShape
<1> HIDE DEF f
<1>10. Holds(o, 18)
  <2>1. New(c) = 10
    BY <1>6 DEF Holds
  <2>2. Holds(Attended(f, 10, w), 14 + 4)
    BY <1>9, AttendedHolds
  <2> QED BY <2>1, <2>2
<1> HIDE DEF o
<1>11. Holds(p, 19)
  BY <1>10, Basic, ScalarShape
<1> HIDE DEF p
<1>12. Holds(q, 20)
  <2>1. New(o) = 18
    BY <1>10 DEF Holds
  <2>2. Holds(With(p, 18), 19 + 1)
    BY <1>11, Newest, ScalarShape
  <2> QED BY <2>1, <2>2
<1> HIDE DEF q
<1>13. Holds(t, 22)
  BY <1>12, DenseHolds, Dimensions
<1> QED BY <1>13 DEF QwenAttention, Holds, t, q, p, o, f, e, d, c, b, a, s, i, list, mask, k, r

LEMMA SwiGluHolds ==
  ASSUME NEW w \in Positive
  PROVE  Holds(SwiGlu(w).graph, 21) /\ SwiGlu(w).norm = 12
<1> DEFINE i == Inputs(<<Spatial(Hidden, 1, w)>>)
           n == RmsNorm(i, 1, Hidden)
           a == Dense(n, Intermediate)
           b == Silu(a, New(a))
           c == Conv1x1(b, New(n), Intermediate)
           d == With(c, New(c) - 2)
           e == Dense(d, Hidden)
<1>1. Holds(i, 1)
  BY OneInput, Wide, Dimensions
<1> HIDE DEF i
<1>2. Holds(n, 12)
  BY <1>1, RmsNormHolds, Dimensions
<1> HIDE DEF n
<1>3. New(n) = 12
  BY <1>2 DEF Holds
<1>4. Holds(a, 14)
  BY <1>2, DenseHolds, Dimensions
<1> HIDE DEF a
<1>5. Holds(b, 16)
  <2>1. New(a) = 14
    BY <1>4 DEF Holds
  <2>2. Holds(Silu(a, 14), 14 + 2)
    BY <1>4, SiluHolds
  <2> QED BY <2>1, <2>2
<1> HIDE DEF b
<1>6. Holds(c, 18)
  BY <1>3, <1>5, Convolved, Dimensions
<1> HIDE DEF c
<1>7. Holds(d, 19)
  <2>1. New(c) - 2 = 16
    BY <1>6 DEF Holds
  <2>2. Holds(With(c, 16), 18 + 1)
    BY <1>6, Newest, ScalarShape
  <2> QED BY <2>1, <2>2
<1> HIDE DEF d
<1>8. Holds(e, 21)
  BY <1>7, DenseHolds, Dimensions
<1> HIDE DEF e
<1>9. SwiGlu(w) = [graph |-> e, norm |-> New(n)]
  BY DEF SwiGlu, e, d, c, b, a, n, i
<1> QED BY <1>3, <1>8, <1>9

LEMMA SharedExpertGood ==
  ASSUME NEW w \in Positive
  PROVE  Good(SharedExpert(w))
<1> DEFINE f == SwiGlu(w)
           g == f.graph
           s == Spatial(1, 1, Hidden)
           a == Constant(g, s)
           b == Transpose(a, f.norm, <<1, 3, 4, 2>>)
           c == Against(b, New(b), New(b) - 1)
           d == Activated(c)
           t == Spatial(1, 1, w)
           e == Reshaped(d, t)
           h == With(e, New(g))
<1>1. Holds(g, 21) /\ f.norm = 12
  BY SwiGluHolds
<1>2. s \in Shape /\ t \in Shape
  BY Wide, Dimensions, OneOf
<1> HIDE DEF f, g, s, t
<1>3. Holds(a, 22)
  BY <1>1, <1>2, Declared
<1> HIDE DEF a
<1>4. Holds(b, 23)
  <2>1. Holds(Transpose(a, 12, <<1, 3, 4, 2>>), 22 + 1)
    BY <1>3, Permutes
  <2> QED BY <1>1, <2>1
<1> HIDE DEF b
<1>5. Holds(c, 24)
  <2>1. New(b) = 23 /\ New(b) - 1 = 22
    BY <1>4 DEF Holds
  <2>2. Holds(Against(b, 23, 22), 23 + 1)
    BY <1>4, Products
  <2> QED BY <2>1, <2>2
<1> HIDE DEF c
<1>6. Holds(d, 25)
  BY <1>5, Newest, ScalarShape
<1> HIDE DEF d
<1>7. Holds(e, 26)
  BY <1>2, <1>6, Newest
<1> HIDE DEF e
<1>8. Holds(h, 27)
  <2>1. New(g) = 21
    BY <1>1 DEF Holds
  <2>2. Holds(With(e, 21), 26 + 1)
    BY <1>7, Newest, ScalarShape
  <2> QED BY <2>1, <2>2
<1> QED BY <1>8 DEF SharedExpert, Holds, h, e, t, d, c, b, a, s, g, f

LEMMA MoeExpertGood ==
  ASSUME NEW w \in Positive
  PROVE  Good(MoeExpert(w))
<1> DEFINE x == Spatial(Hidden, 1, w)
           weight == <<1, 1, Intermediate, Hidden>>
           down == <<1, 1, Hidden, Intermediate>>
           list == <<x, weight, weight, down>>
           i == Inputs(list)
           n == Transpose(i, 1, <<1, 3, 4, 2>>)
           a == Against(n, New(n), 2)
           b == Silu(a, New(a))
           c == Against(b, New(n), 3)
           d == With(c, New(c) - 1)
           e == Against(d, New(d), 4)
           r == Transpose(e, New(e), <<1, 4, 2, 3>>)
<1>1. x \in Shape /\ weight \in Shape /\ down \in Shape
  BY Wide, Dimensions, Four, OneOf
<1> HIDE DEF x, weight, down
<1>2. list \in Seq(Shape) /\ Len(list) = 4
  BY <1>1
<1> HIDE DEF list
<1>3. Holds(i, 4)
  BY <1>2, InputsGood
<1> HIDE DEF i
<1>4. Holds(n, 5)
  BY <1>3, Permutes
<1> HIDE DEF n
<1>5. New(n) = 5
  BY <1>4 DEF Holds
<1>6. Holds(a, 6)
  <2>1. Holds(Against(n, 5, 2), 5 + 1)
    BY <1>4, Products
  <2> QED BY <1>5, <2>1
<1> HIDE DEF a
<1>7. Holds(b, 8)
  <2>1. New(a) = 6
    BY <1>6 DEF Holds
  <2>2. Holds(Silu(a, 6), 6 + 2)
    BY <1>6, SiluHolds
  <2> QED BY <2>1, <2>2
<1> HIDE DEF b
<1>8. Holds(c, 9)
  <2>1. Holds(Against(b, 5, 3), 8 + 1)
    BY <1>7, Products
  <2> QED BY <1>5, <2>1
<1> HIDE DEF c
<1>9. Holds(d, 10)
  <2>1. New(c) - 1 = 8
    BY <1>8 DEF Holds
  <2>2. Holds(With(c, 8), 9 + 1)
    BY <1>8, Newest, ScalarShape
  <2> QED BY <2>1, <2>2
<1> HIDE DEF d
<1>10. Holds(e, 11)
  <2>1. New(d) = 10
    BY <1>9 DEF Holds
  <2>2. Holds(Against(d, 10, 4), 10 + 1)
    BY <1>9, Products
  <2> QED BY <2>1, <2>2
<1> HIDE DEF e
<1>11. Holds(r, 12)
  <2>1. New(e) = 11
    BY <1>10 DEF Holds
  <2>2. Holds(Transpose(e, 11, <<1, 4, 2, 3>>), 11 + 1)
    BY <1>10, Permutes
  <2> QED BY <2>1, <2>2
<1> QED BY <1>11 DEF MoeExpert, Holds, r, e, d, c, b, a, n, i, list, down, weight, x

LEMMA KernelsGood ==
  ASSUME NEW k \in Kernels
  PROVE  Good(k.graph)
<1>1. PromptWidth \in Positive /\ DecodeWidth \in Positive /\ MaxSeq \in Positive
  BY Dimensions
<1>2. CASE k \in Gpt2Kernels
  BY <1>1, <1>2, Gpt2Good, FeedForwardGood DEF Gpt2Kernels
<1>3. CASE k \in QwenKernels
  <2>1. \A w \in {PromptWidth, DecodeWidth} : Good(QwenProjection(w)) /\ Good(SwiGlu(w).graph)
    BY <1>1, QwenProjectionGood, SwiGluHolds DEF Holds
  <2> QED BY <1>3, <2>1 DEF QwenKernels
<1>4. CASE k \in QwenAttentionKernels
  BY <1>1, <1>4, QwenAttentionGood DEF QwenAttentionKernels
<1>5. CASE k \in MoeKernels
  BY <1>1, <1>5, SharedExpertGood, MoeExpertGood DEF MoeKernels
<1> QED BY <1>2, <1>3, <1>4, <1>5 DEF Kernels

-----------------------------------------------------------------------------
(* Numbers in order, and lists that have each element once.                *)

(* A set of numbers that is not empty has a least one.                     *)
LEMMA LeastOf ==
  ASSUME NEW T, T \subseteq Nat, T # {}
  PROVE  \E x \in T : \A y \in T : x <= y
<1>1. PICK R : IsWellFoundedOn(R, Nat) /\ \A x, y \in Nat : <<x, y>> \in R <=> x < y
  BY NatOrder
<1>2. IsWellFoundedOn(R, Nat)
  BY <1>1
<1>3. PICK x \in T : \A y \in T : ~ (<<y, x>> \in R)
  BY <1>2, WFMin, Zenon
<1>4. \A y \in T : x <= y
  <2>1. SUFFICES ASSUME NEW y \in T, ~ (x <= y) PROVE FALSE
    OBVIOUS
  <2>2. y < x /\ x \in Nat /\ y \in Nat
    BY <2>1
  <2>3. <<y, x>> \in R
    BY <1>1, <2>2
  <2> QED BY <1>3, <2>3
<1> QED BY <1>4

(* A number of a finite set has as many below it as its place says.        *)
Under(P, x) == {m \in P : m < x}

LEMMA Places ==
  ASSUME NEW P, P \subseteq Nat, IsFiniteSet(P)
  PROVE  /\ Cardinality(P) \in Nat
         /\ \A x \in P : Cardinality(Under(P, x)) \in 0 .. Cardinality(P) - 1
         /\ \A x, y \in P : Cardinality(Under(P, x)) = Cardinality(Under(P, y)) => x = y
         /\ \A k \in 0 .. Cardinality(P) - 1 : \E x \in P : Cardinality(Under(P, x)) = k
<1> DEFINE rank == [x \in P |-> Cardinality(Under(P, x))]
           C == 0 .. Cardinality(P) - 1
<1>1. Cardinality(P) \in Nat
  BY FS_CardinalityType
<1>2. \A x \in P : IsFiniteSet(Under(P, x)) /\ Cardinality(Under(P, x)) \in Nat
  <2> SUFFICES ASSUME NEW x \in P PROVE IsFiniteSet(Under(P, x)) /\ Cardinality(Under(P, x)) \in Nat
    OBVIOUS
  <2>1. Under(P, x) \in SUBSET P
    BY DEF Under
  <2> QED BY <2>1, FS_Subset, FS_CardinalityType
<1>3. ASSUME NEW x \in P PROVE Cardinality(Under(P, x)) \in C
  <2>1. Under(P, x) \in SUBSET P /\ Under(P, x) # P
    BY DEF Under
  <2>2. Cardinality(Under(P, x)) <= Cardinality(P) /\ Cardinality(Under(P, x)) # Cardinality(P)
    BY <2>1, FS_Subset
  <2> QED BY <1>1, <1>2, <2>2
<1>4. ASSUME NEW x \in P, NEW y \in P, x < y
      PROVE  Cardinality(Under(P, x)) < Cardinality(Under(P, y))
  <2>1. Under(P, x) \in SUBSET Under(P, y)
    <3>1. \A m \in P : m < x => m < y
      <4>1. x \in Nat /\ y \in Nat /\ \A m \in P : m \in Nat
        OBVIOUS
      <4> QED BY <1>4, <4>1
    <3> QED BY <3>1 DEF Under
  <2>3. x \in Under(P, y) /\ x \notin Under(P, x)
    BY <1>4 DEF Under
  <2>2. Cardinality(Under(P, x)) <= Cardinality(Under(P, y))
        /\ Cardinality(Under(P, x)) # Cardinality(Under(P, y))
    BY <1>2, <2>1, <2>3, FS_Subset
  <2> QED BY <1>2, <2>2
<1>5. \A x, y \in P : Cardinality(Under(P, x)) = Cardinality(Under(P, y)) => x = y
  <2> SUFFICES ASSUME NEW x \in P, NEW y \in P, Cardinality(Under(P, x)) = Cardinality(Under(P, y)), x # y
               PROVE  FALSE
    OBVIOUS
  <2>1. x < y \/ y < x
    OBVIOUS
  <2> QED BY <1>2, <1>4, <2>1
<1>6. \A k \in C : \E x \in P : Cardinality(Under(P, x)) = k
  <2>1. rank \in [P -> C]
    BY <1>3
  <2>2. \A x, y \in P : rank[x] = rank[y] => x = y
    BY <1>5
  <2>3. rank \in Injection(P, C)
    BY <2>1, <2>2, Fun_IsInj
  <2>4. IsFiniteSet(C) /\ Cardinality(C) = Cardinality(P)
    <3> DEFINE n == Cardinality(P)
    <3>1. n \in Nat /\ 0 \in Int /\ n - 1 \in Int
      BY <1>1
    <3> HIDE DEF n
    <3>2. IsFiniteSet(0 .. n - 1) /\ Cardinality(0 .. n - 1) = IF 0 > n - 1 THEN 0 ELSE (n - 1) - 0 + 1
      BY <3>1, FS_Interval
    <3>3. IsFiniteSet(0 .. n - 1) /\ Cardinality(0 .. n - 1) = n
      BY <3>1, <3>2
    <3> QED BY <3>3 DEF n
  <2>5. rank \in Surjection(P, C)
    BY <2>3, <2>4, FS_Injection
  <2>6. \A k \in C : \E x \in P : rank[x] = k
    BY <2>5, Zenon DEF Surjection
  <2> QED BY <2>6
<1> QED BY <1>1, <1>3, <1>5, <1>6

(* A list of S that has the elements of E, each once.                      *)
Lists(s, S, E) ==
  /\ s \in Seq(S)
  /\ ToSet(s) = E
  /\ \A i, j \in DOMAIN s : s[i] = s[j] => i = j

LEMMA AscendingLists ==
  ASSUME NEW P, P \subseteq Nat, IsFiniteSet(P)
  PROVE  Lists(Ascending(P), Nat, P)
<1> DEFINE n == Cardinality(P)
           s == Ascending(P)
<1>1. s = [k \in 1 .. n |-> CHOOSE x \in P : Cardinality(Under(P, x)) = k - 1]
  BY DEF Ascending, Under
<1>2. n \in Nat
  BY Places
<1>3. ASSUME NEW k \in 1 .. n PROVE s[k] \in P /\ Cardinality(Under(P, s[k])) = k - 1
  <2>1. k - 1 \in 0 .. n - 1
    BY <1>2
  <2>2. \E x \in P : Cardinality(Under(P, x)) = k - 1
    BY <2>1, Places
  <2>3. s[k] = CHOOSE x \in P : Cardinality(Under(P, x)) = k - 1
    BY <1>1
  <2> QED BY <2>2, <2>3
<1>4. DOMAIN s = 1 .. n
  BY <1>1
<1>5. s \in Seq(Nat)
  <2>1. s = [k \in 1 .. n |-> s[k]]
    BY <1>1
  <2> HIDE DEF s, n
  <2>2. s \in [1 .. n -> Nat]
    BY <1>3, <1>4, <2>1
  <2> QED BY <1>2, <2>2, SeqDef
<1>6. \A i, j \in DOMAIN s : s[i] = s[j] => i = j
  <2> HIDE DEF s, n
  <2> QED BY <1>2, <1>3, <1>4
<1>7. ASSUME NEW x \in P PROVE \E k \in DOMAIN s : s[k] = x
  <2> DEFINE k == Cardinality(Under(P, x)) + 1
  <2>1. Cardinality(Under(P, x)) \in 0 .. n - 1
    BY Places
  <2>2. k \in 1 .. n /\ k - 1 = Cardinality(Under(P, x))
    BY <1>2, <2>1
  <2>3. s[k] \in P /\ Cardinality(Under(P, s[k])) = Cardinality(Under(P, x))
    BY <1>3, <2>2
  <2>4. s[k] = x
    BY <2>3, Places
  <2> QED BY <1>4, <2>2, <2>4
<1>8. ToSet(s) = P
  <2> HIDE DEF s, n
  <2> QED BY <1>3, <1>4, <1>7 DEF ToSet
<1> QED BY <1>5, <1>6, <1>8 DEF Lists

(* What a list has at some places, when it has no two alike there.         *)
LEMMA AtLists ==
  ASSUME NEW S, NEW s \in Seq(S), NEW P, P \subseteq DOMAIN s,
         \A i, j \in P : s[i] = s[j] => i = j
  PROVE  Lists(At(s, P), S, {s[i] : i \in P})
<1> DEFINE a == Ascending(P)
           t == At(s, P)
<1>1. P \subseteq Nat /\ IsFiniteSet(P)
  <2>1. DOMAIN s = 1 .. Len(s) /\ Len(s) \in Nat
    BY LenProperties
  <2>2. IsFiniteSet(1 .. Len(s))
    BY <2>1, FS_Interval
  <2> QED BY <2>1, <2>2, FS_Subset
<1>2. Lists(a, Nat, P)
  BY <1>1, AscendingLists
<1>3. a \in Seq(Nat) /\ ToSet(a) = P /\ \A i, j \in DOMAIN a : a[i] = a[j] => i = j
  BY <1>2 DEF Lists
<1>4. t = [k \in DOMAIN a |-> s[a[k]]]
  BY DEF At
<1> HIDE DEF a, t
<1>5. \A k \in DOMAIN a : a[k] \in P /\ s[a[k]] \in S
  <2>1. \A k \in DOMAIN a : a[k] \in P
    BY <1>3 DEF ToSet
  <2>2. \A i \in DOMAIN s : s[i] \in S
    BY LenProperties, ElementOfSeq
  <2> QED BY <2>1, <2>2
<1>6. t \in Seq(S)
  <2>1. DOMAIN a = 1 .. Len(a) /\ Len(a) \in Nat
    BY <1>3, LenProperties
  <2>2. t \in [1 .. Len(a) -> S]
    BY <1>4, <1>5, <2>1
  <2> QED BY <2>1, <2>2, SeqDef
<1>7. \A i, j \in DOMAIN t : t[i] = t[j] => i = j
  BY <1>3, <1>4, <1>5
<1>8. ToSet(t) = {s[i] : i \in P}
  BY <1>3, <1>4 DEF ToSet
<1>9. Lists(t, S, {s[i] : i \in P})
  BY <1>6, <1>7, <1>8 DEF Lists
<1> QED BY <1>9 DEF t

-----------------------------------------------------------------------------
(* The list of operations that is emitted.                                 *)

Emits == [kind : Weighted \cup Plain \cup {"constant"}, top : Nat, bottoms : Seq(Nat), blobs : Seq(Nat)]

(* Every operation has the weights its kind takes; no two make the same    *)
(* tensor; what one reads is made by none of them or by one before it.     *)
Listed(g, list) ==
  /\ list \in Seq(Emits)
  /\ \A i \in DOMAIN list :
       /\ Len(list[i].blobs) = Advance(list[i])
       /\ list[i].kind \in {"conv", "deconv"} => Len(list[i].blobs) \in 1 .. 2
       /\ \A k \in DOMAIN list[i].blobs : list[i].blobs[k] \in g.constants
       /\ list[i].kind = "constant" => list[i].blobs = <<list[i].top>>
       /\ list[i].kind # "constant" => list[i] \in ToSet(g.ops)
       /\ \A x \in ToSet(list[i].bottoms) : x \in TopsOf(list) => \E j \in 1 .. i - 1 : list[j].top = x
  /\ \A i, j \in DOMAIN list : list[i].top = list[j].top => i = j

LEMMA UsedFinite ==
  ASSUME NEW g, Good(g)
  PROVE  UsedConstants(g) \subseteq Nat /\ IsFiniteSet(UsedConstants(g))
<1>1. New(g) \in Nat /\ UsedConstants(g) \subseteq 1 .. New(g)
  BY Parts DEF UsedConstants
<1>2. IsFiniteSet(1 .. New(g))
  BY <1>1, FS_Interval
<1>3. IsFiniteSet(UsedConstants(g))
  BY <1>1, <1>2, FS_Subset
<1> QED BY <1>1, <1>3

LEMMA OrdersLists ==
  ASSUME NEW P, P \subseteq Nat, IsFiniteSet(P), NEW order \in Orders(P)
  PROVE  Lists(order, Nat, P)
<1>1. CASE order = Ascending(P)
  BY <1>1, AscendingLists
<1>2. CASE order \in SetToSeqs(P)
  <2> DEFINE n == Cardinality(P)
  <2>1. n \in Nat /\ IsFiniteSet(1 .. n) /\ Cardinality(1 .. n) = n
    <3>1. n \in Nat
      BY FS_CardinalityType
    <3> HIDE DEF n
    <3>2. IsFiniteSet(1 .. n) /\ Cardinality(1 .. n) = IF 1 > n THEN 0 ELSE n - 1 + 1
      BY <3>1, FS_Interval
    <3> QED BY <3>1, <3>2
  <2>2. order \in [1 .. n -> P] /\ \A i, j \in 1 .. n : order[i] = order[j] => i = j
    BY <1>2 DEF SetToSeqs
  <2>3. order \in Injection(1 .. n, P)
    <3> HIDE DEF n
    <3> QED BY <2>2, Fun_IsInj
  <2>4. order \in Surjection(1 .. n, P)
    <3>1. Cardinality(1 .. n) = Cardinality(P)
      BY <2>1
    <3> HIDE DEF n
    <3> QED BY <2>3, <3>1, FS_Injection
  <2>5. \A x \in P : \E i \in 1 .. n : order[i] = x
    BY <2>4, Zenon DEF Surjection
  <2> HIDE DEF n
  <2>6. order \in Seq(Nat) /\ DOMAIN order = 1 .. n
    <3>1. order \in [1 .. n -> Nat]
      BY <2>2
    <3> QED BY <2>1, <3>1, SeqDef
  <2>7. ToSet(order) = P
    <3>1. \A i \in DOMAIN order : order[i] \in P
      BY <2>2, <2>6
    <3>2. \A x \in P : \E i \in DOMAIN order : order[i] = x
      BY <2>5, <2>6
    <3> QED BY <3>1, <3>2 DEF ToSet
  <2> QED BY <2>2, <2>6, <2>7 DEF Lists
<1> QED BY <1>1, <1>2 DEF Orders

LEMMA ConstantEmits ==
  ASSUME NEW x \in Nat
  PROVE  /\ ConstantOp(x) \in Emits
         /\ ConstantOp(x).kind = "constant" /\ ConstantOp(x).top = x /\ ConstantOp(x).blobs = <<x>>
         /\ Len(ConstantOp(x).blobs) = Advance(ConstantOp(x))
         /\ DOMAIN ConstantOp(x).blobs = {1} /\ ConstantOp(x).blobs[1] = x
         /\ ToSet(ConstantOp(x).bottoms) = {}
<1>1. ConstantOp(x).kind = "constant" /\ ConstantOp(x).top = x /\ ConstantOp(x).blobs = <<x>> /\ ConstantOp(x).bottoms = <<>>
  BY DEF ConstantOp
<1>2. <<x>> \in Seq(Nat) /\ Len(<<x>>) = 1 /\ DOMAIN <<x>> = {1} /\ <<x>>[1] = x /\ <<>> \in Seq(Nat) /\ DOMAIN <<>> = {}
  BY Singles, EmptySeq
<1>3. ConstantOp(x) \in Emits
  <2> DEFINE bs == <<x>>
             none == <<>>
  <2>1. ConstantOp(x) = [kind |-> "constant", top |-> x, bottoms |-> none, blobs |-> bs]
    BY DEF ConstantOp
  <2>2. bs \in Seq(Nat) /\ none \in Seq(Nat)
    BY <1>2
  <2> HIDE DEF bs, none
  <2> QED BY <2>1, <2>2 DEF Emits
<1>4. Advance(ConstantOp(x)) = 1
  <2> DEFINE op == ConstantOp(x)
  <2>1. op.kind = "constant"
    BY <1>1
  <2> HIDE DEF op
  <2>2. Advance(op) = 1
    BY <2>1 DEF Advance
  <2> QED BY <2>2 DEF op
<1>5. ToSet(<<>>) = {}
  BY <1>2 DEF ToSet
<1> QED BY <1>1, <1>2, <1>3, <1>4, <1>5

LEMMA OperationEmits == Operation \subseteq Emits /\ \A op \in Operation : op.kind # "constant"
<1>1. Weighted \cup Plain \subseteq Weighted \cup Plain \cup {"constant"}
  OBVIOUS
<1>2. "constant" \notin Weighted \cup Plain
  BY DEF Weighted, Plain
<1> QED BY <1>1, <1>2 DEF Operation, Emits

(* The constants first, then the operations of the graph.                  *)
LEMMA OpListShape ==
  ASSUME NEW g, Good(g), NEW order \in Orders(UsedConstants(g))
  PROVE  /\ Len(order) \in Nat /\ Len(g.ops) \in Nat /\ DOMAIN order = 1 .. Len(order) /\ DOMAIN g.ops = 1 .. Len(g.ops)
         /\ Lists(order, Nat, UsedConstants(g))
         /\ OpList(g, order) \in Seq(Emits)
         /\ DOMAIN OpList(g, order) = 1 .. Len(order) + Len(g.ops)
         /\ \A i \in 1 .. Len(order) : OpList(g, order)[i] = ConstantOp(order[i]) /\ order[i] \in UsedConstants(g)
         /\ \A i \in 1 .. Len(g.ops) : OpList(g, order)[Len(order) + i] = g.ops[i] /\ g.ops[i] \in Operation
<1>1. Lists(order, Nat, UsedConstants(g))
  BY UsedFinite, OrdersLists
<1>2. order \in Seq(Nat) /\ ToSet(order) = UsedConstants(g)
  BY <1>1 DEF Lists
<1>3. Len(order) \in Nat /\ DOMAIN order = 1 .. Len(order)
  BY <1>2, LenProperties
<1>4. g.ops \in Seq(Operation)
  BY Parts
<1>5. Len(g.ops) \in Nat /\ DOMAIN g.ops = 1 .. Len(g.ops) /\ \A i \in 1 .. Len(g.ops) : g.ops[i] \in Operation
  BY <1>4, LenProperties, ElementOfSeq
<1> DEFINE c == [i \in DOMAIN order |-> ConstantOp(order[i])]
           n == Len(order)
           m == Len(g.ops)
           ops == g.ops
<1>6. \A i \in 1 .. n : order[i] \in UsedConstants(g) /\ order[i] \in Nat
  <2>1. \A i \in DOMAIN order : order[i] \in ToSet(order)
    BY DEF ToSet
  <2> QED BY <1>2, <1>3, <2>1, UsedFinite
<1>7. c \in [1 .. n -> Emits] /\ \A i \in 1 .. n : c[i] = ConstantOp(order[i])
  BY <1>3, <1>6, ConstantEmits
<1>8. OpList(g, order) = c \o ops
  BY DEF OpList
<1> HIDE DEF c
<1>9. c \in Seq(Emits) /\ Len(c) = n
  <2>1. n \in Nat
    BY <1>3
  <2> HIDE DEF n
  <2>2. c \in Seq(Emits)
    BY <1>7, <2>1, SeqDef
  <2> QED BY <1>7, <2>1, <2>2, LenProperties
<1>10. ops \in Seq(Emits)
  <2>1. ops \in [1 .. m -> Emits] /\ m \in Nat
    <3>1. ops \in [1 .. m -> Operation] /\ m \in Nat
      BY <1>4, <1>5, LenProperties
    <3> QED BY <3>1, OperationEmits
  <2> HIDE DEF m, ops
  <2> QED BY <2>1, SeqDef
<1> HIDE DEF n, ops
<1>11. /\ c \o ops \in Seq(Emits) /\ Len(c \o ops) = n + Len(ops)
       /\ \A i \in 1 .. n + Len(ops) : (c \o ops)[i] = IF i <= n THEN c[i] ELSE ops[i - n]
  BY <1>9, <1>10, ConcatProperties
<1>12. Len(ops) = m /\ m \in Nat /\ n \in Nat /\ \A i \in 1 .. m : ops[i] \in Operation
  BY <1>3, <1>5 DEF n, ops
<1> HIDE DEF m
<1>13. DOMAIN (c \o ops) = 1 .. n + m
  BY <1>11, <1>12, LenProperties
<1>14. \A i \in 1 .. n : (c \o ops)[i] = c[i]
  BY <1>11, <1>12
<1>15. \A i \in 1 .. m : (c \o ops)[n + i] = ops[i]
  BY <1>11, <1>12
<1> QED BY <1>1, <1>3, <1>5, <1>6, <1>7, <1>8, <1>11, <1>12, <1>13, <1>14, <1>15 DEF n, m, ops

LEMMA OpListListed ==
  ASSUME NEW g, Good(g), NEW order \in Orders(UsedConstants(g))
  PROVE  Listed(g, OpList(g, order))
<1> DEFINE list == OpList(g, order)
           n == Len(order)
           m == Len(g.ops)
           ops == g.ops
           used == UsedConstants(g)
<1>1. /\ n \in Nat /\ m \in Nat /\ DOMAIN order = 1 .. n /\ DOMAIN ops = 1 .. m
      /\ Lists(order, Nat, used)
      /\ list \in Seq(Emits) /\ DOMAIN list = 1 .. n + m
      /\ \A i \in 1 .. n : list[i] = ConstantOp(order[i]) /\ order[i] \in used
      /\ \A i \in 1 .. m : list[n + i] = ops[i] /\ ops[i] \in Operation
  BY OpListShape
<1>2. /\ \A i \in DOMAIN ops : Fed(ops[i], g.constants)
      /\ ToSet(g.inputs) \cup g.constants \cup TopsOf(ops) = 1 .. New(g)
      /\ ToSet(g.inputs) \cap g.constants = {}
      /\ TopsOf(ops) \cap (ToSet(g.inputs) \cup g.constants) = {}
      /\ \A i, j \in DOMAIN ops : i < j => ops[i].top < ops[j].top
  BY DEF Good
<1>3. used \subseteq g.constants /\ used \subseteq Nat
      /\ \A i \in DOMAIN ops : \A x \in ToSet(ops[i].bottoms) : x \in g.constants => x \in used
  BY UsedFinite DEF UsedConstants, BottomsOf
<1>4. ToSet(order) = used /\ \A i, j \in 1 .. n : order[i] = order[j] => i = j
  BY <1>1 DEF Lists
<1>5. \A i \in DOMAIN ops : ops[i].top \in TopsOf(ops) /\ ops[i].top \in 1 .. New(g)
  BY <1>2 DEF TopsOf
<1> HIDE DEF list, n, m, ops, used
<1>6. \A i \in DOMAIN list : i \in 1 .. n \/ (i - n \in 1 .. m /\ i = n + (i - n))
  BY <1>1
<1>12. ASSUME NEW i \in 1 .. n
       PROVE  list[i] = ConstantOp(order[i]) /\ order[i] \in Nat /\ order[i] \in used /\ order[i] \in g.constants
              /\ list[i].top = order[i]
  <2>1. list[i] = ConstantOp(order[i]) /\ order[i] \in used
    BY <1>1
  <2>2. order[i] \in Nat /\ order[i] \in g.constants
    BY <1>3, <2>1
  <2>3. ConstantOp(order[i]).top = order[i]
    BY <2>2, ConstantEmits
  <2> QED BY <2>1, <2>2, <2>3
<1>7. TopsOf(list) = used \cup TopsOf(ops)
  <2>1. ASSUME NEW i \in DOMAIN list PROVE list[i].top \in used \cup TopsOf(ops)
    <3>1. CASE i \in 1 .. n
      BY <1>12, <3>1
    <3>2. CASE i - n \in 1 .. m /\ i = n + (i - n)
      BY <1>1, <1>5, <3>2
    <3> QED BY <1>6, <3>1, <3>2
  <2>2. ASSUME NEW x \in used PROVE x \in TopsOf(list)
    <3>1. PICK i \in 1 .. n : order[i] = x
      BY <1>1, <1>4 DEF ToSet
    <3>2. list[i].top = x /\ i \in DOMAIN list
      BY <1>1, <1>12, <3>1
    <3> QED BY <3>2 DEF TopsOf
  <2>3. ASSUME NEW x \in TopsOf(ops) PROVE x \in TopsOf(list)
    <3>1. PICK i \in 1 .. m : ops[i].top = x
      BY <1>1 DEF TopsOf
    <3>2. list[n + i].top = x /\ n + i \in DOMAIN list
      BY <1>1, <3>1
    <3> QED BY <3>2 DEF TopsOf
  <2> QED BY <2>1, <2>2, <2>3 DEF TopsOf
<1>8. \A i, j \in DOMAIN ops : ops[i].top = ops[j].top => i = j
  <2> SUFFICES ASSUME NEW i \in DOMAIN ops, NEW j \in DOMAIN ops, ops[i].top = ops[j].top, i # j PROVE FALSE
    OBVIOUS
  <2>1. i < j \/ j < i
    BY <1>1
  <2>2. ops[i].top \in Nat
    BY <1>5
  <2> QED BY <1>2, <2>1, <2>2
<1>9. \A i, j \in DOMAIN list : list[i].top = list[j].top => i = j
  <2> SUFFICES ASSUME NEW i \in DOMAIN list, NEW j \in DOMAIN list, list[i].top = list[j].top PROVE i = j
    OBVIOUS
  <2>1. \A k \in 1 .. n : list[k].top = order[k] /\ list[k].top \in g.constants
    BY <1>12
  <2>2. \A k \in 1 .. m : list[n + k].top = ops[k].top /\ list[n + k].top \in TopsOf(ops)
    BY <1>1, <1>5
  <2>3. CASE i \in 1 .. n /\ j \in 1 .. n
    BY <1>4, <2>1, <2>3
  <2>4. CASE i \in 1 .. n /\ j \notin 1 .. n
    BY <1>2, <1>6, <2>1, <2>2, <2>4
  <2>5. CASE i \notin 1 .. n /\ j \in 1 .. n
    BY <1>2, <1>6, <2>1, <2>2, <2>5
  <2>6. CASE i \notin 1 .. n /\ j \notin 1 .. n
    <3>1. i - n \in 1 .. m /\ j - n \in 1 .. m /\ i = n + (i - n) /\ j = n + (j - n)
      BY <1>6, <2>6
    <3>2. ops[i - n].top = ops[j - n].top
      BY <2>2, <3>1
    <3>3. i - n = j - n
      BY <1>1, <1>8, <3>1, <3>2
    <3> QED BY <3>1, <3>3
  <2> QED BY <2>3, <2>4, <2>5, <2>6
<1>10. ASSUME NEW i \in DOMAIN list
       PROVE  /\ Len(list[i].blobs) = Advance(list[i])
              /\ list[i].kind \in {"conv", "deconv"} => Len(list[i].blobs) \in 1 .. 2
              /\ \A k \in DOMAIN list[i].blobs : list[i].blobs[k] \in g.constants
              /\ list[i].kind = "constant" => list[i].blobs = <<list[i].top>>
              /\ list[i].kind # "constant" => list[i] \in ToSet(ops)
              /\ \A x \in ToSet(list[i].bottoms) : x \in TopsOf(list) => \E j \in 1 .. i - 1 : list[j].top = x
  <2>1. CASE i \in 1 .. n
    <3> DEFINE op == ConstantOp(order[i])
    <3>1. list[i] = op /\ order[i] \in g.constants /\ order[i] \in Nat
      BY <1>12, <2>1
    <3>2. /\ op.kind = "constant" /\ op.blobs = <<op.top>> /\ Len(op.blobs) = Advance(op)
          /\ DOMAIN op.blobs = {1} /\ op.blobs[1] = order[i]
          /\ ToSet(op.bottoms) = {}
      BY <3>1, ConstantEmits
    <3> HIDE DEF op
    <3> QED BY <3>1, <3>2
  <2>2. CASE i - n \in 1 .. m /\ i = n + (i - n)
    <3> DEFINE h == i - n
    <3>1. h \in 1 .. m /\ list[i] = ops[h] /\ ops[h] \in Operation /\ h \in DOMAIN ops
      BY <1>1, <2>2
    <3>2. Fed(ops[h], g.constants)
      BY <1>2, <3>1
    <3>3. list[i].kind # "constant" /\ list[i] \in ToSet(ops)
      BY <3>1, OperationEmits DEF ToSet
    <3>4. /\ Len(list[i].blobs) = Advance(list[i])
          /\ list[i].kind \in {"conv", "deconv"} => Len(list[i].blobs) \in 1 .. 2
          /\ \A k \in DOMAIN list[i].blobs : list[i].blobs[k] \in g.constants
      BY <3>1, <3>2 DEF Fed
    <3>5. ASSUME NEW x \in ToSet(ops[h].bottoms), x \in TopsOf(list) PROVE \E j \in 1 .. i - 1 : list[j].top = x
      <4>1. x \in 1 .. ops[h].top - 1 /\ ops[h].top \in Nat
        BY <1>5, <3>1, <3>2 DEF Fed, ToSet
      <4>2. CASE x \in used
        <5>1. PICK j \in 1 .. n : order[j] = x
          BY <1>1, <1>4, <4>2 DEF ToSet
        <5>2. list[j].top = x
          BY <1>12, <5>1
        <5>3. j \in 1 .. i - 1
          BY <1>1, <2>2
        <5> QED BY <5>2, <5>3
      <4>3. CASE x \in TopsOf(ops)
        <5>1. PICK j \in 1 .. m : ops[j].top = x
          BY <1>1, <4>3 DEF TopsOf
        <5>2. j < h
          <6> SUFFICES ASSUME ~ (j < h) PROVE FALSE
            OBVIOUS
          <6>1. j = h \/ h < j
            BY <3>1
          <6>2. ops[j].top < ops[h].top
            BY <4>1, <5>1
          <6>3. ~ (ops[h].top < ops[j].top)
            BY <4>1, <5>1
          <6>4. h < j => ops[h].top < ops[j].top
            BY <1>1, <1>2, <3>1
          <6>5. j # h
            BY <4>1, <6>2
          <6> QED BY <6>1, <6>3, <6>4, <6>5
        <5>3. list[n + j].top = x /\ n + j \in 1 .. i - 1
          BY <1>1, <2>2, <5>1, <5>2
        <5> QED BY <5>3
      <4> QED BY <1>7, <3>5, <4>2, <4>3
    <3> HIDE DEF h
    <3> QED BY <3>1, <3>3, <3>4, <3>5
  <2> QED BY <1>6, <2>1, <2>2
<1>11. Listed(g, list)
  BY <1>1, <1>9, <1>10 DEF Listed, ops
<1> QED BY <1>11 DEF list

(* The tensor of the last operation is read by none.                       *)
LEMMA SomeResult ==
  ASSUME NEW g, Good(g), g.ops # <<>>, NEW order \in Orders(UsedConstants(g))
  PROVE  \E x \in TopsOf(OpList(g, order)) : x \notin BottomsOf(OpList(g, order))
<1> DEFINE list == OpList(g, order)
           n == Len(order)
           m == Len(g.ops)
           ops == g.ops
<1>1. /\ n \in Nat /\ m \in Nat /\ DOMAIN ops = 1 .. m
      /\ DOMAIN list = 1 .. n + m
      /\ \A i \in 1 .. n : list[i] = ConstantOp(order[i]) /\ order[i] \in UsedConstants(g)
      /\ \A i \in 1 .. m : list[n + i] = ops[i] /\ ops[i] \in Operation
  BY OpListShape
<1>2. m # 0
  <2>1. ops \in Seq(Operation)
    BY Parts
  <2> QED BY <2>1, EmptySeq
<1>3. /\ \A i \in DOMAIN ops : Fed(ops[i], g.constants)
      /\ \A i, j \in DOMAIN ops : i < j => ops[i].top < ops[j].top
  BY DEF Good
<1>4. UsedConstants(g) \subseteq Nat
  BY UsedFinite
<1> HIDE DEF list, n, m, ops
<1>5. list[n + m].top = ops[m].top /\ n + m \in DOMAIN list /\ m \in 1 .. m /\ ops[m].top \in Nat
  BY <1>1, <1>2 DEF Operation
<1>6. ASSUME NEW i \in DOMAIN list PROVE ops[m].top \notin ToSet(list[i].bottoms)
  <2>1. i \in 1 .. n \/ (i - n \in 1 .. m /\ i = n + (i - n))
    BY <1>1
  <2>2. CASE i \in 1 .. n
    <3>1. list[i] = ConstantOp(order[i]) /\ order[i] \in Nat
      BY <1>1, <1>4, <2>2
    <3> QED BY <3>1, ConstantEmits
  <2>3. CASE i - n \in 1 .. m /\ i = n + (i - n)
    <3> DEFINE h == i - n
    <3>1. h \in 1 .. m /\ list[i] = ops[h] /\ ops[h] \in Operation
      BY <1>1, <2>3
    <3> HIDE DEF h
    <3>2. Fed(ops[h], g.constants) /\ ops[h].top \in Nat
      BY <1>1, <1>3, <3>1 DEF Operation
    <3>3. h = m \/ ops[h].top < ops[m].top
      <4>1. h \in DOMAIN ops /\ m \in DOMAIN ops /\ (h = m \/ h < m)
        BY <1>1, <1>5, <3>1
      <4> QED BY <1>3, <4>1
    <3>4. \A x \in ToSet(ops[h].bottoms) : x \in 1 .. ops[h].top - 1
      BY <3>2 DEF Fed, ToSet
    <3> DEFINE t == ops[m].top
               u == ops[h].top
    <3>6. t \in Nat /\ u \in Nat /\ (t = u \/ u < t)
      BY <1>5, <3>2, <3>3
    <3> HIDE DEF t, u
    <3>7. t \notin 1 .. u - 1
      BY <3>6
    <3>5. ops[m].top \notin 1 .. ops[h].top - 1
      BY <3>7 DEF t, u
    <3> QED BY <3>1, <3>4, <3>5
  <2> QED BY <2>1, <2>2, <2>3
<1>7. ops[m].top \in TopsOf(list) /\ ops[m].top \notin BottomsOf(list)
  BY <1>5, <1>6 DEF TopsOf, BottomsOf
<1> QED BY <1>7 DEF list

-----------------------------------------------------------------------------
(* Parameters and results.                                                 *)

LEMMA ListedBottoms ==
  ASSUME NEW g, NEW list, Listed(g, list)
  PROVE  /\ [i \in DOMAIN list |-> list[i].bottoms] \in Seq(Seq(Nat))
         /\ [i \in DOMAIN list |-> list[i].blobs] \in Seq(Seq(Nat))
         /\ [i \in DOMAIN list |-> list[i].top] \in Seq(Nat)
         /\ DOMAIN list = 1 .. Len(list) /\ Len(list) \in Nat
         /\ \A i \in DOMAIN list : list[i] \in Emits
<1>1. list \in Seq(Emits)
  BY DEF Listed
<1>2. DOMAIN list = 1 .. Len(list) /\ Len(list) \in Nat /\ \A i \in DOMAIN list : list[i] \in Emits
  BY <1>1, LenProperties, ElementOfSeq
<1>3. \A i \in DOMAIN list : list[i].bottoms \in Seq(Nat) /\ list[i].blobs \in Seq(Nat) /\ list[i].top \in Nat
  BY <1>2 DEF Emits
<1> DEFINE n == Len(list)
<1>4. n \in Nat /\ DOMAIN list = 1 .. n
  BY <1>2
<1> HIDE DEF n
<1>5. [i \in DOMAIN list |-> list[i].bottoms] \in [1 .. n -> Seq(Nat)]
  BY <1>3, <1>4
<1>6. [i \in DOMAIN list |-> list[i].blobs] \in [1 .. n -> Seq(Nat)]
  BY <1>3, <1>4
<1>7. [i \in DOMAIN list |-> list[i].top] \in [1 .. n -> Nat]
  BY <1>3, <1>4
<1>8. /\ [i \in DOMAIN list |-> list[i].bottoms] \in Seq(Seq(Nat))
      /\ [i \in DOMAIN list |-> list[i].blobs] \in Seq(Seq(Nat))
      /\ [i \in DOMAIN list |-> list[i].top] \in Seq(Nat)
  BY <1>4, <1>5, <1>6, <1>7, SeqDef
<1> QED BY <1>2, <1>8

(* The parameters are the tensors that are read and that nothing makes.    *)
LEMMA InputsListed ==
  ASSUME NEW g, NEW list, Listed(g, list)
  PROVE  Lists(InputNames(list), Nat, BottomsOf(list) \ TopsOf(list))
<1> DEFINE lb == [i \in DOMAIN list |-> list[i].bottoms]
           read == FlattenSeq(lb)
           P == {i \in DOMAIN read : read[i] \notin TopsOf(list) /\ \A j \in 1 .. i - 1 : read[j] # read[i]}
<1>1. lb \in Seq(Seq(Nat))
  BY ListedBottoms
<1>2. InputNames(list) = At(read, P)
  BY DEF InputNames
<1>3. UNION {ToSet(lb[i]) : i \in DOMAIN lb} = BottomsOf(list)
  BY DEF BottomsOf
<1> HIDE DEF lb
<1>4. read \in Seq(Nat) /\ ToSet(read) = BottomsOf(list)
  BY <1>1, <1>3, JoinedMembers
<1> HIDE DEF read
<1>5. DOMAIN read = 1 .. Len(read) /\ Len(read) \in Nat
  BY <1>4, LenProperties
<1>6. \A i, j \in P : read[i] = read[j] => i = j
  <2> SUFFICES ASSUME NEW i \in P, NEW j \in P, read[i] = read[j], i # j PROVE FALSE
    OBVIOUS
  <2>1. i \in Nat /\ j \in Nat /\ i >= 1 /\ j >= 1
    BY <1>5
  <2>2. i \in 1 .. j - 1 \/ j \in 1 .. i - 1
    BY <2>1
  <2> QED BY <2>2
<1>7. {read[i] : i \in P} = BottomsOf(list) \ TopsOf(list)
  <2>1. \A i \in P : read[i] \in BottomsOf(list) \ TopsOf(list)
    BY <1>4 DEF ToSet
  <2>2. ASSUME NEW x \in BottomsOf(list) \ TopsOf(list) PROVE \E i \in P : read[i] = x
    <3> DEFINE T == {i \in DOMAIN read : read[i] = x}
    <3>1. T \subseteq Nat /\ T # {}
      BY <1>4, <1>5 DEF ToSet
    <3> HIDE DEF T
    <3>2. PICK i \in T : \A j \in T : i <= j
      BY <3>1, LeastOf
    <3>3. i \in DOMAIN read /\ read[i] = x
      BY <3>2 DEF T
    <3>4. ASSUME NEW j \in 1 .. i - 1 PROVE read[j] # read[i]
      <4>1. j \in DOMAIN read /\ ~ (i <= j)
        BY <1>5, <3>3
      <4>2. j \notin T
        BY <3>2, <4>1
      <4> QED BY <3>3, <4>1, <4>2 DEF T
    <3>5. i \in P
      BY <3>3, <3>4
    <3> QED BY <3>3, <3>5
  <2> QED BY <2>1, <2>2
<1>8. P \subseteq DOMAIN read
  OBVIOUS
<1> HIDE DEF P
<1>9. Lists(At(read, P), Nat, {read[i] : i \in P})
  BY <1>4, <1>6, <1>8, AtLists
<1> QED BY <1>2, <1>7, <1>9

(* The results are the tensors that are made and that nothing reads.       *)
LEMMA OutputsListed ==
  ASSUME NEW g, NEW list, Listed(g, list)
  PROVE  Lists(OutputNames(list), Nat, TopsOf(list) \ BottomsOf(list))
<1> DEFINE tops == [i \in DOMAIN list |-> list[i].top]
           P == {i \in DOMAIN list : list[i].top \notin BottomsOf(list)}
<1>1. tops \in Seq(Nat)
  BY ListedBottoms
<1>2. OutputNames(list) = At(tops, P)
  BY DEF OutputNames
<1>3. DOMAIN tops = DOMAIN list /\ \A i \in DOMAIN list : tops[i] = list[i].top
  OBVIOUS
<1> HIDE DEF tops
<1>4. P \subseteq DOMAIN tops /\ \A i, j \in P : tops[i] = tops[j] => i = j
  BY <1>3 DEF Listed
<1>5. {tops[i] : i \in P} = TopsOf(list) \ BottomsOf(list)
  BY <1>3 DEF TopsOf
<1> HIDE DEF P
<1>6. Lists(At(tops, P), Nat, {tops[i] : i \in P})
  BY <1>1, <1>4, AtLists
<1> QED BY <1>2, <1>5, <1>6

-----------------------------------------------------------------------------
(* The lines of one operation.                                             *)

Tags == {"f16", "t", "W", "b", "deconv_out", "linear", "gamma"}
LineSet == [defines : Tags \X Nat, reads : SUBSET (Tags \X Nat), offset : Nat]

LEMMA LineMeans ==
  ASSUME NEW d \in Tags \X Nat, NEW r \in SUBSET (Tags \X Nat)
  PROVE  Line(d, r) \in LineSet /\ Line(d, r).defines = d /\ Line(d, r).reads = r /\ Line(d, r).offset = 0
BY DEF Line, LineSet

LEMMA WeightLineMeans ==
  ASSUME NEW d \in Tags \X Nat, NEW o \in Nat
  PROVE  /\ WeightLine(d, o) \in LineSet
         /\ WeightLine(d, o).defines = d /\ WeightLine(d, o).reads = {} /\ WeightLine(d, o).offset = o
BY DEF WeightLine, LineSet

LEMMA ScopedLines ==
  ASSUME NEW A, NEW a \in LineSet, NEW b \in LineSet, NEW c \in LineSet, NEW d \in LineSet
  PROVE  /\ a.defines \notin A /\ a.reads \subseteq A => Scoped(A, <<a>>)
         /\ /\ a.defines \notin A /\ a.reads \subseteq A
            /\ b.defines \notin A \cup {a.defines} /\ b.reads \subseteq A \cup {a.defines}
            => Scoped(A, <<a, b>>)
         /\ /\ a.defines \notin A /\ a.reads \subseteq A
            /\ b.defines \notin A \cup {a.defines} /\ b.reads \subseteq A \cup {a.defines}
            /\ c.defines \notin A \cup {a.defines, b.defines} /\ c.reads \subseteq A \cup {a.defines, b.defines}
            => Scoped(A, <<a, b, c>>)
         /\ /\ a.defines \notin A /\ a.reads \subseteq A
            /\ b.defines \notin A \cup {a.defines} /\ b.reads \subseteq A \cup {a.defines}
            /\ c.defines \notin A \cup {a.defines, b.defines} /\ c.reads \subseteq A \cup {a.defines, b.defines}
            /\ d.defines \notin A \cup {a.defines, b.defines, c.defines}
            /\ d.reads \subseteq A \cup {a.defines, b.defines, c.defines}
            => Scoped(A, <<a, b, c, d>>)
<1>0. 1 .. 1 - 1 = {} /\ 1 .. 2 - 1 = {1} /\ 1 .. 3 - 1 = {1, 2} /\ 1 .. 4 - 1 = {1, 2, 3}
  OBVIOUS
<1>1. ASSUME NEW s, DOMAIN s = {1}, s[1] = a, a.defines \notin A, a.reads \subseteq A PROVE Scoped(A, s)
  BY <1>0, <1>1 DEF Scoped, Above
<1>2. ASSUME NEW s, DOMAIN s = {1, 2}, s[1] = a, s[2] = b, a.defines \notin A, a.reads \subseteq A,
             b.defines \notin A \cup {a.defines}, b.reads \subseteq A \cup {a.defines}
      PROVE  Scoped(A, s)
  <2>1. Above(A, s, 1) = A /\ Above(A, s, 2) = A \cup {a.defines}
    BY <1>0, <1>2 DEF Above
  <2> QED BY <1>2, <2>1 DEF Scoped
<1>3. ASSUME NEW s, DOMAIN s = {1, 2, 3}, s[1] = a, s[2] = b, s[3] = c, a.defines \notin A, a.reads \subseteq A,
             b.defines \notin A \cup {a.defines}, b.reads \subseteq A \cup {a.defines},
             c.defines \notin A \cup {a.defines, b.defines}, c.reads \subseteq A \cup {a.defines, b.defines}
      PROVE  Scoped(A, s)
  <2>1. Above(A, s, 1) = A /\ Above(A, s, 2) = A \cup {a.defines} /\ Above(A, s, 3) = A \cup {a.defines, b.defines}
    BY <1>0, <1>3 DEF Above
  <2> QED BY <1>3, <2>1 DEF Scoped
<1>4. ASSUME NEW s, DOMAIN s = {1, 2, 3, 4}, s[1] = a, s[2] = b, s[3] = c, s[4] = d, a.defines \notin A, a.reads \subseteq A,
             b.defines \notin A \cup {a.defines}, b.reads \subseteq A \cup {a.defines},
             c.defines \notin A \cup {a.defines, b.defines}, c.reads \subseteq A \cup {a.defines, b.defines},
             d.defines \notin A \cup {a.defines, b.defines, c.defines},
             d.reads \subseteq A \cup {a.defines, b.defines, c.defines}
      PROVE  Scoped(A, s)
  <2>1. Above(A, s, 1) = A /\ Above(A, s, 2) = A \cup {a.defines} /\ Above(A, s, 3) = A \cup {a.defines, b.defines}
        /\ Above(A, s, 4) = A \cup {a.defines, b.defines, c.defines}
    BY <1>0, <1>4 DEF Above
  <2> QED BY <1>4, <2>1 DEF Scoped
<1>5. /\ DOMAIN <<a>> = {1} /\ <<a>>[1] = a
      /\ DOMAIN <<a, b>> = {1, 2} /\ <<a, b>>[1] = a /\ <<a, b>>[2] = b
      /\ DOMAIN <<a, b, c>> = {1, 2, 3} /\ <<a, b, c>>[1] = a /\ <<a, b, c>>[2] = b /\ <<a, b, c>>[3] = c
      /\ DOMAIN <<a, b, c, d>> = {1, 2, 3, 4} /\ <<a, b, c, d>>[1] = a /\ <<a, b, c, d>>[2] = b
      /\ <<a, b, c, d>>[3] = c /\ <<a, b, c, d>>[4] = d
  OBVIOUS
<1> QED BY <1>1, <1>2, <1>3, <1>4, <1>5

(* The names an operation's lines may define.                              *)
Own(op) == (Tags \ {"t"}) \X {op.top}

(* A line that refers to a weight, and which of them it is.                *)
Refers(op, at, l) ==
  \/ op.kind = "constant" /\ l.defines = F16(op.top) /\ 1 \in DOMAIN at /\ l.offset = at[1]
  \/ op.kind # "constant" /\ l.defines \in {<<"W", op.top>>, <<"gamma", op.top>>} /\ 1 \in DOMAIN at /\ l.offset = at[1]
  \/ op.kind # "constant" /\ l.defines = <<"b", op.top>> /\ 2 \in DOMAIN at /\ l.offset = at[2]

Writes(op, at, s) ==
  /\ s \in Seq(LineSet)
  /\ \A A : A \cap Own(op) = {} /\ Reads(op) \subseteq A => Scoped(A, s)
  /\ F16(op.top) \in Defs(s) /\ Defs(s) \subseteq Own(op)
  /\ \A l \in ToSet(s) : l.offset # 0 => Refers(op, at, l)

LEMMA NamesDiffer ==
  ASSUME NEW op, op.top \in Nat
  PROVE  /\ F16(op.top) \in Own(op) /\ <<"W", op.top>> \in Own(op) /\ <<"b", op.top>> \in Own(op)
         /\ <<"deconv_out", op.top>> \in Own(op) /\ <<"linear", op.top>> \in Own(op) /\ <<"gamma", op.top>> \in Own(op)
         /\ Own(op) \subseteq Tags \X Nat
         /\ F16(op.top) # <<"W", op.top>> /\ F16(op.top) # <<"b", op.top>> /\ F16(op.top) # <<"deconv_out", op.top>>
         /\ F16(op.top) # <<"linear", op.top>> /\ F16(op.top) # <<"gamma", op.top>>
         /\ <<"W", op.top>> # <<"b", op.top>> /\ <<"W", op.top>> # <<"deconv_out", op.top>>
         /\ <<"b", op.top>> # <<"deconv_out", op.top>>
BY DEF Own, Tags, F16

LEMMA ReadsTyped ==
  ASSUME NEW op \in Emits
  PROVE  Reads(op) \subseteq Tags \X Nat /\ op.top \in Nat
<1>1. op.bottoms \in Seq(Nat) /\ op.top \in Nat
  BY DEF Emits
<1>2. \A i \in DOMAIN op.bottoms : op.bottoms[i] \in Nat
  BY <1>1, LenProperties, ElementOfSeq
<1> QED BY <1>1, <1>2 DEF Reads, F16, Tags

LEMMA ConstantWrites ==
  ASSUME NEW op \in Emits, NEW at, op.kind = "constant", 1 \in DOMAIN at, at[1] \in Nat
  PROVE  Writes(op, at, <<WeightLine(F16(op.top), at[1])>>)
<1> DEFINE a == WeightLine(F16(op.top), at[1])
           s == <<a>>
<1>1. op.top \in Nat
  BY ReadsTyped
<1>2. F16(op.top) \in Own(op) /\ F16(op.top) \in Tags \X Nat
  BY <1>1, NamesDiffer
<1>3. a \in LineSet /\ a.defines = F16(op.top) /\ a.reads = {} /\ a.offset = at[1]
  BY <1>2, LineMeans, WeightLineMeans
<1> HIDE DEF a
<1>4. s \in Seq(LineSet) /\ DOMAIN s = {1} /\ s[1] = a
  BY <1>3, Singles
<1>5. \A A : a.defines \notin A /\ a.reads \subseteq A => Scoped(A, s)
  BY <1>3, ScopedLines
<1> HIDE DEF s
<1>6. ToSet(s) = {a} /\ Defs(s) = {F16(op.top)}
  BY <1>3, <1>4 DEF ToSet, Defs
<1>7. Refers(op, at, a)
  BY <1>3 DEF Refers
<1>8. Writes(op, at, s)
  BY <1>2, <1>3, <1>4, <1>5, <1>6, <1>7 DEF Writes
<1> QED BY <1>8 DEF s, a

LEMMA PlainWrites ==
  ASSUME NEW op \in Emits, NEW at
  PROVE  Writes(op, at, PlainLines(op))
<1> DEFINE a == Line(F16(op.top), Reads(op))
           s == <<a>>
<1>1. op.top \in Nat /\ Reads(op) \in SUBSET (Tags \X Nat)
  BY ReadsTyped
<1>2. F16(op.top) \in Own(op) /\ F16(op.top) \in Tags \X Nat
  BY <1>1, NamesDiffer
<1>3. a \in LineSet /\ a.defines = F16(op.top) /\ a.reads = Reads(op) /\ a.offset = 0
  BY <1>1, <1>2, LineMeans, WeightLineMeans
<1> HIDE DEF a
<1>4. s \in Seq(LineSet) /\ DOMAIN s = {1} /\ s[1] = a
  BY <1>3, Singles
<1>5. \A A : a.defines \notin A /\ a.reads \subseteq A => Scoped(A, s)
  BY <1>3, ScopedLines
<1> HIDE DEF s
<1>6. ToSet(s) = {a} /\ Defs(s) = {F16(op.top)}
  BY <1>3, <1>4 DEF ToSet, Defs
<1>7. Writes(op, at, s)
  BY <1>2, <1>3, <1>4, <1>5, <1>6 DEF Writes
<1> QED BY <1>7 DEF s, a, PlainLines

LEMMA HardWrites ==
  ASSUME NEW op \in Emits, NEW at
  PROVE  Writes(op, at, HardLines(op))
<1> DEFINE p == <<"linear", op.top>>
           q == F16(op.top)
           a == Line(p, Reads(op))
           b == Line(q, {p})
           s == <<a, b>>
<1>1. op.top \in Nat /\ Reads(op) \in SUBSET (Tags \X Nat)
  BY ReadsTyped
<1>2. p \in Own(op) /\ q \in Own(op) /\ p # q /\ Own(op) \subseteq Tags \X Nat
  BY <1>1, NamesDiffer
<1> HIDE DEF p, q
<1>3. /\ a \in LineSet /\ a.defines = p /\ a.reads = Reads(op) /\ a.offset = 0
      /\ b \in LineSet /\ b.defines = q /\ b.reads = {p} /\ b.offset = 0
  BY <1>1, <1>2, LineMeans, WeightLineMeans
<1> HIDE DEF a, b
<1>4. s \in Seq(LineSet) /\ DOMAIN s = {1, 2} /\ s[1] = a /\ s[2] = b
  BY <1>3, Singles
<1>5. ASSUME NEW A, A \cap Own(op) = {}, Reads(op) \subseteq A PROVE Scoped(A, s)
  <2>1. /\ a.defines \notin A /\ a.reads \subseteq A
        /\ b.defines \notin A \cup {a.defines} /\ b.reads \subseteq A \cup {a.defines}
    BY <1>2, <1>3, <1>5
  <2> QED BY <1>3, <2>1, ScopedLines
<1> HIDE DEF s
<1>6. ToSet(s) = {a, b} /\ Defs(s) = {p, q}
  BY <1>3, <1>4 DEF ToSet, Defs
<1>7. Writes(op, at, s)
  BY <1>2, <1>3, <1>4, <1>5, <1>6 DEF Writes, q
<1> QED BY <1>7 DEF s, a, b, p, q, HardLines

LEMMA NormWrites ==
  ASSUME NEW op \in Emits, NEW at, op.kind # "constant", 1 \in DOMAIN at, at[1] \in Nat
  PROVE  Writes(op, at, NormLines(op, at))
<1> DEFINE p == <<"gamma", op.top>>
           q == F16(op.top)
           a == WeightLine(p, at[1])
           b == Line(q, Reads(op) \cup {p})
           s == <<a, b>>
<1>1. op.top \in Nat /\ Reads(op) \in SUBSET (Tags \X Nat)
  BY ReadsTyped
<1>2. p \in Own(op) /\ q \in Own(op) /\ p # q /\ Own(op) \subseteq Tags \X Nat
  BY <1>1, NamesDiffer
<1> HIDE DEF p, q
<1>3. /\ a \in LineSet /\ a.defines = p /\ a.reads = {} /\ a.offset = at[1]
      /\ b \in LineSet /\ b.defines = q /\ b.reads = Reads(op) \cup {p} /\ b.offset = 0
  BY <1>1, <1>2, LineMeans, WeightLineMeans
<1> HIDE DEF a, b
<1>4. s \in Seq(LineSet) /\ DOMAIN s = {1, 2} /\ s[1] = a /\ s[2] = b
  BY <1>3, Singles
<1>5. ASSUME NEW A, A \cap Own(op) = {}, Reads(op) \subseteq A PROVE Scoped(A, s)
  <2>1. /\ a.defines \notin A /\ a.reads \subseteq A
        /\ b.defines \notin A \cup {a.defines} /\ b.reads \subseteq A \cup {a.defines}
    BY <1>2, <1>3, <1>5
  <2> QED BY <1>3, <2>1, ScopedLines
<1> HIDE DEF s
<1>6. ToSet(s) = {a, b} /\ Defs(s) = {p, q}
  BY <1>3, <1>4 DEF ToSet, Defs
<1>7. Refers(op, at, a)
  BY <1>3 DEF Refers, p
<1>8. Writes(op, at, s)
  BY <1>2, <1>3, <1>4, <1>5, <1>6, <1>7 DEF Writes, q
<1> QED BY <1>8 DEF s, a, b, p, q, NormLines

LEMMA ConvWrites ==
  ASSUME NEW op \in Emits, NEW at, op.kind # "constant",
         Len(op.blobs) \in 1 .. 2, DOMAIN at = 1 .. Len(op.blobs), \A k \in DOMAIN at : at[k] \in Nat
  PROVE  Writes(op, at, ConvLines(op, at))
<1> DEFINE w == <<"W", op.top>>
           p == <<"b", op.top>>
           q == F16(op.top)
<1>1. op.top \in Nat /\ Reads(op) \in SUBSET (Tags \X Nat)
  BY ReadsTyped
<1>2. w \in Own(op) /\ p \in Own(op) /\ q \in Own(op) /\ p # q /\ p # w /\ q # w /\ Own(op) \subseteq Tags \X Nat
  BY <1>1, NamesDiffer
<1>3. CASE Len(op.blobs) = 1
  <2> DEFINE a == WeightLine(w, at[1])
             b == Line(q, Reads(op) \cup {w} \cup {})
             s == <<a, b>>
  <2>1. 1 \in DOMAIN at /\ at[1] \in Nat
    BY <1>3
  <2>2. ConvLines(op, at) = s
    BY <1>3 DEF ConvLines
  <2> HIDE DEF p, q, w
  <2>3. /\ a \in LineSet /\ a.defines = w /\ a.reads = {} /\ a.offset = at[1]
        /\ b \in LineSet /\ b.defines = q /\ b.reads = Reads(op) \cup {w} /\ b.offset = 0
    <3>1. Reads(op) \cup {w} \cup {} = Reads(op) \cup {w} /\ Reads(op) \cup {w} \in SUBSET (Tags \X Nat)
      BY <1>1, <1>2
    <3> QED BY <1>1, <1>2, <2>1, <3>1, LineMeans, WeightLineMeans
  <2> HIDE DEF a, b
  <2>4. s \in Seq(LineSet) /\ DOMAIN s = {1, 2} /\ s[1] = a /\ s[2] = b
    BY <2>3, Singles
  <2>5. ASSUME NEW A, A \cap Own(op) = {}, Reads(op) \subseteq A PROVE Scoped(A, s)
    <3>1. /\ a.defines \notin A /\ a.reads \subseteq A
          /\ b.defines \notin A \cup {a.defines} /\ b.reads \subseteq A \cup {a.defines}
      BY <1>2, <2>3, <2>5
    <3> QED BY <2>3, <3>1, ScopedLines
  <2> HIDE DEF s
  <2>6. ToSet(s) = {a, b} /\ Defs(s) = {w, q}
    BY <2>3, <2>4 DEF ToSet, Defs
  <2>7. Refers(op, at, a)
    BY <2>1, <2>3 DEF Refers, w
  <2>8. Writes(op, at, s)
    BY <1>2, <2>3, <2>4, <2>5, <2>6, <2>7 DEF Writes, q
  <2> QED BY <2>2, <2>8
<1>4. CASE Len(op.blobs) = 2
  <2> DEFINE a == WeightLine(w, at[1])
             b == WeightLine(p, at[2])
             c == Line(q, Reads(op) \cup {w} \cup {p})
             s == <<a, b, c>>
  <2>1. 1 \in DOMAIN at /\ at[1] \in Nat /\ 2 \in DOMAIN at /\ at[2] \in Nat
    BY <1>4
  <2>2. ConvLines(op, at) = s
    BY <1>4 DEF ConvLines
  <2> HIDE DEF p, q, w
  <2>3. /\ a \in LineSet /\ a.defines = w /\ a.reads = {} /\ a.offset = at[1]
        /\ b \in LineSet /\ b.defines = p /\ b.reads = {} /\ b.offset = at[2]
        /\ c \in LineSet /\ c.defines = q /\ c.reads = Reads(op) \cup {w} \cup {p} /\ c.offset = 0
    <3>1. Reads(op) \cup {w} \cup {p} \in SUBSET (Tags \X Nat)
      BY <1>1, <1>2
    <3> QED BY <1>1, <1>2, <2>1, <3>1, LineMeans, WeightLineMeans
  <2> HIDE DEF a, b, c
  <2>4. s \in Seq(LineSet) /\ DOMAIN s = {1, 2, 3} /\ s[1] = a /\ s[2] = b /\ s[3] = c
    BY <2>3, Singles
  <2>5. ASSUME NEW A, A \cap Own(op) = {}, Reads(op) \subseteq A PROVE Scoped(A, s)
    <3>1. /\ a.defines \notin A /\ a.reads \subseteq A
          /\ b.defines \notin A \cup {a.defines} /\ b.reads \subseteq A \cup {a.defines}
          /\ c.defines \notin A \cup {a.defines, b.defines} /\ c.reads \subseteq A \cup {a.defines, b.defines}
      BY <1>2, <2>3, <2>5
    <3> QED BY <2>3, <3>1, ScopedLines
  <2> HIDE DEF s
  <2>6. ToSet(s) = {a, b, c} /\ Defs(s) = {w, p, q}
    BY <2>3, <2>4 DEF ToSet, Defs
  <2>7. Refers(op, at, a) /\ Refers(op, at, b)
    BY <2>1, <2>3 DEF Refers, w, p
  <2>8. Writes(op, at, s)
    BY <1>2, <2>3, <2>4, <2>5, <2>6, <2>7 DEF Writes, q
  <2> QED BY <2>2, <2>8
<1> QED BY <1>3, <1>4

LEMMA DeconvWrites ==
  ASSUME NEW op \in Emits, NEW at, op.kind # "constant",
         Len(op.blobs) \in 1 .. 2, DOMAIN at = 1 .. Len(op.blobs), \A k \in DOMAIN at : at[k] \in Nat
  PROVE  Writes(op, at, DeconvLines(op, at))
<1> DEFINE w == <<"W", op.top>>
           p == <<"b", op.top>>
           q == F16(op.top)
           v == <<"deconv_out", op.top>>
<1>1. op.top \in Nat /\ Reads(op) \in SUBSET (Tags \X Nat)
  BY ReadsTyped
<1>2. /\ w \in Own(op) /\ p \in Own(op) /\ q \in Own(op) /\ v \in Own(op) /\ Own(op) \subseteq Tags \X Nat
      /\ p # q /\ p # w /\ q # w /\ v # p /\ v # q /\ v # w
  BY <1>1, NamesDiffer
<1>3. CASE Len(op.blobs) = 1
  <2> DEFINE a == WeightLine(w, at[1])
             b == Line(q, Reads(op) \cup {w})
             s == <<a, b>>
  <2>1. 1 \in DOMAIN at /\ at[1] \in Nat
    BY <1>3
  <2>2. DeconvLines(op, at) = s
    BY <1>3 DEF DeconvLines
  <2> HIDE DEF p, q, w, v
  <2>3. /\ a \in LineSet /\ a.defines = w /\ a.reads = {} /\ a.offset = at[1]
        /\ b \in LineSet /\ b.defines = q /\ b.reads = Reads(op) \cup {w} /\ b.offset = 0
    <3>1. Reads(op) \cup {w} \in SUBSET (Tags \X Nat)
      BY <1>1, <1>2
    <3> QED BY <1>1, <1>2, <2>1, <3>1, LineMeans, WeightLineMeans
  <2> HIDE DEF a, b
  <2>4. s \in Seq(LineSet) /\ DOMAIN s = {1, 2} /\ s[1] = a /\ s[2] = b
    BY <2>3, Singles
  <2>5. ASSUME NEW A, A \cap Own(op) = {}, Reads(op) \subseteq A PROVE Scoped(A, s)
    <3>1. /\ a.defines \notin A /\ a.reads \subseteq A
          /\ b.defines \notin A \cup {a.defines} /\ b.reads \subseteq A \cup {a.defines}
      BY <1>2, <2>3, <2>5
    <3> QED BY <2>3, <3>1, ScopedLines
  <2> HIDE DEF s
  <2>6. ToSet(s) = {a, b} /\ Defs(s) = {w, q}
    BY <2>3, <2>4 DEF ToSet, Defs
  <2>7. Refers(op, at, a)
    BY <2>1, <2>3 DEF Refers, w
  <2>8. Writes(op, at, s)
    BY <1>2, <2>3, <2>4, <2>5, <2>6, <2>7 DEF Writes, q
  <2> QED BY <2>2, <2>8
<1>4. CASE Len(op.blobs) = 2
  <2> DEFINE a == WeightLine(w, at[1])
             b == Line(v, Reads(op) \cup {w})
             c == WeightLine(p, at[2])
             d == Line(q, {v, p})
             s == <<a, b, c, d>>
  <2>1. 1 \in DOMAIN at /\ at[1] \in Nat /\ 2 \in DOMAIN at /\ at[2] \in Nat
    BY <1>4
  <2>2. DeconvLines(op, at) = s
    BY <1>4 DEF DeconvLines
  <2> HIDE DEF p, q, w, v
  <2>3. /\ a \in LineSet /\ a.defines = w /\ a.reads = {} /\ a.offset = at[1]
        /\ b \in LineSet /\ b.defines = v /\ b.reads = Reads(op) \cup {w} /\ b.offset = 0
        /\ c \in LineSet /\ c.defines = p /\ c.reads = {} /\ c.offset = at[2]
        /\ d \in LineSet /\ d.defines = q /\ d.reads = {v, p} /\ d.offset = 0
    <3>1. Reads(op) \cup {w} \in SUBSET (Tags \X Nat) /\ {v, p} \in SUBSET (Tags \X Nat)
      BY <1>1, <1>2
    <3> QED BY <1>1, <1>2, <2>1, <3>1, LineMeans, WeightLineMeans
  <2> HIDE DEF a, b, c, d
  <2>4. s \in Seq(LineSet) /\ DOMAIN s = {1, 2, 3, 4} /\ s[1] = a /\ s[2] = b /\ s[3] = c /\ s[4] = d
    BY <2>3
  <2>5. ASSUME NEW A, A \cap Own(op) = {}, Reads(op) \subseteq A PROVE Scoped(A, s)
    <3>1. /\ a.defines \notin A /\ a.reads \subseteq A
          /\ b.defines \notin A \cup {a.defines} /\ b.reads \subseteq A \cup {a.defines}
          /\ c.defines \notin A \cup {a.defines, b.defines} /\ c.reads \subseteq A \cup {a.defines, b.defines}
          /\ d.defines \notin A \cup {a.defines, b.defines, c.defines}
          /\ d.reads \subseteq A \cup {a.defines, b.defines, c.defines}
      BY <1>2, <2>3, <2>5
    <3> QED BY <2>3, <3>1, ScopedLines
  <2> HIDE DEF s
  <2>6. ToSet(s) = {a, b, c, d} /\ Defs(s) = {w, v, p, q}
    BY <2>3, <2>4 DEF ToSet, Defs
  <2>7. Refers(op, at, a) /\ Refers(op, at, c)
    BY <2>1, <2>3 DEF Refers, w, p
  <2>8. Writes(op, at, s)
    BY <1>2, <2>3, <2>4, <2>5, <2>6, <2>7 DEF Writes, q
  <2> QED BY <2>2, <2>8
<1> QED BY <1>3, <1>4

LEMMA LinesWritten ==
  ASSUME NEW op \in Emits, Len(op.blobs) = Advance(op), op.kind \in {"conv", "deconv"} => Len(op.blobs) \in 1 .. 2,
         NEW at \in [1 .. Advance(op) -> Nat]
  PROVE  Writes(op, at, LinesOf(op, at))
<1>1. DOMAIN at = 1 .. Advance(op) /\ \A k \in DOMAIN at : at[k] \in Nat
  OBVIOUS
<1>2. CASE op.kind = "constant"
  <2>1. Advance(op) = 1
    BY <1>2 DEF Advance
  <2>2. 1 \in DOMAIN at /\ at[1] \in Nat
    BY <1>1, <2>1
  <2>3. LinesOf(op, at) = <<WeightLine(F16(op.top), at[1])>>
    BY <1>2 DEF LinesOf
  <2> QED BY <1>2, <2>2, <2>3, ConstantWrites
<1>3. CASE op.kind = "conv"
  <2>1. op.kind # "constant" /\ LinesOf(op, at) = ConvLines(op, at)
    BY <1>3 DEF LinesOf
  <2>2. Len(op.blobs) \in 1 .. 2 /\ DOMAIN at = 1 .. Len(op.blobs)
    BY <1>1, <1>3
  <2> QED BY <1>1, <2>1, <2>2, ConvWrites
<1>4. CASE op.kind = "deconv"
  <2>1. op.kind # "constant" /\ LinesOf(op, at) = DeconvLines(op, at)
    BY <1>4 DEF LinesOf
  <2>2. Len(op.blobs) \in 1 .. 2 /\ DOMAIN at = 1 .. Len(op.blobs)
    BY <1>1, <1>4
  <2> QED BY <1>1, <2>1, <2>2, DeconvWrites
<1>5. CASE op.kind = "hard_sigmoid"
  <2>1. LinesOf(op, at) = HardLines(op)
    BY <1>5 DEF LinesOf
  <2> QED BY <2>1, HardWrites
<1>6. CASE op.kind = "instance_norm"
  <2>1. Advance(op) = 1
    BY <1>6 DEF Advance
  <2>2. 1 \in DOMAIN at /\ at[1] \in Nat
    BY <1>1, <2>1
  <2>3. op.kind # "constant" /\ LinesOf(op, at) = NormLines(op, at)
    BY <1>6 DEF LinesOf
  <2> QED BY <2>2, <2>3, NormWrites
<1>7. CASE op.kind \notin {"constant", "conv", "deconv", "hard_sigmoid", "instance_norm"}
  <2>1. LinesOf(op, at) = PlainLines(op)
    BY <1>7 DEF LinesOf
  <2> QED BY <2>1, PlainWrites
<1> QED BY <1>2, <1>3, <1>4, <1>5, <1>6, <1>7

-----------------------------------------------------------------------------
(* Where the weights go.                                                   *)

(* f[i] is where the chunk of the i-th weight begins.                      *)
Starts(g, blobs, f) ==
  /\ f \in [1 .. Len(blobs) -> Nat]
  /\ \A i \in 1 .. Len(blobs) : f[i] = IF i = 1 THEN Header ELSE f[i - 1] + Header + Size(g, blobs[i - 1])

(* The weights of a graph: constants of it, of known size.                 *)
Blobs(g, blobs) == blobs \in Seq(Nat) /\ \A i \in DOMAIN blobs : Size(g, blobs[i]) \in Nat

LEMMA BeginsExist ==
  ASSUME NEW g, NEW blobs, Blobs(g, blobs)
  PROVE  \E f : Starts(g, blobs, f)
<1> DEFINE n == Len(blobs)
           G == [x \in Nat \X Nat |-> IF x[1] - 1 \in 1 .. n THEN x[2] + Header + Size(g, blobs[x[1] - 1]) ELSE x[2]]
<1>1. n \in Nat /\ DOMAIN blobs = 1 .. n /\ \A i \in 1 .. n : Size(g, blobs[i]) \in Nat
  BY LenProperties DEF Blobs
<1>2. Header \in Nat
  BY DEF Header
<1> HIDE DEF n
<1>3. G \in [Nat \X Nat -> Nat]
  <2> SUFFICES ASSUME NEW x \in Nat \X Nat
               PROVE  (IF x[1] - 1 \in 1 .. n THEN x[2] + Header + Size(g, blobs[x[1] - 1]) ELSE x[2]) \in Nat
    OBVIOUS
  <2>1. x[1] - 1 \in 1 .. n => x[2] + Header + Size(g, blobs[x[1] - 1]) \in Nat
    BY <1>1, <1>2
  <2> QED BY <2>1
<1>4. PICK f : Recurs(f, Nat, Header, G, n)
  <2> HIDE DEF G
  <2> QED BY <1>1, <1>2, <1>3, Recursion
<1>5. f \in [1 .. n -> Nat] /\ \A i \in 1 .. n : f[i] = IF i = 1 THEN Header ELSE G[<<i, f[i - 1]>>]
  BY <1>4 DEF Recurs
<1>6. ASSUME NEW i \in 1 .. n, i # 1 PROVE f[i] = f[i - 1] + Header + Size(g, blobs[i - 1])
  <2>1. i - 1 \in 1 .. n /\ f[i - 1] \in Nat /\ <<i, f[i - 1]>> \in Nat \X Nat
    BY <1>1, <1>5, <1>6
  <2> QED BY <1>5, <1>6, <2>1
<1>7. Starts(g, blobs, f)
  BY <1>5, <1>6 DEF Starts, n
<1> QED BY <1>7

(* A function that recurs as f does, up to m, has f's values.              *)
LEMMA SameBegins ==
  ASSUME NEW g, NEW blobs, Blobs(g, blobs), NEW f, Starts(g, blobs, f), NEW m \in 0 .. Len(blobs), NEW at,
         \A k \in 1 .. m : at[k] = IF k = 1 THEN Header ELSE at[k - 1] + Header + Size(g, blobs[k - 1])
  PROVE  \A k \in 1 .. m : at[k] = f[k]
<1>1. Len(blobs) \in Nat
  BY LenProperties DEF Blobs
<1> DEFINE T == {k \in 1 .. m : at[k] = f[k]}
<1>2. m \in Nat /\ \A k \in 1 .. m : k \in 1 .. Len(blobs)
  BY <1>1
<1>3. \A k \in 1 .. m : f[k] = IF k = 1 THEN Header ELSE f[k - 1] + Header + Size(g, blobs[k - 1])
  BY <1>2 DEF Starts
<1>4. CASE m = 0
  BY <1>4
<1>5. CASE m # 0
  <2>1. 1 \in T
    BY <1>2, <1>3, <1>5
  <2>2. ASSUME NEW k \in 1 .. m - 1, k \in T PROVE k + 1 \in T
    <3>1. k + 1 \in 1 .. m /\ k + 1 # 1 /\ (k + 1) - 1 = k /\ at[k] = f[k]
      BY <1>2, <2>2
    <3>2. at[k + 1] = at[k] + Header + Size(g, blobs[k])
      BY <3>1
    <3>3. f[k + 1] = f[k] + Header + Size(g, blobs[k])
      BY <1>3, <3>1
    <3>4. at[k + 1] = f[k + 1]
      BY <3>1, <3>2, <3>3
    <3> QED BY <3>1, <3>4
  <2> HIDE DEF T
  <2>3. 1 .. m \subseteq T
    BY <1>2, <2>1, <2>2, UpTo
  <2> QED BY <2>3 DEF T
<1> QED BY <1>4, <1>5

LEMMA OffsetBegins ==
  ASSUME NEW g, NEW blobs, Blobs(g, blobs), NEW f, Starts(g, blobs, f), NEW i \in 1 .. Len(blobs)
  PROVE  ChunkOffset(g, blobs, i) = f[i]
<1> DEFINE Recurring(at) == at = [k \in 1 .. i |-> IF k = 1 THEN Header ELSE at[k - 1] + Header + Size(g, blobs[k - 1])]
           at == CHOOSE at : Recurring(at)
           h == [k \in 1 .. i |-> f[k]]
<1>1. Len(blobs) \in Nat /\ i \in Nat /\ i \in 1 .. i /\ i \in 0 .. Len(blobs) /\ \A k \in 1 .. i : k \in 1 .. Len(blobs)
  BY LenProperties DEF Blobs
<1>2. Recurring(h)
  <2>1. \A k \in 1 .. i : f[k] = IF k = 1 THEN Header ELSE f[k - 1] + Header + Size(g, blobs[k - 1])
    BY <1>1 DEF Starts
  <2>2. \A k \in 1 .. i : k # 1 => k - 1 \in 1 .. i
    BY <1>1
  <2> QED BY <2>1, <2>2
<1>3. Recurring(at)
  <2> HIDE DEF Recurring, h
  <2> QED BY <1>2
<1>4. ChunkOffset(g, blobs, i) = at[i]
  BY DEF ChunkOffset
<1> HIDE DEF at
<1>5. \A k \in 1 .. i : at[k] = IF k = 1 THEN Header ELSE at[k - 1] + Header + Size(g, blobs[k - 1])
  BY <1>3
<1>6. \A k \in 1 .. i : at[k] = f[k]
  BY <1>1, <1>5, SameBegins
<1> QED BY <1>1, <1>4, <1>6

LEMMA ChunksBegin ==
  ASSUME NEW g, NEW blobs, Blobs(g, blobs), NEW f, Starts(g, blobs, f)
  PROVE  Chunks(g, blobs) = [k \in 1 .. Len(blobs) |->
           [at |-> f[k], data |-> f[k] + Header, size |-> Size(g, blobs[k]), of |-> blobs[k]]]
<1> DEFINE n == Len(blobs)
           Recurring(at) == at = [k \in DOMAIN blobs |->
                                    IF k = 1 THEN Header ELSE at[k - 1] + Header + Size(g, blobs[k - 1])]
           cursor == CHOOSE at : Recurring(at)
<1>1. n \in Nat /\ DOMAIN blobs = 1 .. n /\ n \in 0 .. n
  BY LenProperties DEF Blobs
<1>2. Recurring(f)
  <2>1. f \in [1 .. n -> Nat]
        /\ \A k \in 1 .. n : f[k] = IF k = 1 THEN Header ELSE f[k - 1] + Header + Size(g, blobs[k - 1])
    BY DEF Starts
  <2> HIDE DEF n
  <2>2. f = [k \in 1 .. n |-> f[k]]
    BY <2>1
  <2>3. f = [k \in 1 .. n |-> IF k = 1 THEN Header ELSE f[k - 1] + Header + Size(g, blobs[k - 1])]
    BY <2>1, <2>2
  <2> QED BY <1>1, <2>3
<1>3. Recurring(cursor)
  <2> HIDE DEF Recurring
  <2> QED BY <1>2
<1>4. Chunks(g, blobs) = [k \in DOMAIN blobs |->
        [at |-> cursor[k], data |-> cursor[k] + Header, size |-> Size(g, blobs[k]), of |-> blobs[k]]]
  BY DEF Chunks
<1> HIDE DEF cursor
<1>5. \A k \in 1 .. n : cursor[k] = IF k = 1 THEN Header ELSE cursor[k - 1] + Header + Size(g, blobs[k - 1])
  BY <1>1, <1>3
<1>6. \A k \in 1 .. n : cursor[k] = f[k]
  BY <1>1, <1>5, SameBegins
<1> QED BY <1>1, <1>4, <1>6

(* A chunk ends before a later one begins.                                 *)
LEMMA BeginsApart ==
  ASSUME NEW g, NEW blobs, Blobs(g, blobs), NEW f, Starts(g, blobs, f),
         NEW j \in 1 .. Len(blobs), NEW k \in 1 .. Len(blobs), j < k
  PROVE  f[j] + Header + Size(g, blobs[j]) <= f[k]
<1> DEFINE n == Len(blobs)
           T == {i \in Nat : (j + 1) + i \in 1 .. n => f[j] + Header + Size(g, blobs[j]) <= f[(j + 1) + i]}
<1>1. n \in Nat /\ DOMAIN blobs = 1 .. n /\ \A i \in 1 .. n : Size(g, blobs[i]) \in Nat
  BY LenProperties DEF Blobs
<1>2. f \in [1 .. n -> Nat] /\ \A i \in 1 .. n : f[i] = IF i = 1 THEN Header ELSE f[i - 1] + Header + Size(g, blobs[i - 1])
  BY DEF Starts
<1>3. Header \in Nat
  BY DEF Header
<1>4. j \in 1 .. n /\ k \in 1 .. n
  OBVIOUS
<1> HIDE DEF n
<1>5. 0 \in T
  <2> SUFFICES ASSUME (j + 1) + 0 \in 1 .. n PROVE f[j] + Header + Size(g, blobs[j]) <= f[(j + 1) + 0]
    OBVIOUS
  <2>1. (j + 1) + 0 = j + 1 /\ j + 1 \in 1 .. n /\ j + 1 # 1 /\ (j + 1) - 1 = j
    BY <1>4
  <2>2. f[j + 1] = f[j] + Header + Size(g, blobs[j])
    BY <1>2, <2>1
  <2>3. f[j + 1] \in Nat
    BY <1>2, <2>1
  <2> QED BY <2>1, <2>2, <2>3
<1>6. ASSUME NEW i \in Nat, i \in T PROVE i + 1 \in T
  <2> SUFFICES ASSUME (j + 1) + (i + 1) \in 1 .. n PROVE f[j] + Header + Size(g, blobs[j]) <= f[(j + 1) + (i + 1)]
    OBVIOUS
  <2> DEFINE h == (j + 1) + i
  <2>1. (j + 1) + (i + 1) = h + 1 /\ h + 1 \in 1 .. n /\ h \in 1 .. n /\ h + 1 # 1 /\ (h + 1) - 1 = h
    <3> HIDE DEF T
    <3>1. j \in Nat /\ j >= 1 /\ (j + 1) + (i + 1) <= n
      BY <1>1, <1>4
    <3> QED BY <1>1, <3>1
  <2>2. f[j] + Header + Size(g, blobs[j]) <= f[h]
    BY <1>6, <2>1
  <2> HIDE DEF h, T
  <2>3. f[h + 1] = f[h] + Header + Size(g, blobs[h])
    BY <1>2, <2>1
  <2>4. f[h] \in Nat /\ Size(g, blobs[h]) \in Nat /\ f[j] \in Nat /\ Size(g, blobs[j]) \in Nat
    BY <1>1, <1>2, <1>4, <2>1
  <2>5. f[j] + Header + Size(g, blobs[j]) <= f[h + 1]
    BY <1>3, <2>2, <2>3, <2>4
  <2> QED BY <2>1, <2>5
<1> HIDE DEF T
<1>7. Nat \subseteq T
  BY <1>5, <1>6, NatInd
<1>8. k - (j + 1) \in Nat /\ (j + 1) + (k - (j + 1)) = k
  BY <1>4
<1>9. k - (j + 1) \in T
  BY <1>7, <1>8
<1> QED BY <1>4, <1>8, <1>9 DEF T

-----------------------------------------------------------------------------
(* The text of the operations.                                             *)

LEMMA WeightsKnown ==
  ASSUME NEW g, Good(g), NEW list, Listed(g, list)
  PROVE  Blobs(g, Weights(list))
<1> DEFINE bl == [i \in DOMAIN list |-> list[i].blobs]
           ws == Weights(list)
<1>1. bl \in Seq(Seq(Nat)) /\ DOMAIN bl = DOMAIN list /\ \A i \in DOMAIN list : bl[i] = list[i].blobs
  BY ListedBottoms
<1>2. ws = FlattenSeq(bl)
  BY DEF Weights
<1> HIDE DEF bl, ws
<1>3. ws \in Seq(Nat) /\ ToSet(ws) = UNION {ToSet(bl[i]) : i \in DOMAIN bl}
  BY <1>1, <1>2, JoinedMembers
<1>4. ASSUME NEW x \in ToSet(ws) PROVE x \in g.constants
  <2>1. \A i \in DOMAIN list : \A k \in DOMAIN list[i].blobs : list[i].blobs[k] \in g.constants
    BY DEF Listed
  <2>2. PICK i \in DOMAIN bl : x \in ToSet(bl[i])
    <3>1. x \in UNION {ToSet(bl[i]) : i \in DOMAIN bl}
      BY <1>3
    <3> QED BY <3>1
  <2>3. PICK k \in DOMAIN bl[i] : x = bl[i][k]
    BY <2>2 DEF ToSet
  <2>4. i \in DOMAIN list /\ bl[i] = list[i].blobs
    BY <1>1, <2>2
  <2>5. k \in DOMAIN list[i].blobs /\ x = list[i].blobs[k]
    BY <2>3, <2>4
  <2> QED BY <2>1, <2>4, <2>5
<1>5. ASSUME NEW x \in g.constants PROVE Size(g, x) \in Nat
  <2>1. ShapeOf(g, x) \in Shape
    BY Parts
  <2>2. Elements(ShapeOf(g, x)) \in Nat
    BY <2>1, ElementsPositive DEF Positive
  <2> QED BY <2>2 DEF Size
<1>6. \A i \in DOMAIN ws : ws[i] \in ToSet(ws)
  BY DEF ToSet
<1>7. Blobs(g, ws)
  BY <1>3, <1>4, <1>5, <1>6 DEF Blobs
<1> QED BY <1>7 DEF ws

(* How many weights come before those of an operation.                     *)
Skips(list, off) ==
  /\ off \in [DOMAIN list -> Nat]
  /\ \A i \in DOMAIN list : off[i] = IF i = 1 THEN 0 ELSE off[i - 1] + Advance(list[i - 1])

LEMMA SkipsExist ==
  ASSUME NEW g, NEW list, Listed(g, list)
  PROVE  \E off : Skips(list, off)
<1> DEFINE n == Len(list)
           G == [x \in Nat \X Nat |-> IF x[1] - 1 \in 1 .. n THEN x[2] + Advance(list[x[1] - 1]) ELSE x[2]]
<1>1. n \in Nat /\ DOMAIN list = 1 .. n
  BY ListedBottoms
<1>2. \A i \in 1 .. n : Advance(list[i]) \in Nat
  <2>1. \A i \in 1 .. n : list[i].blobs \in Seq(Nat) /\ Advance(list[i]) = Len(list[i].blobs)
    BY <1>1, ListedBottoms DEF Listed, Emits
  <2> QED BY <2>1, LenProperties
<1> HIDE DEF n
<1>3. G \in [Nat \X Nat -> Nat]
  <2> SUFFICES ASSUME NEW x \in Nat \X Nat
               PROVE  (IF x[1] - 1 \in 1 .. n THEN x[2] + Advance(list[x[1] - 1]) ELSE x[2]) \in Nat
    OBVIOUS
  <2>1. x[1] - 1 \in 1 .. n => x[2] + Advance(list[x[1] - 1]) \in Nat
    BY <1>2
  <2> QED BY <2>1
<1>4. PICK f : Recurs(f, Nat, 0, G, n)
  <2> HIDE DEF G
  <2> QED BY <1>1, <1>3, Recursion
<1>5. f \in [1 .. n -> Nat] /\ \A i \in 1 .. n : f[i] = IF i = 1 THEN 0 ELSE G[<<i, f[i - 1]>>]
  BY <1>4 DEF Recurs
<1>6. ASSUME NEW i \in 1 .. n, i # 1 PROVE f[i] = f[i - 1] + Advance(list[i - 1])
  <2>1. i - 1 \in 1 .. n /\ f[i - 1] \in Nat /\ <<i, f[i - 1]>> \in Nat \X Nat
    BY <1>1, <1>5, <1>6
  <2> QED BY <1>5, <1>6, <2>1
<1>7. Skips(list, f)
  BY <1>1, <1>5, <1>6 DEF Skips
<1> QED BY <1>7

(* The weights of an operation are there in the list of all.               *)
LEMMA SkipsPlaces ==
  ASSUME NEW g, NEW list, Listed(g, list), NEW off, Skips(list, off)
  PROVE  \A i \in DOMAIN list : \A k \in 1 .. Advance(list[i]) :
           off[i] + k \in DOMAIN Weights(list) /\ Weights(list)[off[i] + k] = list[i].blobs[k]
<1> DEFINE bl == [i \in DOMAIN list |-> list[i].blobs]
           n == Len(list)
<1>1. bl \in Seq(Seq(Nat)) /\ DOMAIN bl = DOMAIN list /\ (\A i \in DOMAIN list : bl[i] = list[i].blobs)
      /\ DOMAIN list = 1 .. n /\ n \in Nat
  BY ListedBottoms
<1>2. Weights(list) = FlattenSeq(bl)
  BY DEF Weights
<1> HIDE DEF bl, n
<1>3. Len(bl) = n
  <2>1. DOMAIN bl = 1 .. Len(bl) /\ Len(bl) \in Nat
    BY <1>1, LenProperties
  <2> QED BY <1>1, <2>1
<1>4. \A i \in 1 .. n : Advance(list[i]) = Len(bl[i])
  BY <1>1 DEF Listed
<1>5. off \in [1 .. n -> Nat] /\ \A i \in 1 .. n : off[i] = IF i = 1 THEN 0 ELSE off[i - 1] + Len(bl[i - 1])
  <2>1. off \in [1 .. n -> Nat] /\ \A i \in 1 .. n : off[i] = IF i = 1 THEN 0 ELSE off[i - 1] + Advance(list[i - 1])
    BY <1>1 DEF Skips
  <2>2. \A i \in 1 .. n : i # 1 => i - 1 \in 1 .. n
    BY <1>1
  <2> QED BY <1>4, <2>1, <2>2
<1>6. off \in [1 .. Len(bl) -> Nat]
  BY <1>3, <1>5
<1>7. Len(bl) > 0 => off[1] = 0
  <2>1. n > 0 => 1 \in 1 .. n
    BY <1>1
  <2> QED BY <1>3, <1>5, <2>1
<1>8. \A i \in 1 .. Len(bl) - 1 : off[i + 1] = off[i] + Len(bl[i])
  <2> SUFFICES ASSUME NEW i \in 1 .. n - 1 PROVE off[i + 1] = off[i] + Len(bl[i])
    BY <1>3
  <2>1. i + 1 \in 1 .. n /\ i + 1 # 1 /\ (i + 1) - 1 = i
    BY <1>1
  <2> QED BY <1>5, <2>1
<1>9. \A i \in 1 .. Len(bl) : \A k \in 1 .. Len(bl[i]) :
        off[i] + k \in DOMAIN FlattenSeq(bl) /\ FlattenSeq(bl)[off[i] + k] = bl[i][k]
  BY <1>1, <1>6, <1>7, <1>8, JoinedPlaces
<1> QED BY <1>1, <1>2, <1>3, <1>4, <1>9

(* The text is made of what each operation writes, and an operation that   *)
(* refers to its k-th weight refers to a chunk of it.                      *)
Chunked(g, list, at, i) ==
  \A k \in 1 .. Advance(list[i]) :
     \E c \in ToSet(Chunks(g, Weights(list))) : c.at = at[k] /\ c.of = list[i].blobs[k]

LEMMA BodyWritten ==
  ASSUME NEW g, Good(g), NEW list, Listed(g, list)
  PROVE  \E lines, at :
           /\ Body(g, list) = FlattenSeq(lines)
           /\ lines \in Seq(Seq(LineSet)) /\ DOMAIN lines = DOMAIN list
           /\ \A i \in DOMAIN list : /\ Writes(list[i], at[i], lines[i])
                                     /\ DOMAIN at[i] = 1 .. Advance(list[i])
                                     /\ Chunked(g, list, at[i], i)
<1> DEFINE ws == Weights(list)
           Skipping(off) == off = [i \in DOMAIN list |-> IF i = 1 THEN 0 ELSE off[i - 1] + Advance(list[i - 1])]
           off == CHOOSE off : Skipping(off)
           at == [i \in DOMAIN list |-> [k \in 1 .. Advance(list[i]) |-> ChunkOffset(g, ws, off[i] + k)]]
           lines == [i \in DOMAIN list |-> LinesOf(list[i], at[i])]
<1>1. Body(g, list) = FlattenSeq(lines)
  <2>1. Body(g, list) = FlattenSeq([i \in DOMAIN list |->
                           LinesOf(list[i], [k \in 1 .. Advance(list[i]) |-> ChunkOffset(g, ws, off[i] + k)])])
    BY DEF Body
  <2>2. lines = [i \in DOMAIN list |-> LinesOf(list[i], [k \in 1 .. Advance(list[i]) |-> ChunkOffset(g, ws, off[i] + k)])]
    <3> HIDE DEF off, ws
    <3> QED OBVIOUS
  <2> QED BY <2>1, <2>2
<1>2. \A o : Skips(list, o) => Skipping(o)
  <2> SUFFICES ASSUME NEW o, Skips(list, o) PROVE Skipping(o)
    OBVIOUS
  <2>1. o = [i \in DOMAIN list |-> o[i]] /\ \A i \in DOMAIN list : o[i] = IF i = 1 THEN 0 ELSE o[i - 1] + Advance(list[i - 1])
    BY DEF Skips
  <2> QED BY <2>1
<1>3. Skipping(off)
  <2>1. \E o : Skipping(o)
    <3> HIDE DEF Skipping
    <3> QED BY <1>2, SkipsExist
  <2> HIDE DEF Skipping
  <2> QED BY <2>1
<1>4. Skips(list, off)
  <2>1. PICK o : Skips(list, o)
    BY SkipsExist
  <2> DEFINE n == Len(list)
             T == {i \in 1 .. n : off[i] = o[i]}
  <2>2. n \in Nat /\ DOMAIN list = 1 .. n
    BY ListedBottoms
  <2> HIDE DEF n, off
  <2>3. \A i \in 1 .. n : off[i] = IF i = 1 THEN 0 ELSE off[i - 1] + Advance(list[i - 1])
    BY <1>3, <2>2
  <2>4. \A i \in 1 .. n : o[i] = IF i = 1 THEN 0 ELSE o[i - 1] + Advance(list[i - 1])
    BY <2>1, <2>2 DEF Skips
  <2>5. CASE n = 0
    <3>1. DOMAIN list = {}
      BY <2>2, <2>5
    <3>2. off = [i \in DOMAIN list |-> IF i = 1 THEN 0 ELSE off[i - 1] + Advance(list[i - 1])]
      BY <1>3
    <3>3. off \in [DOMAIN list -> Nat]
      BY <3>1, <3>2
    <3> QED BY <3>1, <3>3 DEF Skips
  <2>6. CASE n # 0
    <3>1. 1 \in T
      BY <2>2, <2>3, <2>4, <2>6
    <3>2. ASSUME NEW i \in 1 .. n - 1, i \in T PROVE i + 1 \in T
      <4>1. i + 1 \in 1 .. n /\ i + 1 # 1 /\ (i + 1) - 1 = i /\ off[i] = o[i]
        BY <2>2, <3>2
      <4>2. off[i + 1] = off[i] + Advance(list[i])
        BY <2>3, <4>1
      <4>3. o[i + 1] = o[i] + Advance(list[i])
        BY <2>4, <4>1
      <4> QED BY <4>1, <4>2, <4>3
    <3> HIDE DEF T
    <3>3. 1 .. n \subseteq T
      BY <2>2, <3>1, <3>2, UpTo
    <3>4. \A i \in 1 .. n : off[i] = o[i]
      BY <3>3 DEF T
    <3>5. o \in [1 .. n -> Nat]
      BY <2>1, <2>2 DEF Skips
    <3>6. off = [i \in 1 .. n |-> off[i]]
      <4>1. off = [i \in DOMAIN list |-> IF i = 1 THEN 0 ELSE off[i - 1] + Advance(list[i - 1])]
        BY <1>3
      <4> QED BY <2>2, <4>1
    <3>7. off \in [1 .. n -> Nat]
      BY <3>4, <3>5, <3>6
    <3> QED BY <2>2, <2>3, <3>7 DEF Skips
  <2> QED BY <2>5, <2>6
<1> HIDE DEF off, Skipping
<1>5. \A i \in DOMAIN list : \A k \in 1 .. Advance(list[i]) : off[i] + k \in DOMAIN ws /\ ws[off[i] + k] = list[i].blobs[k]
  BY <1>4, SkipsPlaces
<1>6. Blobs(g, ws)
  BY WeightsKnown
<1> HIDE DEF ws
<1>7. PICK f : Starts(g, ws, f)
  BY <1>6, BeginsExist
<1>8. DOMAIN ws = 1 .. Len(ws) /\ f \in [1 .. Len(ws) -> Nat]
  <2>1. ws \in Seq(Nat)
    BY <1>6 DEF Blobs
  <2> QED BY <1>7, <2>1, LenProperties DEF Starts
<1>9. \A i \in 1 .. Len(ws) : ChunkOffset(g, ws, i) = f[i]
  BY <1>6, <1>7, OffsetBegins
<1>10. \A i \in DOMAIN list : \A k \in 1 .. Advance(list[i]) : at[i][k] = f[off[i] + k] /\ at[i][k] \in Nat
  BY <1>5, <1>8, <1>9
<1>11. \A i \in DOMAIN list : DOMAIN at[i] = 1 .. Advance(list[i]) /\ at[i] = [k \in 1 .. Advance(list[i]) |-> at[i][k]]
  OBVIOUS
<1>12. DOMAIN lines = DOMAIN list /\ \A i \in DOMAIN list : lines[i] = LinesOf(list[i], at[i])
  <2> HIDE DEF at
  <2> QED OBVIOUS
<1> HIDE DEF at, lines
<1>13. \A i \in DOMAIN list : at[i] \in [1 .. Advance(list[i]) -> Nat]
  BY <1>10, <1>11
<1>14. ASSUME NEW i \in DOMAIN list PROVE Writes(list[i], at[i], lines[i])
  <2>1. list[i] \in Emits /\ Len(list[i].blobs) = Advance(list[i])
        /\ (list[i].kind \in {"conv", "deconv"} => Len(list[i].blobs) \in 1 .. 2)
    BY ListedBottoms DEF Listed
  <2>2. at[i] \in [1 .. Advance(list[i]) -> Nat]
    BY <1>13
  <2>3. Writes(list[i], at[i], LinesOf(list[i], at[i]))
    BY <2>1, <2>2, LinesWritten
  <2> QED BY <1>12, <2>3
<1>15. lines \in Seq(Seq(LineSet))
  <2>1. \A i \in DOMAIN list : lines[i] \in Seq(LineSet)
    BY <1>14 DEF Writes
  <2>2. DOMAIN list = 1 .. Len(list) /\ Len(list) \in Nat
    BY ListedBottoms
  <2>3. lines = [i \in 1 .. Len(list) |-> lines[i]]
    <3>1. lines = [i \in DOMAIN list |-> LinesOf(list[i], at[i])]
      BY DEF lines
    <3> QED BY <2>2, <3>1
  <2>4. lines \in [1 .. Len(list) -> Seq(LineSet)]
    BY <2>1, <2>2, <2>3
  <2> QED BY <2>2, <2>4, SeqDef
<1>16. ASSUME NEW i \in DOMAIN list PROVE Chunked(g, list, at[i], i)
  <2> SUFFICES ASSUME NEW k \in 1 .. Advance(list[i])
               PROVE  \E c \in ToSet(Chunks(g, ws)) : c.at = at[i][k] /\ c.of = list[i].blobs[k]
    BY DEF Chunked, ws
  <2> DEFINE h == off[i] + k
             c == [at |-> f[h], data |-> f[h] + Header, size |-> Size(g, ws[h]), of |-> ws[h]]
  <2>1. h \in 1 .. Len(ws) /\ ws[h] = list[i].blobs[k] /\ at[i][k] = f[h]
    BY <1>5, <1>8, <1>10
  <2>2. Chunks(g, ws) = [m \in 1 .. Len(ws) |-> [at |-> f[m], data |-> f[m] + Header, size |-> Size(g, ws[m]), of |-> ws[m]]]
    BY <1>6, <1>7, ChunksBegin
  <2> HIDE DEF h
  <2>3. h \in DOMAIN Chunks(g, ws) /\ Chunks(g, ws)[h] = c
    BY <2>1, <2>2
  <2>4. c \in ToSet(Chunks(g, ws))
    BY <2>3 DEF ToSet
  <2>5. c.at = f[h] /\ c.of = ws[h]
    OBVIOUS
  <2> QED BY <2>1, <2>4, <2>5
<1>17. \A i \in DOMAIN list : /\ Writes(list[i], at[i], lines[i])
                              /\ DOMAIN at[i] = 1 .. Advance(list[i])
                              /\ Chunked(g, list, at[i], i)
  BY <1>11, <1>13, <1>14, <1>16
<1> QED BY <1>1, <1>12, <1>15, <1>17

(* The lines of all the operations: what they define is theirs, and each   *)
(* reads what is above it if what they read and do not make is there.      *)
LEMMA BodyScoped ==
  ASSUME NEW g, NEW list, Listed(g, list), NEW lines \in Seq(Seq(LineSet)), DOMAIN lines = DOMAIN list, NEW at,
         \A i \in DOMAIN list : Writes(list[i], at[i], lines[i]),
         NEW A, \A x \in BottomsOf(list) \ TopsOf(list) : F16(x) \in A,
         \A i \in DOMAIN list : A \cap Own(list[i]) = {}
  PROVE  /\ Scoped(A, FlattenSeq(lines))
         /\ \A x \in TopsOf(list) : F16(x) \in Defs(FlattenSeq(lines))
         /\ \A d \in Defs(FlattenSeq(lines)) : \E i \in DOMAIN list : d \in Own(list[i])
<1> DEFINE n == Len(list)
<1>1. n \in Nat /\ DOMAIN list = 1 .. n /\ Len(lines) = n
  <2>1. Len(lines) \in Nat /\ DOMAIN lines = 1 .. Len(lines)
    BY LenProperties
  <2>2. n \in Nat /\ DOMAIN list = 1 .. n
    BY ListedBottoms
  <2> HIDE DEF n
  <2> DEFINE m == Len(lines)
  <2>3. m \in Nat /\ 1 .. m = 1 .. n /\ n \in Nat
    BY <2>1, <2>2
  <2> HIDE DEF m
  <2>4. m = n
    <3>1. n # 0 => n \in 1 .. m
      BY <2>3
    <3>2. m # 0 => m \in 1 .. n
      BY <2>3
    <3> QED BY <2>3, <3>1, <3>2
  <2> QED BY <2>2, <2>4 DEF m
<1>2. CASE lines = <<>>
  <2>1. n = 0 /\ DOMAIN list = {}
    BY <1>1, <1>2, EmptySeq
  <2>2. FlattenSeq(lines) = <<>>
    BY <1>2 DEF FlattenSeq
  <2>3. DOMAIN FlattenSeq(lines) = {}
    BY <2>2, EmptySeq
  <2>4. Scoped(A, FlattenSeq(lines)) /\ Defs(FlattenSeq(lines)) = {}
    BY <2>3 DEF Scoped, Defs
  <2>5. TopsOf(list) = {}
    BY <2>1 DEF TopsOf
  <2> QED BY <2>4, <2>5
<1>3. CASE lines # <<>>
  <2> HIDE DEF n
  <2>1. \A i \in 1 .. n : Defs(lines[i]) \subseteq Own(list[i]) /\ F16(list[i].top) \in Defs(lines[i])
    BY <1>1 DEF Writes
  <2>2. \A i, j \in 1 .. n : i # j => Own(list[i]) \cap Own(list[j]) = {}
    <3> SUFFICES ASSUME NEW i \in 1 .. n, NEW j \in 1 .. n, i # j PROVE Own(list[i]) \cap Own(list[j]) = {}
      OBVIOUS
    <3>1. list[i].top # list[j].top
      BY <1>1 DEF Listed
    <3> QED BY <3>1 DEF Own
  <2>3. ASSUME NEW i \in 1 .. n PROVE Scoped(A \cup UNION {Defs(lines[j]) : j \in 1 .. i - 1}, lines[i])
    <3> DEFINE B == A \cup UNION {Defs(lines[j]) : j \in 1 .. i - 1}
    <3>1. \A j \in 1 .. i - 1 : j \in 1 .. n /\ j # i
      BY <1>1
    <3>2. B \cap Own(list[i]) = {}
      <4> SUFFICES ASSUME NEW d \in B, d \in Own(list[i]) PROVE FALSE
        OBVIOUS
      <4>1. d \notin A
        BY <1>1
      <4>2. PICK j \in 1 .. i - 1 : d \in Defs(lines[j])
        BY <4>1
      <4>3. j \in 1 .. n /\ j # i
        BY <3>1
      <4>4. d \in Own(list[j])
        BY <2>1, <4>2, <4>3
      <4> QED BY <2>2, <4>3, <4>4
    <3>3. Reads(list[i]) \subseteq B
      <4> SUFFICES ASSUME NEW k \in DOMAIN list[i].bottoms PROVE F16(list[i].bottoms[k]) \in B
        BY DEF Reads
      <4> DEFINE x == list[i].bottoms[k]
      <4>1. x \in ToSet(list[i].bottoms) /\ i \in DOMAIN list
        BY <1>1 DEF ToSet
      <4>2. x \in BottomsOf(list)
        BY <4>1 DEF BottomsOf
      <4> HIDE DEF x
      <4>3. CASE x \in TopsOf(list)
        <5>1. PICK j \in 1 .. i - 1 : list[j].top = x
          BY <4>1, <4>3 DEF Listed
        <5>2. F16(x) \in Defs(lines[j])
          BY <2>1, <3>1, <5>1
        <5>3. F16(x) \in B
          BY <5>2
        <5> QED BY <5>3 DEF x
      <4>4. CASE x \notin TopsOf(list)
        <5>1. F16(x) \in A
          BY <4>2, <4>4
        <5> QED BY <5>1 DEF x
      <4> QED BY <4>3, <4>4
    <3>4. Writes(list[i], at[i], lines[i])
      BY <1>1
    <3> HIDE DEF B
    <3>5. Scoped(B, lines[i])
      BY <3>2, <3>3, <3>4 DEF Writes
    <3> QED BY <3>5 DEF B
  <2>4. Scoped(A, FlattenSeq(lines)) /\ Defs(FlattenSeq(lines)) = UNION {Defs(lines[j]) : j \in 1 .. Len(lines)}
    <3>1. \A i \in 1 .. Len(lines) : Scoped(A \cup UNION {Defs(lines[j]) : j \in 1 .. i - 1}, lines[i])
      BY <1>1, <2>3
    <3> QED BY <1>3, <3>1, ScopedParts
  <2>5. ASSUME NEW x \in TopsOf(list) PROVE F16(x) \in Defs(FlattenSeq(lines))
    <3>1. PICK i \in 1 .. n : list[i].top = x
      BY <1>1 DEF TopsOf
    <3>2. F16(x) \in Defs(lines[i])
      BY <2>1, <3>1
    <3> QED BY <1>1, <2>4, <3>2
  <2>6. ASSUME NEW d \in Defs(FlattenSeq(lines)) PROVE \E i \in DOMAIN list : d \in Own(list[i])
    <3>1. PICK i \in 1 .. n : d \in Defs(lines[i])
      BY <1>1, <2>4
    <3> QED BY <1>1, <2>1, <3>1
  <2> QED BY <2>4, <2>5, <2>6
<1> QED BY <1>2, <1>3

(* The lines that convert parameters and results: one for each name.       *)
Converts(names, to, from) == [i \in DOMAIN names |-> Line(to[names[i]], {from[names[i]]})]

Converted(s, E, to, from) ==
  /\ s \in Seq(LineSet) /\ Defs(s) = {to[x] : x \in E}
  /\ \A l \in ToSet(s) : l.offset = 0
  /\ \A A : A \cap {to[x] : x \in E} = {} /\ {from[x] : x \in E} \subseteq A => Scoped(A, s)

LEMMA Conversions ==
  ASSUME NEW names, NEW E, Lists(names, Nat, E), NEW to, NEW from,
         \A x \in Nat : to[x] \in Tags \X Nat /\ from[x] \in Tags \X Nat,
         \A x, y \in Nat : to[x] = to[y] => x = y
  PROVE  Converted(Converts(names, to, from), E, to, from)
<1> DEFINE n == Len(names)
           s == Converts(names, to, from)
<1>1. names \in Seq(Nat) /\ ToSet(names) = E /\ \A i, j \in DOMAIN names : names[i] = names[j] => i = j
  BY DEF Lists
<1>2. n \in Nat /\ DOMAIN names = 1 .. n /\ \A i \in 1 .. n : names[i] \in Nat /\ names[i] \in E
  <2>1. n \in Nat /\ DOMAIN names = 1 .. n
    BY <1>1, LenProperties
  <2>2. \A i \in DOMAIN names : names[i] \in Nat
    BY <1>1, ElementOfSeq, LenProperties
  <2>3. \A i \in DOMAIN names : names[i] \in ToSet(names)
    BY DEF ToSet
  <2> HIDE DEF n
  <2> QED BY <1>1, <2>1, <2>2, <2>3
<1>3. \A x \in E : \E i \in 1 .. n : names[i] = x
  BY <1>1, <1>2 DEF ToSet
<1> HIDE DEF n
<1>10. DOMAIN s = 1 .. n /\ s = [i \in 1 .. n |-> s[i]]
  BY <1>2 DEF Converts
<1>11. \A i \in 1 .. n : s[i] = Line(to[names[i]], {from[names[i]]})
  BY <1>2 DEF Converts
<1> HIDE DEF s
<1>4. ASSUME NEW i \in 1 .. n
      PROVE  s[i] \in LineSet /\ s[i].defines = to[names[i]] /\ s[i].reads = {from[names[i]]} /\ s[i].offset = 0
  <2>1. s[i] = Line(to[names[i]], {from[names[i]]})
    BY <1>11
  <2>2. to[names[i]] \in Tags \X Nat /\ {from[names[i]]} \in SUBSET (Tags \X Nat)
    BY <1>2
  <2> DEFINE l == Line(to[names[i]], {from[names[i]]})
  <2>3. l \in LineSet /\ l.defines = to[names[i]] /\ l.reads = {from[names[i]]} /\ l.offset = 0
    BY <2>2, LineMeans
  <2> HIDE DEF l
  <2> QED BY <2>1, <2>3 DEF l
<1>5. s \in Seq(LineSet)
  <2>1. s = [i \in 1 .. n |-> s[i]]
    BY <1>10
  <2>2. s \in [1 .. n -> LineSet]
    BY <1>4, <2>1
  <2> QED BY <1>2, <2>2, SeqDef
<1>6. Defs(s) = {to[x] : x \in E}
  <2>1. \A i \in DOMAIN s : s[i].defines \in {to[x] : x \in E}
    BY <1>2, <1>4, <1>10
  <2>2. \A x \in E : \E i \in DOMAIN s : s[i].defines = to[x]
    BY <1>3, <1>4, <1>10
  <2> QED BY <2>1, <2>2 DEF Defs
<1>7. \A l \in ToSet(s) : l.offset = 0
  BY <1>4, <1>10 DEF ToSet
<1>8. ASSUME NEW A, A \cap {to[x] : x \in E} = {}, {from[x] : x \in E} \subseteq A, NEW i \in DOMAIN s
      PROVE  s[i].defines \notin Above(A, s, i) /\ s[i].reads \subseteq Above(A, s, i)
  <2>1. i \in 1 .. n /\ s[i].defines = to[names[i]] /\ s[i].reads = {from[names[i]]} /\ names[i] \in E
    BY <1>2, <1>4, <1>10
  <2>2. s[i].defines \notin A
    BY <1>8, <2>1
  <2>3. ASSUME NEW j \in 1 .. i - 1 PROVE s[j].defines # s[i].defines
    <3>1. j \in 1 .. n /\ j # i
      BY <1>2, <2>1
    <3>2. s[j].defines = to[names[j]]
      BY <1>4, <3>1
    <3>3. names[j] # names[i]
      BY <1>1, <1>2, <2>1, <3>1
    <3> QED BY <1>2, <2>1, <3>1, <3>2, <3>3
  <2>4. s[i].reads \subseteq A
    BY <1>8, <2>1
  <2> QED BY <2>2, <2>3, <2>4 DEF Above
<1>9. \A A : A \cap {to[x] : x \in E} = {} /\ {from[x] : x \in E} \subseteq A => Scoped(A, s)
  BY <1>8 DEF Scoped
<1> QED BY <1>5, <1>6, <1>7, <1>9 DEF Converted, s

(* The text of a program: its parts, and that they are in the order in     *)
(* which the names are defined.                                            *)
Defining(list, text) ==
  /\ Scoped({F32(x) : x \in ToSet(InputNames(list))}, text)
  /\ \A x \in ToSet(OutputNames(list)) : F32(x) \in Defs(text)

LEMMA BothMembers ==
  ASSUME NEW S, NEW s \in Seq(S), NEW t \in Seq(S), NEW x \in ToSet(s \o t)
  PROVE  x \in ToSet(s) \/ x \in ToSet(t)
<1>1. /\ Len(s) \in Nat /\ Len(t) \in Nat /\ DOMAIN s = 1 .. Len(s) /\ DOMAIN t = 1 .. Len(t)
      /\ DOMAIN (s \o t) = 1 .. Len(s) + Len(t)
      /\ \A i \in 1 .. Len(s) + Len(t) : (s \o t)[i] = IF i <= Len(s) THEN s[i] ELSE t[i - Len(s)]
  <2>1. s \o t \in Seq(S) /\ Len(s \o t) = Len(s) + Len(t)
    BY ConcatProperties
  <2> QED BY <2>1, ConcatProperties, LenProperties
<1>2. PICK i \in DOMAIN (s \o t) : x = (s \o t)[i]
  BY DEF ToSet
<1>3. CASE i <= Len(s)
  <2>1. i \in DOMAIN s /\ x = s[i]
    BY <1>1, <1>2, <1>3
  <2> QED BY <2>1 DEF ToSet
<1>4. CASE ~ (i <= Len(s))
  <2>1. i - Len(s) \in DOMAIN t /\ x = t[i - Len(s)]
    BY <1>1, <1>2, <1>4
  <2> QED BY <2>1 DEF ToSet
<1> QED BY <1>3, <1>4

LEMMA TextScoped ==
  ASSUME NEW g, Good(g), NEW list, Listed(g, list)
  PROVE  /\ Defining(list, Emitted(g, list).text)
         /\ Emitted(g, list).text \in Seq(LineSet)
         /\ \A l \in ToSet(Emitted(g, list).text) : l.offset # 0 => l \in ToSet(Body(g, list))
<1> DEFINE in == InputNames(list)
           out == OutputNames(list)
           I == BottomsOf(list) \ TopsOf(list)
           O == TopsOf(list) \ BottomsOf(list)
           half == [x \in Nat |-> F16(x)]
           full == [x \in Nat |-> F32(x)]
           first == Converts(in, half, full)
           body == Body(g, list)
           last == Converts(out, full, half)
           A == {F32(x) : x \in I}
           H == {F16(x) : x \in I}
<1>1. Lists(in, Nat, I) /\ Lists(out, Nat, O)
  BY InputsListed, OutputsListed
<1>2. ToSet(in) = I /\ ToSet(out) = O /\ I \subseteq Nat /\ O \subseteq Nat /\ in \in Seq(Nat) /\ out \in Seq(Nat)
  <2>1. ToSet(in) = I /\ ToSet(out) = O /\ in \in Seq(Nat) /\ out \in Seq(Nat)
    BY <1>1 DEF Lists
  <2>2. DOMAIN in = 1 .. Len(in) /\ DOMAIN out = 1 .. Len(out)
    BY <2>1, LenProperties
  <2>3. (\A i \in DOMAIN in : in[i] \in Nat) /\ (\A i \in DOMAIN out : out[i] \in Nat)
    BY <2>1, <2>2, ElementOfSeq
  <2>4. ToSet(in) \subseteq Nat /\ ToSet(out) \subseteq Nat
    BY <2>3 DEF ToSet
  <2> QED BY <2>1, <2>4
<1> HIDE DEF I, O, in, out
<1>3. (\A i \in DOMAIN in : in[i] \in Nat) /\ (\A i \in DOMAIN out : out[i] \in Nat)
  BY <1>2 DEF ToSet
<1>4. [i \in DOMAIN in |-> Line(F16(in[i]), {F32(in[i])})] = first
  BY <1>3 DEF Converts
<1>5. [i \in DOMAIN out |-> Line(F32(out[i]), {F16(out[i])})] = last
  BY <1>3 DEF Converts
<1>6. Emitted(g, list).text = (first \o body) \o last
  <2> DEFINE a == [i \in DOMAIN in |-> Line(F16(in[i]), {F32(in[i])})]
             c == [i \in DOMAIN out |-> Line(F32(out[i]), {F16(out[i])})]
  <2>1. Emitted(g, list).text = (a \o body) \o c
    <3> HIDE DEF body
    <3> QED BY DEF Emitted, in, out, body
  <2>2. a = first /\ c = last
    BY <1>4, <1>5
  <2> HIDE DEF a, c, first, last, body
  <2> QED BY <2>1, <2>2
<1>7. /\ \A x \in Nat : half[x] = F16(x) /\ full[x] = F32(x) /\ half[x] \in Tags \X Nat /\ full[x] \in Tags \X Nat
      /\ \A x, y \in Nat : half[x] = half[y] => x = y
      /\ \A x, y \in Nat : full[x] = full[y] => x = y
  BY DEF F16, F32, Tags
<1> HIDE DEF half, full
<1>8. {half[x] : x \in I} = H /\ {full[x] : x \in I} = A
  <2>1. \A x \in I : half[x] = F16(x) /\ full[x] = F32(x)
    BY <1>2, <1>7
  <2> QED BY <2>1 DEF A, H
<1>9. {half[x] : x \in O} = {F16(x) : x \in O} /\ {full[x] : x \in O} = {F32(x) : x \in O}
  <2>1. \A x \in O : half[x] = F16(x) /\ full[x] = F32(x)
    BY <1>2, <1>7
  <2> QED BY <2>1
<1> HIDE DEF A, H
<1>10. /\ first \in Seq(LineSet) /\ (\A l \in ToSet(first) : l.offset = 0) /\ Defs(first) = {half[x] : x \in I}
       /\ \A B : B \cap {half[x] : x \in I} = {} /\ {full[x] : x \in I} \subseteq B => Scoped(B, first)
  <2>1. \A x \in Nat : half[x] \in Tags \X Nat /\ full[x] \in Tags \X Nat
    BY <1>7
  <2>2. \A x, y \in Nat : half[x] = half[y] => x = y
    BY <1>7
  <2>3. Converted(Converts(in, half, full), I, half, full)
    BY <1>1, <2>1, <2>2, Conversions
  <2> HIDE DEF first
  <2>4. Converted(first, I, half, full)
    BY <2>3 DEF first
  <2> QED BY <2>4 DEF Converted
<1>11. /\ last \in Seq(LineSet) /\ (\A l \in ToSet(last) : l.offset = 0) /\ Defs(last) = {full[x] : x \in O}
       /\ \A B : B \cap {full[x] : x \in O} = {} /\ {half[x] : x \in O} \subseteq B => Scoped(B, last)
  <2>1. \A x \in Nat : full[x] \in Tags \X Nat /\ half[x] \in Tags \X Nat
    BY <1>7
  <2>2. \A x, y \in Nat : full[x] = full[y] => x = y
    BY <1>7
  <2>3. Converted(Converts(out, full, half), O, full, half)
    BY <1>1, <2>1, <2>2, Conversions
  <2> HIDE DEF last
  <2>4. Converted(last, O, full, half)
    BY <2>3 DEF last
  <2> QED BY <2>4 DEF Converted
<1> HIDE DEF first, body, last
<1>12. \A x, y \in Nat : F16(x) # F32(y)
  BY DEF F16, F32
<1>13. A \cap H = {}
  BY <1>2, <1>12 DEF A, H
<1>14. Scoped(A, first) /\ Defs(first) = H
  BY <1>8, <1>10, <1>13
<1>15. \A i \in DOMAIN list : (A \cup H) \cap Own(list[i]) = {}
  <2> SUFFICES ASSUME NEW i \in DOMAIN list, NEW x \in I PROVE F32(x) \notin Own(list[i]) /\ F16(x) \notin Own(list[i])
    BY DEF A, H
  <2>1. F32(x) \notin Own(list[i])
    BY DEF F32, Own
  <2>2. list[i].top # x
    BY DEF I, TopsOf
  <2>3. F16(x) \notin Own(list[i])
    BY <2>2 DEF F16, Own
  <2> QED BY <2>1, <2>3
<1>16. /\ body \in Seq(LineSet)
       /\ Scoped(A \cup H, body)
       /\ \A x \in TopsOf(list) : F16(x) \in Defs(body)
       /\ \A d \in Defs(body) : \E i \in DOMAIN list : d \in Own(list[i])
  <2>1. PICK lines, at :
           /\ body = FlattenSeq(lines)
           /\ lines \in Seq(Seq(LineSet)) /\ DOMAIN lines = DOMAIN list
           /\ \A i \in DOMAIN list : Writes(list[i], at[i], lines[i])
    BY BodyWritten DEF body
  <2>2. body \in Seq(LineSet)
    BY <2>1, JoinedMembers
  <2> DEFINE B == A \cup H
  <2>3. \A x \in BottomsOf(list) \ TopsOf(list) : F16(x) \in B
    BY DEF H, I
  <2>4. \A i \in DOMAIN list : B \cap Own(list[i]) = {}
    BY <1>15
  <2> HIDE DEF B
  <2>5. /\ Scoped(B, FlattenSeq(lines))
        /\ \A x \in TopsOf(list) : F16(x) \in Defs(FlattenSeq(lines))
        /\ \A d \in Defs(FlattenSeq(lines)) : \E i \in DOMAIN list : d \in Own(list[i])
    BY <2>1, <2>3, <2>4, BodyScoped
  <2> QED BY <2>1, <2>2, <2>5 DEF B
<1>17. Scoped(A, first \o body) /\ Defs(first \o body) = H \cup Defs(body) /\ first \o body \in Seq(LineSet)
  <2>1. Scoped(A \cup Defs(first), body)
    BY <1>14, <1>16
  <2>2. first \o body \in Seq(LineSet)
    BY <1>10, <1>16, ConcatProperties
  <2> QED BY <1>10, <1>14, <1>16, <2>1, <2>2, ScopedTwo
<1>18. Scoped(A \cup Defs(first \o body), last)
  <2> DEFINE B == A \cup Defs(first \o body)
  <2>1. B \cap {full[x] : x \in O} = {}
    <3> SUFFICES ASSUME NEW x \in O PROVE F32(x) \notin B
      BY <1>9
    <3>1. F32(x) \notin A
      <4> SUFFICES ASSUME NEW y \in I PROVE F32(x) # F32(y)
        BY DEF A
      <4>1. x # y
        BY DEF I, O
      <4> QED BY <4>1 DEF F32
    <3>2. F32(x) \notin H
      BY <1>2, <1>12 DEF H
    <3>3. \A i \in DOMAIN list : F32(x) \notin Own(list[i])
      BY DEF F32, Own
    <3> QED BY <1>16, <1>17, <3>1, <3>2, <3>3
  <2>2. {half[x] : x \in O} \subseteq B
    <3>1. \A x \in O : F16(x) \in Defs(body)
      BY <1>16 DEF O
    <3> QED BY <1>9, <1>17, <3>1
  <2> HIDE DEF B
  <2>3. Scoped(B, last)
    BY <1>11, <2>1, <2>2
  <2> QED BY <2>3 DEF B
<1>19. Scoped(A, (first \o body) \o last) /\ Defs((first \o body) \o last) = Defs(first \o body) \cup Defs(last)
  <2> DEFINE p == first \o body
  <2>1. p \in Seq(LineSet) /\ Scoped(A, p) /\ Scoped(A \cup Defs(p), last)
    BY <1>17, <1>18
  <2> HIDE DEF p
  <2>2. Scoped(A, p \o last) /\ Defs(p \o last) = Defs(p) \cup Defs(last)
    BY <1>11, <2>1, ScopedTwo
  <2> QED BY <2>2 DEF p
<1>20. \A x \in O : F32(x) \in Defs((first \o body) \o last)
  BY <1>9, <1>11, <1>19
<1>21. A = {F32(x) : x \in ToSet(in)}
  BY <1>2 DEF A
<1>22. Defining(list, (first \o body) \o last)
  BY <1>2, <1>19, <1>20, <1>21 DEF Defining, in, out
<1>23. (first \o body) \o last \in Seq(LineSet)
  BY <1>11, <1>17, ConcatProperties
<1>24. ASSUME NEW l \in ToSet((first \o body) \o last), l.offset # 0 PROVE l \in ToSet(body)
  <2> DEFINE p == first \o body
  <2>1. p \in Seq(LineSet)
    BY <1>17
  <2> HIDE DEF p
  <2>2. l \in ToSet(p) \/ l \in ToSet(last)
    <3>1. l \in ToSet(p \o last)
      BY <1>24 DEF p
    <3> QED BY <1>11, <2>1, <3>1, BothMembers
  <2>3. l \in ToSet(p)
    BY <1>11, <1>24, <2>2
  <2>4. l \in ToSet(first) \/ l \in ToSet(body)
    <3>1. l \in ToSet(first \o body)
      BY <2>3 DEF p
    <3> QED BY <1>10, <1>16, <3>1, BothMembers
  <2> QED BY <1>10, <1>24, <2>4
<1> QED BY <1>6, <1>22, <1>23, <1>24 DEF body

-----------------------------------------------------------------------------
(* The program of a graph that is well made.                               *)

(* What the line refers to is the weight the builder gave its operation.   *)
Found(op, at, l) == \E k \in DOMAIN at : l.offset = at[k] /\ op.blobs[k] = GivenFor(l.defines)

LEMMA GivenMeans ==
  ASSUME Good(graph), NEW list, Listed(graph, list), NEW i \in DOMAIN list, NEW at, NEW l, Refers(list[i], at, l)
  PROVE  Found(list[i], at, l)
<1> DEFINE op == list[i]
<1>1. op.kind = "constant" => op.blobs = <<op.top>>
  BY DEF Listed
<1>2. op.kind # "constant" => op \in ToSet(graph.ops)
  BY DEF Listed
<1>3. \A a, b \in ToSet(graph.ops) : a.top = b.top => a = b
  <2> DEFINE ops == graph.ops
  <2>1. \A j, k \in DOMAIN ops : j < k => ops[j].top < ops[k].top
    BY DEF Good
  <2>2. DOMAIN ops = 1 .. Len(ops) /\ Len(ops) \in Nat /\ \A j \in DOMAIN ops : ops[j].top \in Nat
    <3>1. ops \in Seq(Operation)
      BY Parts
    <3>2. DOMAIN ops = 1 .. Len(ops) /\ Len(ops) \in Nat /\ \A j \in DOMAIN ops : ops[j] \in Operation
      BY <3>1, LenProperties, ElementOfSeq
    <3> QED BY <3>2 DEF Operation
  <2> HIDE DEF ops
  <2>3. ASSUME NEW j \in DOMAIN ops, NEW k \in DOMAIN ops, ops[j].top = ops[k].top PROVE j = k
    <3>1. j < k \/ k < j \/ j = k
      BY <2>2
    <3>2. ~ (ops[j].top < ops[k].top) /\ ~ (ops[k].top < ops[j].top)
      BY <2>2, <2>3
    <3> QED BY <2>1, <3>1, <3>2
  <2>4. \A a, b \in ToSet(ops) : a.top = b.top => a = b
    BY <2>3 DEF ToSet
  <2> QED BY <2>4 DEF ops
<1> HIDE DEF op
<1>4. CASE op.kind = "constant" /\ l.defines = F16(op.top) /\ 1 \in DOMAIN at /\ l.offset = at[1]
  <2>1. GivenFor(F16(op.top)) = op.top
    BY DEF GivenFor, F16
  <2>2. op.blobs[1] = op.top
    BY <1>1, <1>4
  <2>3. op.blobs[1] = GivenFor(l.defines)
    BY <1>4, <2>1, <2>2
  <2> QED BY <1>4, <2>3 DEF op, Found
<1>5. CASE op.kind # "constant" /\ l.defines \in {<<"W", op.top>>, <<"gamma", op.top>>} /\ 1 \in DOMAIN at /\ l.offset = at[1]
  <2>1. (CHOOSE o \in ToSet(graph.ops) : o.top = op.top) = op
    BY <1>2, <1>3, <1>5
  <2>2. GivenFor(<<"W", op.top>>) = op.blobs[1]
    BY <2>1 DEF GivenFor
  <2>3. GivenFor(<<"gamma", op.top>>) = op.blobs[1]
    BY <2>1 DEF GivenFor
  <2>4. op.blobs[1] = GivenFor(l.defines)
    BY <1>5, <2>2, <2>3
  <2> QED BY <1>5, <2>4 DEF op, Found
<1>6. CASE op.kind # "constant" /\ l.defines = <<"b", op.top>> /\ 2 \in DOMAIN at /\ l.offset = at[2]
  <2>1. (CHOOSE o \in ToSet(graph.ops) : o.top = op.top) = op
    BY <1>2, <1>3, <1>6
  <2>2. GivenFor(<<"b", op.top>>) = op.blobs[2]
    BY <2>1 DEF GivenFor
  <2>3. op.blobs[2] = GivenFor(l.defines)
    BY <1>6, <2>2
  <2> QED BY <1>6, <2>3 DEF op, Found
<1> QED BY <1>4, <1>5, <1>6 DEF Refers, op

(* The weights of a list do not overlap in the file.                       *)
LEMMA ChunksApart ==
  ASSUME NEW g, Good(g), NEW list, Listed(g, list)
  PROVE  \A c, d \in ToSet(Chunks(g, Weights(list))) : c.at < d.at => c.data + c.size <= d.at
<1> DEFINE ws == Weights(list)
           n == Len(ws)
<1>1. Blobs(g, ws)
  BY WeightsKnown
<1>2. PICK f : Starts(g, ws, f)
  BY <1>1, BeginsExist
<1>3. Chunks(g, ws) = [k \in 1 .. n |-> [at |-> f[k], data |-> f[k] + Header, size |-> Size(g, ws[k]), of |-> ws[k]]]
  BY <1>1, <1>2, ChunksBegin
<1>4. \A j, k \in 1 .. n : j < k => f[j] + Header + Size(g, ws[j]) <= f[k]
  BY <1>1, <1>2, BeginsApart
<1>5. n \in Nat /\ DOMAIN ws = 1 .. n /\ f \in [1 .. n -> Nat] /\ \A k \in 1 .. n : Size(g, ws[k]) \in Nat
  BY <1>1, <1>2, LenProperties DEF Blobs, Starts
<1>6. Header \in Nat
  BY DEF Header
<1> HIDE DEF ws, n
<1>7. ASSUME NEW j \in 1 .. n, NEW k \in 1 .. n, f[j] < f[k] PROVE f[j] + Header + Size(g, ws[j]) <= f[k]
  <2>1. j < k \/ j = k \/ k < j
    BY <1>5
  <2>2. f[j] \in Nat /\ f[k] \in Nat /\ Size(g, ws[k]) \in Nat
    BY <1>5
  <2>3. j # k
    BY <1>7, <2>2
  <2>4. ~ (k < j)
    <3> SUFFICES ASSUME k < j PROVE FALSE
      OBVIOUS
    <3>1. f[k] + Header + Size(g, ws[k]) <= f[j]
      BY <1>4
    <3> QED BY <1>6, <1>7, <2>2, <3>1
  <2> QED BY <1>4, <2>1, <2>3, <2>4
<1>8. \A c \in ToSet(Chunks(g, ws)) : \E k \in 1 .. n : c.at = f[k] /\ c.data = f[k] + Header /\ c.size = Size(g, ws[k])
  BY <1>3 DEF ToSet
<1>9. \A c, d \in ToSet(Chunks(g, ws)) : c.at < d.at => c.data + c.size <= d.at
  BY <1>7, <1>8
<1> QED BY <1>9 DEF ws

LEMMA WeightsFound ==
  ASSUME Good(graph), NEW order \in Orders(UsedConstants(graph)), program = Emitted(graph, OpList(graph, order))
  PROVE  WeightsAreTheirOwn
<1> DEFINE list == OpList(graph, order)
           chunks == Chunks(graph, Weights(list))
           text == Emitted(graph, list).text
<1>1. Listed(graph, list)
  BY OpListListed
<1>2. program.text = text /\ program.weights = chunks
  BY DEF Emitted
<1> HIDE DEF list, chunks, text
<1>3. ASSUME NEW l \in ToSet(text), l.offset # 0
      PROVE  \E c \in ToSet(chunks) : c.at = l.offset /\ c.of = GivenFor(l.defines)
  <2>1. l \in ToSet(Body(graph, list))
    BY <1>1, <1>3, TextScoped DEF text
  <2>2. PICK lines, at :
           /\ Body(graph, list) = FlattenSeq(lines)
           /\ lines \in Seq(Seq(LineSet)) /\ DOMAIN lines = DOMAIN list
           /\ \A i \in DOMAIN list : /\ Writes(list[i], at[i], lines[i])
                                     /\ DOMAIN at[i] = 1 .. Advance(list[i])
                                     /\ Chunked(graph, list, at[i], i)
    BY <1>1, BodyWritten
  <2>3. l \in UNION {ToSet(lines[i]) : i \in DOMAIN lines}
    BY <2>1, <2>2, JoinedMembers
  <2>4. PICK i \in DOMAIN list : l \in ToSet(lines[i])
    BY <2>2, <2>3
  <2>5. Refers(list[i], at[i], l)
    BY <1>3, <2>2, <2>4 DEF Writes
  <2> DEFINE a == at[i]
  <2>6. DOMAIN a = 1 .. Advance(list[i]) /\ Chunked(graph, list, a, i) /\ Refers(list[i], a, l)
    BY <2>2, <2>5
  <2> HIDE DEF a
  <2>7. PICK k \in DOMAIN a : l.offset = a[k] /\ list[i].blobs[k] = GivenFor(l.defines)
    <3>1. Refers(list[i], a, l)
      BY <2>6
    <3>2. Found(list[i], a, l)
      BY <1>1, <3>1, GivenMeans
    <3> QED BY <3>2 DEF Found
  <2>8. PICK c \in ToSet(Chunks(graph, Weights(list))) : c.at = a[k] /\ c.of = list[i].blobs[k]
    BY <2>6, <2>7 DEF Chunked
  <2> QED BY <2>7, <2>8 DEF chunks
<1>4. \A c, d \in ToSet(chunks) : c.at < d.at => c.data + c.size <= d.at
  BY <1>1, ChunksApart DEF chunks
<1> QED BY <1>2, <1>3, <1>4 DEF WeightsAreTheirOwn

LEMMA NamesDefined ==
  ASSUME Good(graph), graph.ops # <<>>, NEW order \in Orders(UsedConstants(graph)),
         program = Emitted(graph, OpList(graph, order))
  PROVE  DefinedBeforeUse
<1> DEFINE list == OpList(graph, order)
           in == InputNames(list)
           out == OutputNames(list)
           text == Emitted(graph, list).text
           P == {F32(program.signature[i]) : i \in DOMAIN program.signature}
<1>1. Listed(graph, list)
  BY OpListListed
<1>2. program.text = text /\ program.signature = in /\ program.results = out
  BY DEF Emitted
<1>3. Lists(out, Nat, TopsOf(list) \ BottomsOf(list))
  BY <1>1, OutputsListed
<1>4. \E x \in TopsOf(list) : x \notin BottomsOf(list)
  BY SomeResult
<1> HIDE DEF list
<1>5. Defining(list, text)
  BY <1>1, TextScoped
<1> HIDE DEF in, out, text
<1>6. P = {F32(x) : x \in ToSet(in)}
  BY <1>2 DEF ToSet
<1> HIDE DEF P
<1>7. Scoped(P, text) /\ \A x \in ToSet(out) : F32(x) \in Defs(text)
  BY <1>5, <1>6 DEF Defining, in, out
<1>8. \A i \in DOMAIN program.text :
        /\ program.text[i].defines \notin P \cup {program.text[j].defines : j \in 1 .. i - 1}
        /\ program.text[i].reads \subseteq P \cup {program.text[j].defines : j \in 1 .. i - 1}
  BY <1>2, <1>7 DEF Scoped, Above
<1>9. \A i \in DOMAIN program.results : F32(program.results[i]) \in {program.text[j].defines : j \in DOMAIN program.text}
  <2>1. \A i \in DOMAIN out : out[i] \in ToSet(out)
    BY DEF ToSet
  <2> QED BY <1>2, <1>7, <2>1 DEF Defs
<1>10. program.results # <<>>
  <2>1. ToSet(out) # {}
    BY <1>3, <1>4 DEF Lists
  <2>2. DOMAIN out # {}
    BY <2>1 DEF ToSet
  <2>3. out # <<>>
    BY <2>2
  <2> QED BY <1>2, <2>3
<1> QED BY <1>8, <1>9, <1>10 DEF DefinedBeforeUse, P

-----------------------------------------------------------------------------
(* The invariant: the graph is well made, and the program is what compile  *)
(* makes of it for some order of the constants.                            *)
Made ==
  \/ program = NoProgram
  \/ /\ graph.ops # <<>>
     /\ \E order \in Orders(UsedConstants(graph)) : program = Emitted(graph, OpList(graph, order))

MilSound ==
  /\ Good(graph)
  /\ status \in {"building", "refused", "failed", "loaded", "run", "unloaded"}
  /\ status = "building" => program = NoProgram
  /\ Made

LEMMA MilTyped == MilSound => TypeOK
<1> SUFFICES ASSUME MilSound PROVE TypeOK
  OBVIOUS
<1>1. Good(graph) /\ status \in {"building", "refused", "failed", "loaded", "run", "unloaded"}
  BY DEF MilSound
<1>2. \A t \in Tensors(graph) : ShapeOf(graph, t) \in [1 .. 4 -> Nat \ {0}]
  <2>1. \A t \in Tensors(graph) : ShapeOf(graph, t) \in Shape
    BY <1>1, Parts
  <2> QED BY <2>1 DEF Shape, Positive
<1>3. ToSet(graph.inputs) \cup graph.constants \cup TopsOf(graph.ops) = Tensors(graph)
      /\ ToSet(graph.inputs) \cap graph.constants = {}
  <2>1. Tensors(graph) = 1 .. New(graph)
    BY <1>1, Parts
  <2> QED BY <1>1, <2>1 DEF Good
<1>4. ASSUME NEW op \in ToSet(graph.ops), NEW x \in ToSet(op.bottoms) \cup ToSet(op.blobs) PROVE x < op.top
  <2>1. graph.ops \in Seq(Operation)
    BY <1>1, Parts
  <2>2. DOMAIN graph.ops = 1 .. Len(graph.ops) /\ \A i \in DOMAIN graph.ops : graph.ops[i] \in Operation
    BY <2>1, LenProperties, ElementOfSeq
  <2>3. PICK i \in DOMAIN graph.ops : op = graph.ops[i]
    BY DEF ToSet
  <2>4. op.top \in Nat
    BY <2>2, <2>3 DEF Operation
  <2>5. Fed(op, graph.constants)
    BY <1>1, <2>3 DEF Good
  <2>6. x \in 1 .. op.top - 1
    BY <2>5 DEF Fed, ToSet
  <2> QED BY <2>4, <2>6
<1> QED BY <1>1, <1>2, <1>3, <1>4 DEF TypeOK

LEMMA MilOwned == MilSound => WeightsAreTheirOwn
<1> SUFFICES ASSUME MilSound PROVE WeightsAreTheirOwn
  OBVIOUS
<1>1. CASE program = NoProgram
  <2>1. program.text = <<>> /\ program.weights = <<>>
    BY <1>1 DEF NoProgram
  <2>2. ToSet(program.text) = {} /\ ToSet(program.weights) = {}
    BY <2>1, EmptySeq DEF ToSet
  <2> QED BY <2>2 DEF WeightsAreTheirOwn
<1>2. CASE program # NoProgram
  <2>1. PICK order \in Orders(UsedConstants(graph)) : program = Emitted(graph, OpList(graph, order))
    BY <1>2 DEF MilSound, Made
  <2> QED BY <2>1, WeightsFound DEF MilSound
<1> QED BY <1>1, <1>2

LEMMA MilDefined == MilSound => DefinedBeforeUse
<1> SUFFICES ASSUME MilSound PROVE DefinedBeforeUse
  OBVIOUS
<1>1. CASE program = NoProgram
  <2>1. program.text = <<>> /\ program.results = <<>>
    BY <1>1 DEF NoProgram
  <2>2. DOMAIN program.text = {} /\ DOMAIN program.results = {}
    BY <2>1, EmptySeq
  <2> QED BY <2>1, <2>2 DEF DefinedBeforeUse
<1>2. CASE program # NoProgram
  <2>1. graph.ops # <<>>
    BY <1>2 DEF MilSound, Made
  <2>2. PICK order \in Orders(UsedConstants(graph)) : program = Emitted(graph, OpList(graph, order))
    BY <1>2 DEF MilSound, Made
  <2> QED BY <2>1, <2>2, NamesDefined DEF MilSound
<1> QED BY <1>1, <1>2

LEMMA MilStarts == Init => MilSound
<1> SUFFICES ASSUME Init PROVE MilSound
  OBVIOUS
<1>1. Good(graph)
  BY EmptyGood DEF Init
<1> QED BY <1>1 DEF Init, MilSound, Made

LEMMA MilSteps == MilSound /\ [Next]_vars => MilSound'
<1> SUFFICES ASSUME MilSound, [Next]_vars PROVE MilSound'
  OBVIOUS
<1>1. CASE Builds
  <2>1. Good(graph')
    <3>1. Good(graph)
      BY DEF MilSound
    <3>2. graph' \in Declare(graph) \/ graph' \in WithWeights(graph) \/ graph' \in OfOne(graph) \/ graph' \in OfTwo(graph)
      BY <1>1 DEF Builds
    <3> QED BY <3>1, <3>2, DeclareGood, WithWeightsGood, OfOneGood, OfTwoGood
  <2> QED BY <1>1, <2>1 DEF Builds, MilSound, Made
<1>2. CASE BuildsKernel
  <2>1. Good(graph')
    BY <1>2, KernelsGood DEF BuildsKernel
  <2> QED BY <1>2, <2>1 DEF BuildsKernel, MilSound, Made
<1>3. CASE Refuses
  BY <1>3 DEF Refuses, MilSound, Made
<1>4. CASE Compiles
  <2>1. PICK order \in Orders(UsedConstants(graph)) : program' = Emitted(graph, OpList(graph, order))
    BY <1>4 DEF Compiles
  <2>2. graph' = graph /\ graph.ops # <<>> /\ status' = "loaded"
    BY <1>4 DEF Compiles
  <2>3. Made'
    BY <2>1, <2>2 DEF Made
  <2> QED BY <2>2, <2>3 DEF MilSound
<1>5. CASE CompileFails
  BY <1>5 DEF CompileFails, MilSound, Made
<1>6. CASE Runs
  BY <1>6 DEF Runs, MilSound, Made
<1>7. CASE Unloads
  BY <1>7 DEF Unloads, MilSound, Made
<1>8. CASE UNCHANGED vars
  BY <1>8 DEF vars, MilSound, Made
<1> QED BY <1>1, <1>2, <1>3, <1>4, <1>5, <1>6, <1>7, <1>8 DEF Next

(* Whatever a process builds and compiles before it has a session, it is   *)
(* a user of the graph API.                                                *)
LEMMA MilHolds == RuntimeSpec => []MilSound
<1>1. RuntimeInit => MilSound
  BY MilStarts DEF RuntimeInit
<1>2. MilSound /\ [RuntimeNext]_runtime => MilSound'
  <2> SUFFICES ASSUME MilSound, [RuntimeNext]_runtime PROVE MilSound'
    OBVIOUS
  <2>1. Next \/ UNCHANGED vars
    BY DEF RuntimeNext, runtime, Prepares, Begins, Works, Fails, model, vars
  <2> QED BY <2>1, MilSteps
<1> QED BY <1>1, <1>2, PTL DEF RuntimeSpec

(* Every dimension the builder computes is at least one, every tensor is   *)
(* an input, a constant or made by an operation, inputs are no constants,  *)
(* and an operation reads tensors and weights made before it: whatever     *)
(* calls of the builder (graph/ops.rs) a user makes, and in the kernels of *)
(* the two examples, whatever the dimensions of the models.                *)
THEOREM GraphsWellMade == RuntimeSpec => []TypeOK
BY MilHolds, MilTyped, PTL

(* What a line of a program's text refers to in the file of weights is the *)
(* chunk of the very constant the builder was given for it, whatever       *)
(* operations come before and whatever order the hash map yields the       *)
(* constants in, and no two chunks overlap (graph/compile.rs, ops/mil.rs,  *)
(* ops/weights.rs).                                                        *)
THEOREM WeightsFollow == RuntimeSpec => []WeightsAreTheirOwn
BY MilHolds, MilOwned, PTL

(* A program defines each name once and reads it only below, and gives     *)
(* every result it names, of which there is one at least (ops/mil.rs,      *)
(* graph/compile.rs).                                                      *)
THEOREM ProgramsReadDown == RuntimeSpec => []DefinedBeforeUse
BY MilHolds, MilDefined, PTL

-----------------------------------------------------------------------------
(* The runs of the examples.                                               *)

Tokens(n) == 0 .. n - 1

\* What a token's column may come from besides tokens.
Filler == IF example = "gpt2" THEN Session!Nothing ELSE Session!Padding
Text(n) == Tokens(n) \cup {Filler}

Column == [own : Int, place : Int, from : SUBSET Int]
State == [folded : Seq(Int), window : Seq(Int), from : SUBSET Int]
Cache == [0 .. MaxSeq - 1 -> Column]

\* A cache and a recurrent state that were given n tokens.
CacheOf(kv, n) ==
  \A c \in 0 .. MaxSeq - 1 :
    /\ c < n => kv[c].own = c /\ kv[c].place = c /\ c \in kv[c].from /\ kv[c].from \subseteq Text(n)
    /\ c >= n => kv[c] = Session!Blank
MemoryOf(m, n) ==
  /\ m.folded = [i \in 1 .. n |-> i - 1]
  /\ m.window = Session!Recent(m.folded)
  /\ Tokens(n) \subseteq m.from /\ m.from \subseteq Text(n)

\* The column of token t, of n tokens, after y layers.
ColumnOf(column, t, n, y) ==
  /\ column.own = t
  /\ example = "gpt2" => column.place = t
  /\ t \in column.from /\ column.from \subseteq Text(n)
  /\ y > 0 => 0 .. t \subseteq column.from

\* The surface of prefill: GPT-2's padding may hold anything, nothing attends to it.
Prefilled(columns, y) ==
  /\ columns \in [Session!Columns -> Column]
  /\ \A t \in Session!Real : ColumnOf(columns[t], t, prompt, y)
  /\ example # "gpt2" => \A t \in Session!Columns : columns[t].from \subseteq Text(prompt)
Decoded(columns, y) ==
  /\ columns \in [{0} -> Column]
  /\ ColumnOf(columns[0], position, position + 1, y)

Typed ==
  /\ example \in {"gpt2", "qwen"}
  /\ prompt \in Nat /\ budget \in Nat
  /\ layer \in 0 .. Layers
  /\ position \in Nat /\ left \in Nat
  /\ cache \in [0 .. Layers - 1 -> Cache]
  /\ memory \in [0 .. Layers - 1 -> State]

Surface ==
  /\ phase = "prefill" => position = 0 /\ Prefilled(hidden, layer)
  /\ phase = "first" => position = prompt
  /\ phase = "decode" => Decoded(hidden, layer)

Kept ==
  \A l \in 0 .. Layers - 1 :
    /\ Session!Kind(l) # "linear" => CacheOf(cache[l], Session!Given(l))
    /\ Session!Kind(l) = "linear" => MemoryOf(memory[l], Session!Given(l))

Held == Typed /\ Surface /\ Kept /\ SaysWhatWasSaid

Inv ==
  /\ phase = "waiting" => position = 0 /\ layer = 0 /\ left = 0
  /\ Session!Going => Held

-----------------------------------------------------------------------------
(* The window of a convolution is the end of what was taken in.            *)
LEMMA RecentIsEnd ==
  ASSUME NEW s \in Seq(Int)
  PROVE  /\ Session!Recent(s) \in Seq(Int)
         /\ Len(Session!Recent(s)) = IF Len(s) > History THEN History ELSE Len(s)
         /\ \A i \in 1 .. Len(Session!Recent(s)) :
              Session!Recent(s)[i] = s[Len(s) - Len(Session!Recent(s)) + i]
<1>1. History \in Nat \ {0} /\ Len(s) \in Nat
  BY SessionAssumption, LenProperties
<1>2. PICK from : from = IF Len(s) > History THEN Len(s) - History + 1 ELSE 1
  OBVIOUS
<1>3. from \in Int /\ from >= 1 /\ Session!Recent(s) = SubSeq(s, from, Len(s))
  BY <1>1, <1>2 DEF Session!Recent
<1>4. \A i \in from .. Len(s) : s[i] \in Int
  BY <1>1, <1>3, ElementOfSeq
<1>5. /\ SubSeq(s, from, Len(s)) \in Seq(Int)
      /\ Len(SubSeq(s, from, Len(s))) = IF from <= Len(s) THEN Len(s) - from + 1 ELSE 0
      /\ \A i \in 1 .. Len(s) - from + 1 : SubSeq(s, from, Len(s))[i] = s[from + i - 1]
  BY <1>1, <1>3, <1>4, SubSeqProperties
<1>6. PICK r : r = SubSeq(s, from, Len(s))
  OBVIOUS
<1>7. Len(r) = IF Len(s) > History THEN History ELSE Len(s)
  <2>1. PICK n : n = Len(s)
    OBVIOUS
  <2>2. PICK k : k = Len(r)
    OBVIOUS
  <2>3. k = IF from <= n THEN n - from + 1 ELSE 0
    BY <1>5, <1>6, <2>1, <2>2, Zenon
  <2>4. n \in Nat /\ from = IF n > History THEN n - History + 1 ELSE 1
    BY <1>1, <1>2, <2>1, Zenon
  <2>5. k = IF n > History THEN History ELSE n
    BY <1>1, <2>3, <2>4
  <2> QED BY <2>1, <2>2, <2>5, Zenon
<1>8. ASSUME NEW i \in 1 .. Len(r) PROVE r[i] = s[Len(s) - Len(r) + i]
  <2>1. i \in 1 .. Len(s) - from + 1 /\ from + i - 1 = Len(s) - Len(r) + i
    BY <1>1, <1>2, <1>7
  <2> QED BY <1>5, <1>6, <2>1
<1> QED BY <1>3, <1>5, <1>6, <1>7, <1>8

(* The window of a convolution that takes in tokens in several steps is    *)
(* that of all of them at once.                                            *)
LEMMA RecentOfRecent ==
  ASSUME NEW s \in Seq(Int), NEW t \in Seq(Int)
  PROVE  Session!Recent(Session!Recent(s) \o t) = Session!Recent(s \o t)
<1>1. PICK r : r = Session!Recent(s)
  OBVIOUS
<1>2. /\ r \in Seq(Int)
      /\ Len(r) = IF Len(s) > History THEN History ELSE Len(s)
      /\ \A i \in 1 .. Len(r) : r[i] = s[Len(s) - Len(r) + i]
  BY <1>1, RecentIsEnd, Zenon
<1>3. PICK short : short = r \o t
  OBVIOUS
<1>4. PICK long : long = s \o t
  OBVIOUS
<1>5. /\ short \in Seq(Int) /\ Len(short) = Len(r) + Len(t)
      /\ \A i \in 1 .. Len(r) + Len(t) : short[i] = IF i <= Len(r) THEN r[i] ELSE t[i - Len(r)]
  BY <1>2, <1>3, ConcatProperties, Zenon
<1>6. /\ long \in Seq(Int) /\ Len(long) = Len(s) + Len(t)
      /\ \A i \in 1 .. Len(s) + Len(t) : long[i] = IF i <= Len(s) THEN s[i] ELSE t[i - Len(s)]
  BY <1>4, ConcatProperties, Zenon
<1>7. History \in Nat \ {0} /\ Len(s) \in Nat /\ Len(t) \in Nat /\ Len(r) \in Nat
  BY <1>2, SessionAssumption, LenProperties
<1>8. PICK one : one = Session!Recent(short)
  OBVIOUS
<1>9. PICK other : other = Session!Recent(long)
  OBVIOUS
<1>10. /\ one \in Seq(Int) /\ Len(one) = IF Len(short) > History THEN History ELSE Len(short)
       /\ \A i \in 1 .. Len(one) : one[i] = short[Len(short) - Len(one) + i]
  BY <1>5, <1>8, RecentIsEnd, Zenon
<1>11. /\ other \in Seq(Int) /\ Len(other) = IF Len(long) > History THEN History ELSE Len(long)
       /\ \A i \in 1 .. Len(other) : other[i] = long[Len(long) - Len(other) + i]
  BY <1>6, <1>9, RecentIsEnd, Zenon
<1>12. PICK n : n = Len(s)
  OBVIOUS
<1>13. PICK k : k = Len(t)
  OBVIOUS
<1>14. PICK e : e = IF n > History THEN History ELSE n
  OBVIOUS
<1>15. PICK f : f = IF n + k > History THEN History ELSE n + k
  OBVIOUS
<1>16. n \in Nat /\ k \in Nat /\ e \in Nat /\ f \in Nat /\ e <= n /\ f <= e + k /\ f <= n + k
  BY <1>7, <1>12, <1>13, <1>14, <1>15
<1>17. Len(r) = e /\ Len(short) = e + k /\ Len(long) = n + k
  BY <1>2, <1>5, <1>6, <1>12, <1>13, <1>14, Zenon
<1>18. Len(one) = f
  <2>1. Len(one) = IF e + k > History THEN History ELSE e + k
    BY <1>10, <1>17, Zenon
  <2>2. (IF e + k > History THEN History ELSE e + k) = f
    BY <1>7, <1>14, <1>15, <1>16
  <2> QED BY <2>1, <2>2
<1>19. Len(other) = f
  BY <1>11, <1>15, <1>17, Zenon
<1>20. ASSUME NEW i \in 1 .. f PROVE one[i] = other[i]
  <2>1. PICK j : j = e + k - f + i
    OBVIOUS
  <2>2. PICK h : h = n + k - f + i
    OBVIOUS
  <2>3. j \in 1 .. e + k /\ h \in 1 .. n + k /\ h - j = n - e
    BY <1>16, <2>1, <2>2
  <2>4. one[i] = short[j] /\ other[i] = long[h]
    <3>1. i \in 1 .. Len(one) /\ i \in 1 .. Len(other)
      BY <1>18, <1>19
    <3>2. one[i] = short[Len(short) - Len(one) + i] /\ other[i] = long[Len(long) - Len(other) + i]
      BY <1>10, <1>11, <3>1, Zenon
    <3>3. PICK a, b, x : a = Len(short) /\ b = Len(long) /\ x = Len(one) /\ x = Len(other)
      BY <1>18, <1>19
    <3>4. one[i] = short[a - x + i] /\ other[i] = long[b - x + i]
      BY <3>2, <3>3
    <3>5. a = e + k /\ b = n + k /\ x = f
      BY <1>17, <1>18, <3>3, Zenon
    <3>6. a - x + i = j /\ b - x + i = h
      BY <1>16, <2>1, <2>2, <3>5
    <3> QED BY <3>4, <3>6, Zenon
  <2>5. short[j] = IF j <= e THEN r[j] ELSE t[j - e]
    BY <1>5, <1>13, <1>17, <2>3, Zenon
  <2>6. long[h] = IF h <= n THEN s[h] ELSE t[h - n]
    BY <1>6, <1>12, <1>13, <2>3, Zenon
  <2>7. CASE j <= e
    <3>1. h <= n /\ j \in 1 .. e /\ n - e + j = h
      BY <1>16, <2>3, <2>7
    <3>2. r[j] = s[n - e + j]
      BY <1>2, <1>12, <1>17, <3>1, Zenon
    <3> QED BY <2>4, <2>5, <2>6, <2>7, <3>1, <3>2, Zenon
  <2>8. CASE ~(j <= e)
    <3>1. ~(h <= n) /\ h - n = j - e
      BY <1>16, <2>3, <2>8
    <3> QED BY <2>4, <2>5, <2>6, <2>8, <3>1, Zenon
  <2> QED BY <2>7, <2>8
<1>21. one = other
  BY <1>10, <1>11, <1>18, <1>19, <1>20, SeqEqual
<1> QED BY <1>1, <1>3, <1>4, <1>8, <1>9, <1>21, Zenon

(* What a recurrent state comes from when it has taken in n columns.       *)
LEMMA AfterFrom ==
  ASSUME NEW m, NEW n \in Nat, NEW x
  PROVE  x \in Session!After(m, n).from <=> x \in m.from \/ \E i \in 0 .. n - 1 : x \in hidden[i].from
<1>1. Session!After(m, n).from = m.from \cup Session!Sources({hidden[t] : t \in 0 .. n - 1})
  BY DEF Session!After
<1> QED BY <1>1 DEF Session!Sources

(* A recurrent state that takes in the next n tokens, in order.            *)
LEMMA AfterFollows ==
  ASSUME NEW m \in State, NEW g \in Nat, NEW n \in Nat, example \in {"gpt2", "qwen"}, MemoryOf(m, g),
         \A i \in 0 .. n - 1 : /\ hidden[i] \in Column /\ hidden[i].own = g + i
                               /\ g + i \in hidden[i].from /\ hidden[i].from \subseteq Text(g + n)
  PROVE  Session!After(m, n) \in State /\ MemoryOf(Session!After(m, n), g + n)
<1> DEFINE a == Session!After(m, n)
           owns == [i \in 1 .. n |-> hidden[i - 1].own]
<1>1. owns \in Seq(Int) /\ Len(owns) = n /\ \A i \in 1 .. n : owns[i] = g + i - 1
  <2>1. \A i \in 1 .. n : hidden[i - 1].own = g + i - 1 /\ g + i - 1 \in Int
    OBVIOUS
  <2> QED BY <2>1
<1>2. a = [folded |-> m.folded \o owns, window |-> Session!Recent(m.window \o owns),
           from |-> m.from \cup Session!Sources({hidden[t] : t \in 0 .. n - 1})]
  BY DEF Session!After
<1> HIDE DEF a, owns
<1>3. m.folded \in Seq(Int) /\ m.window \in Seq(Int) /\ m.from \in SUBSET Int
  BY DEF State
<1>4. a.folded = m.folded \o owns /\ a.window = Session!Recent(m.window \o owns)
  BY <1>2
<1>5. a.folded = [i \in 1 .. g + n |-> i - 1]
  <2>1. m.folded = [i \in 1 .. g |-> i - 1] /\ Len(m.folded) = g
    BY <1>3 DEF MemoryOf
  <2>2. PICK f : f = a.folded
    OBVIOUS
  <2>3. /\ f \in Seq(Int) /\ Len(f) = g + n
        /\ \A i \in 1 .. g + n : f[i] = IF i <= g THEN m.folded[i] ELSE owns[i - g]
    <3>1. /\ m.folded \o owns \in Seq(Int) /\ Len(m.folded \o owns) = Len(m.folded) + Len(owns)
          /\ \A i \in 1 .. Len(m.folded) + Len(owns) :
               (m.folded \o owns)[i] = IF i <= Len(m.folded) THEN m.folded[i] ELSE owns[i - Len(m.folded)]
      BY <1>1, <1>3, ConcatProperties, Zenon
    <3>2. Len(m.folded) = g /\ Len(owns) = n /\ f = m.folded \o owns
      BY <1>1, <1>4, <2>1, <2>2, Zenon
    <3> QED BY <3>1, <3>2, Zenon
  <2>4. ASSUME NEW i \in 1 .. g + n PROVE f[i] = i - 1
    <3>1. CASE i <= g
      <4>1. i \in 1 .. g
        BY <3>1
      <4>2. m.folded[i] = i - 1
        BY <2>1, <4>1
      <4> QED BY <2>3, <3>1, <4>2
    <3>2. CASE ~(i <= g)
      <4>1. i - g \in 1 .. n /\ g + (i - g) - 1 = i - 1
        BY <3>2
      <4>2. owns[i - g] = g + (i - g) - 1
        BY <1>1, <4>1
      <4> QED BY <2>3, <3>2, <4>1, <4>2
    <3> QED BY <3>1, <3>2
  <2>5. f = [i \in 1 .. g + n |-> f[i]]
    BY <2>3
  <2> QED BY <2>2, <2>4, <2>5
<1>6. a.window \in Seq(Int) /\ a.window = Session!Recent(a.folded)
  <2>1. m.window = Session!Recent(m.folded)
    BY DEF MemoryOf
  <2>2. m.window \o owns \in Seq(Int)
    BY <1>1, <1>3, ConcatProperties
  <2>3. a.window \in Seq(Int)
    BY <1>4, <2>2, RecentIsEnd
  <2>4. Session!Recent(Session!Recent(m.folded) \o owns) = Session!Recent(m.folded \o owns)
    BY <1>1, <1>3, RecentOfRecent
  <2> QED BY <1>4, <2>1, <2>3, <2>4, Zenon
<1>7. \A x : x \in a.from <=> x \in m.from \/ \E i \in 0 .. n - 1 : x \in hidden[i].from
  BY AfterFrom DEF a
<1>8. a.from \in SUBSET Int
  BY <1>3, <1>7 DEF Column
<1>9. a \in State
  <2>1. m.folded \o owns \in Seq(Int)
    BY <1>1, <1>3, ConcatProperties
  <2>2. a.folded \in Seq(Int)
    BY <1>4, <2>1
  <2> QED BY <1>2, <1>6, <1>8, <2>2 DEF State
<1>10. Tokens(g + n) \subseteq a.from
  <2> SUFFICES ASSUME NEW x \in Tokens(g + n) PROVE x \in a.from
    OBVIOUS
  <2>1. CASE x < g
    BY <1>7, <2>1 DEF MemoryOf, Tokens
  <2>2. CASE x >= g
    <3>1. x - g \in 0 .. n - 1 /\ g + (x - g) = x
      BY <2>2 DEF Tokens
    <3> QED BY <1>7, <3>1
  <2> QED BY <2>1, <2>2 DEF Tokens
<1>11. a.from \subseteq Text(g + n)
  <2>1. m.from \subseteq Text(g + n)
    BY DEF MemoryOf, Text, Tokens
  <2> QED BY <1>7, <2>1
<1> QED BY <1>5, <1>6, <1>9, <1>10, <1>11 DEF MemoryOf, a

-----------------------------------------------------------------------------
(* The constants are counts.                                               *)
LEMMA Counts ==
  /\ Layers \in Nat /\ Layers > 0 /\ MaxSeq \in Nat /\ MaxSeq > 0 /\ DecodeWidth \in Nat /\ DecodeWidth > 0
  /\ Prompts \subseteq Nat /\ Budgets \subseteq Nat
BY SessionAssumption, KernelAssumption

(* A session begins with nothing given to any layer.                       *)
LEMMA BeginsHolds ==
  ASSUME Inv, Session!Begins
  PROVE  Inv'
<1> USE DEF Session!Padding, Session!Nothing
<1>1. phase = "waiting" /\ phase' = "prefill" /\ position = 0 /\ layer = 0 /\ left = 0
  BY DEF Inv, Session!Begins
<1>2. position' = 0 /\ layer' = 0 /\ left' = 0
  BY <1>1 DEF Session!Begins
<1>3. example' \in {"gpt2", "qwen"} /\ prompt' \in Nat /\ budget' \in Nat
  BY Counts DEF Session!Begins
<1>4. Typed'
  <2>1. Session!Blank \in Column
    BY DEF Session!Blank, Column
  <2>2. cache' \in [0 .. Layers - 1 -> Cache]
    BY <2>1 DEF Session!Begins, Cache
  <2>3. Session!NoMemory \in State
    BY DEF Session!NoMemory, State
  <2>4. memory' \in [0 .. Layers - 1 -> State]
    BY <2>3 DEF Session!Begins
  <2> QED BY <1>2, <1>3, <2>2, <2>4, Counts DEF Typed
<1>5. Surface'
  <2> DEFINE at(t) == IF t \in Session!Real' THEN Session!Embedded(t, t)' ELSE Session!Embedded(-1, t)'
  <2>1. hidden' = [t \in Session!Columns' |-> at(t)]
    BY DEF Session!Begins
  <2>2. ASSUME NEW t \in Session!Columns' PROVE at(t) \in Column
    BY <1>3, <2>2, Counts DEF Session!Columns, Session!Padded, Session!Embedded, Column
  <2>3. \A t \in Session!Real' : t \in Session!Columns'
    <3>1. PICK w : w = IF prompt' > DecodeWidth THEN prompt' ELSE DecodeWidth
      OBVIOUS
    <3>2. Session!Real' = 0 .. prompt' - 1 /\ Session!Columns' = 0 .. w - 1
      BY <3>1 DEF Session!Real, Session!Columns, Session!Padded
    <3>3. w \in Nat /\ w >= prompt'
      BY <1>3, <3>1, Counts
    <3>4. PICK p : p = prompt'
      OBVIOUS
    <3>5. p \in Nat /\ w >= p /\ Session!Real' = 0 .. p - 1
      BY <1>3, <3>2, <3>3, <3>4, Zenon
    <3>6. \A t \in 0 .. p - 1 : t \in 0 .. w - 1
      BY <3>3, <3>5
    <3> QED BY <3>2, <3>5, <3>6, Zenon
  <2>4. ASSUME NEW t \in Session!Real', NEW column, column = at(t) PROVE ColumnOf(column, t, prompt, 0)'
    <3>1. column.own = t /\ column.from = {t} /\ (example' = "gpt2" => column.place = t)
      BY <2>4 DEF Session!Embedded
    <3>2. t \in Tokens(prompt)'
      BY <2>4 DEF Tokens, Session!Real
    <3> QED BY <3>1, <3>2 DEF ColumnOf, Text
  <2>5. ASSUME NEW t \in Session!Columns', example' # "gpt2" PROVE at(t).from \subseteq Text(prompt)'
    BY <1>3, <2>5 DEF Session!Real, Session!Embedded, Text, Tokens, Filler
  <2> HIDE DEF at
  <2>6. \A t \in Session!Columns' : hidden'[t] = at(t)
    BY <2>1
  <2>7. hidden' \in [Session!Columns' -> Column]
    BY <2>1, <2>2
  <2>8. \A t \in Session!Real' : ColumnOf(hidden[t], t, prompt, 0)'
    BY <2>3, <2>4, <2>6
  <2>9. example' # "gpt2" => \A t \in Session!Columns' : hidden'[t].from \subseteq Text(prompt)'
    BY <2>5, <2>6
  <2>10. Prefilled(hidden, 0)'
    BY <2>7, <2>8, <2>9 DEF Prefilled
  <2> QED BY <1>1, <1>2, <2>10 DEF Surface
<1>6. Kept'
  <2> SUFFICES ASSUME NEW l \in 0 .. Layers - 1
               PROVE  CacheOf(cache[l], 0)' /\ MemoryOf(memory[l], 0)' /\ Session!Given(l)' = 0
    BY DEF Kept
  <2>1. \A c \in 0 .. MaxSeq - 1 : cache'[l][c] = Session!Blank
    BY DEF Session!Begins
  <2>2. CacheOf(cache[l], 0)'
    BY <2>1 DEF CacheOf
  <2>3. memory'[l] = Session!NoMemory
    BY DEF Session!Begins
  <2>4. Session!Recent(<<>>) = <<>>
    <3>1. <<>> \in Seq(Int) /\ Len(<<>>) = 0 /\ ~(0 > History)
      BY EmptySeq, SessionAssumption
    <3>2. Session!Recent(<<>>) \in Seq(Int) /\ Len(Session!Recent(<<>>)) = 0
      BY <3>1, RecentIsEnd, Zenon
    <3> QED BY <3>2, EmptySeq
  <2>5. [i \in 1 .. 0 |-> i - 1] = <<>>
    OBVIOUS
  <2>6. MemoryOf(memory[l], 0)'
    BY <2>3, <2>4, <2>5 DEF MemoryOf, Session!NoMemory, Tokens, Text
  <2>7. Session!Given(l)' = 0
    BY <1>2 DEF Session!Given
  <2> QED BY <2>2, <2>6, <2>7
<1>7. SaysWhatWasSaid'
  BY <1>1 DEF SaysWhatWasSaid, Session!SaysWhatWasSaid
<1> QED BY <1>1, <1>4, <1>5, <1>6, <1>7 DEF Inv, Held

(* A layer is done: what it kept is replaced, its result is the surface,   *)
(* and all else stays.                                                     *)
LEMMA MovedHolds ==
  ASSUME Held, phase \in {"prefill", "decode"}, layer < Layers,
         NEW columns, NEW kv \in Cache, NEW states \in State,
         Session!Moves(columns, kv, states),
         NEW n, n = position + (IF phase = "prefill" THEN prompt ELSE 1),
         Session!Kind(layer) # "linear" => CacheOf(kv, n),
         Session!Kind(layer) = "linear" => MemoryOf(states, n),
         phase = "prefill" => Prefilled(columns, layer + 1),
         phase = "decode" => Decoded(columns, layer + 1)
  PROVE  Held'
<1>1. UNCHANGED <<example, prompt, budget, phase, position, left, logits>> /\ layer' = layer + 1
      /\ hidden' = columns /\ cache' = [cache EXCEPT ![layer] = kv] /\ memory' = [memory EXCEPT ![layer] = states]
  BY DEF Session!Moves, Session!input
<1>2. Typed
  BY DEF Held
<1>3. Typed'
  BY <1>1, <1>2, Counts DEF Typed
<1>4. Surface'
  BY <1>1 DEF Held, Surface, Prefilled, Decoded, ColumnOf, Text, Filler, Session!Columns, Session!Padded, Session!Real
<1>5. Kept'
  <2> SUFFICES ASSUME NEW l \in 0 .. Layers - 1
               PROVE  /\ (Session!Kind(l) # "linear" => CacheOf(cache[l], Session!Given(l)))'
                      /\ (Session!Kind(l) = "linear" => MemoryOf(memory[l], Session!Given(l)))'
    BY DEF Kept
  <2>1. Session!Kind(l)' = Session!Kind(l)
    BY <1>1 DEF Session!Kind
  <2>2. ASSUME NEW k, NEW c PROVE CacheOf(c, k)' <=> CacheOf(c, k)
    BY <1>1 DEF CacheOf, Text, Filler
  <2>3. ASSUME NEW k, NEW m PROVE MemoryOf(m, k)' <=> MemoryOf(m, k)
    BY <1>1 DEF MemoryOf, Text, Filler
  <2>4. CASE l = layer
    <3>1. cache'[l] = kv /\ memory'[l] = states /\ Session!Given(l)' = n
      BY <1>1, <1>2, <2>4 DEF Typed, Session!Given
    <3> QED BY <2>1, <2>2, <2>3, <2>4, <3>1
  <2>5. CASE l # layer
    <3>1. cache'[l] = cache[l] /\ memory'[l] = memory[l] /\ Session!Given(l)' = Session!Given(l)
      BY <1>1, <1>2, <2>5 DEF Typed, Session!Given
    <3> QED BY <2>1, <2>2, <2>3, <3>1 DEF Held, Kept
  <2> QED BY <2>4, <2>5
<1>6. SaysWhatWasSaid'
  BY <1>1 DEF SaysWhatWasSaid, Session!SaysWhatWasSaid
<1> QED BY <1>3, <1>4, <1>5, <1>6 DEF Held

(* What every layer was given stays as it is when no layer is given more.  *)
LEMMA KeptStays ==
  ASSUME Kept, UNCHANGED <<example, cache, memory>>,
         \A l \in 0 .. Layers - 1 : Session!Given(l)' = Session!Given(l)
  PROVE  Kept'
<1> SUFFICES ASSUME NEW l \in 0 .. Layers - 1
             PROVE  /\ (Session!Kind(l) # "linear" => CacheOf(cache[l], Session!Given(l)))'
                    /\ (Session!Kind(l) = "linear" => MemoryOf(memory[l], Session!Given(l)))'
  BY DEF Kept
<1>1. Session!Kind(l)' = Session!Kind(l)
  BY DEF Session!Kind
<1>2. ASSUME NEW k, NEW c PROVE CacheOf(c, k)' <=> CacheOf(c, k)
  BY DEF CacheOf, Text, Filler
<1>3. ASSUME NEW k, NEW m PROVE MemoryOf(m, k)' <=> MemoryOf(m, k)
  BY DEF MemoryOf, Text, Filler
<1> QED BY <1>1, <1>2, <1>3 DEF Kept

(* A column that attends to others comes from what they come from.         *)
LEMMA AttendingFrom ==
  ASSUME NEW column \in Column, NEW columns \in SUBSET Column
  PROVE  LET a == Session!Attending(column, columns)
         IN /\ a \in Column /\ a.own = column.own /\ a.place = column.place
            /\ \A x : x \in a.from <=> x \in column.from \/ \E c \in columns : x \in c.from
<1> DEFINE a == Session!Attending(column, columns)
<1>1. a = [column EXCEPT !.from = @ \cup Session!Sources(columns)]
  BY DEF Session!Attending
<1>2. \A x : x \in Session!Sources(columns) <=> \E c \in columns : x \in c.from
  BY DEF Session!Sources
<1>3. Session!Sources(columns) \subseteq Int
  BY <1>2 DEF Column
<1> QED BY <1>1, <1>2, <1>3 DEF Column

(* A rotated key is still the token's, at the place it is made for.        *)
LEMMA KeyOf ==
  ASSUME NEW column \in Column, NEW t \in Int, example = "gpt2" => column.place = t
  PROVE  /\ Session!Key(column, t) \in Column
         /\ Session!Key(column, t).own = column.own
         /\ Session!Key(column, t).place = t
         /\ Session!Key(column, t).from = column.from
BY DEF Session!Key, Column

(* Kinds of layers: GPT-2 has layers of one kind, Qwen none of that kind.  *)
LEMMA Kinds ==
  ASSUME example \in {"gpt2", "qwen"}, NEW l
  PROVE  /\ Session!Kind(l) \in {"fused", "full", "linear"}
         /\ Session!Kind(l) = "fused" <=> example = "gpt2"
BY DEF Session!Kind

(* The surface of prefill and the layer that works on it.                  *)
LEMMA InPrefill ==
  ASSUME Held, phase = "prefill", layer < Layers
  PROVE  /\ example \in {"gpt2", "qwen"} /\ prompt \in Nat /\ layer \in Nat /\ layer \in 0 .. Layers - 1
         /\ position = 0 /\ Session!Given(layer) = 0
         /\ cache[layer] \in Cache /\ memory[layer] \in State
         /\ hidden \in [Session!Columns -> Column]
         /\ Session!Real \subseteq Session!Columns
         /\ \A t \in Session!Columns : t \in Nat /\ 0 .. t \subseteq Session!Columns
         /\ Prefilled(hidden, layer)
<1>1. PICK w : w = Session!Padded
  OBVIOUS
<1>2. prompt \in Nat /\ w \in Nat /\ w >= prompt
  BY <1>1, Counts DEF Held, Typed, Session!Padded
<1>3. Session!Columns = 0 .. w - 1 /\ Session!Real = 0 .. prompt - 1
  BY <1>1 DEF Session!Columns, Session!Real
<1>4. Session!Real \subseteq Session!Columns
  BY <1>2, <1>3
<1>5. layer \in 0 .. Layers - 1 /\ position = 0 /\ Prefilled(hidden, layer)
  BY Counts DEF Held, Typed, Surface
<1>6. \A t \in Session!Columns : t \in Nat /\ 0 .. t \subseteq Session!Columns
  BY <1>2, <1>3
<1> QED BY <1>2, <1>4, <1>5, <1>6, Counts DEF Held, Typed, Prefilled, Session!Given

(* A layer that attends, in prefill: the keys of the prompt, and of it     *)
(* alone, go into the cache, each where its token is.                      *)
LEMMA PrefillAttendsHolds ==
  ASSUME Held, phase = "prefill", layer < Layers, Session!Kind(layer) # "linear",
         Session!Moves(Session!PrefillAttends, Session!Written(cache[layer]), memory[layer])
  PROVE  Held'
<1> DEFINE columns == Session!PrefillAttends
           kv == Session!Written(cache[layer])
           at(t) == Session!Attending(hidden[t], {hidden[s] : s \in Session!Visible(t)})
<1>1. /\ example \in {"gpt2", "qwen"} /\ prompt \in Nat /\ layer \in Nat /\ layer \in 0 .. Layers - 1
      /\ position = 0 /\ Session!Given(layer) = 0
      /\ cache[layer] \in Cache /\ memory[layer] \in State
      /\ hidden \in [Session!Columns -> Column]
      /\ Session!Real \subseteq Session!Columns
      /\ \A t \in Session!Columns : t \in Nat /\ 0 .. t \subseteq Session!Columns
      /\ Prefilled(hidden, layer)
  BY InPrefill
<1>2. \A t \in Session!Real : ColumnOf(hidden[t], t, prompt, layer) /\ hidden[t] \in Column
  BY <1>1 DEF Prefilled
<1>3. CacheOf(cache[layer], 0)
  BY <1>1 DEF Held, Kept
<1>4. kv \in Cache /\ CacheOf(kv, prompt)
  <2>1. kv = [c \in 0 .. MaxSeq - 1 |-> IF c \in Session!Real THEN Session!Key(hidden[c], c) ELSE cache[layer][c]]
    BY DEF Session!Written
  <2>2. ASSUME NEW c \in Session!Real
        PROVE  /\ Session!Key(hidden[c], c) \in Column
               /\ Session!Key(hidden[c], c).own = c /\ Session!Key(hidden[c], c).place = c
               /\ c \in Session!Key(hidden[c], c).from /\ Session!Key(hidden[c], c).from \subseteq Text(prompt)
    <3>1. c \in Int
      BY DEF Session!Real
    <3> QED BY <1>2, <3>1, KeyOf DEF ColumnOf
  <2>3. kv \in Cache
    <3> HIDE DEF kv
    <3>1. ASSUME NEW c \in 0 .. MaxSeq - 1
          PROVE  (IF c \in Session!Real THEN Session!Key(hidden[c], c) ELSE cache[layer][c]) \in Column
      BY <1>1, <2>2 DEF Cache
    <3> QED BY <2>1, <3>1 DEF Cache
  <2>4. \A c \in 0 .. MaxSeq - 1 : c < prompt <=> c \in Session!Real
    BY <1>1, Counts DEF Session!Real
  <2>5. \A c \in 0 .. MaxSeq - 1 : cache[layer][c] = Session!Blank
    BY <1>3 DEF CacheOf
  <2>6. CacheOf(kv, prompt)
    BY <1>1, <2>1, <2>2, <2>4, <2>5, Counts DEF CacheOf
  <2> QED BY <2>3, <2>6
<1>5. columns = [t \in Session!Columns |-> at(t)]
  BY DEF Session!PrefillAttends
<1>6. ASSUME NEW t \in Session!Columns
      PROVE  {hidden[s] : s \in Session!Visible(t)} \in SUBSET Column
  <2>1. Session!Visible(t) \subseteq Session!Columns
    BY <1>1, <1>6 DEF Session!Visible
  <2> QED BY <1>1, <2>1
<1>7. ASSUME NEW t \in Session!Columns
      PROVE  /\ at(t) \in Column /\ at(t).own = hidden[t].own /\ at(t).place = hidden[t].place
             /\ \A x : x \in at(t).from <=> x \in hidden[t].from \/ \E s \in Session!Visible(t) : x \in hidden[s].from
  BY <1>1, <1>6, <1>7, AttendingFrom
<1>8. ASSUME NEW t \in Session!Real PROVE ColumnOf(at(t), t, prompt, layer + 1)
  <2>1. t \in Session!Columns /\ t \in Nat
    BY <1>1 DEF Session!Real
  <2>2. ASSUME NEW s \in Session!Visible(t) PROVE hidden[s].from \subseteq Text(prompt)
    <3>1. CASE example = "gpt2"
      <4>1. s \in Session!Real
        BY <1>1, <3>1 DEF Session!Visible, Session!Real
      <4> QED BY <1>2, <4>1 DEF ColumnOf
    <3>2. CASE example # "gpt2"
      BY <1>1, <3>2 DEF Session!Visible, Prefilled
    <3> QED BY <3>1, <3>2
  <2>3. ASSUME NEW s \in 0 .. t PROVE s \in Session!Visible(t) /\ s \in hidden[s].from
    <3>1. s \in Session!Real
      BY <1>1 DEF Session!Real
    <3> QED BY <1>1, <1>2, <3>1 DEF Session!Visible, ColumnOf
  <2> HIDE DEF at
  <2>4. at(t).from \subseteq Text(prompt)
    BY <1>2, <1>7, <2>1, <2>2 DEF ColumnOf
  <2>5. 0 .. t \subseteq at(t).from
    BY <1>7, <2>1, <2>3
  <2> QED BY <1>2, <1>7, <2>1, <2>4, <2>5 DEF ColumnOf
<1>9. ASSUME NEW t \in Session!Columns, example # "gpt2" PROVE at(t).from \subseteq Text(prompt)
  <2>1. Session!Visible(t) = Session!Columns
    BY <1>9 DEF Session!Visible
  <2> HIDE DEF at
  <2> QED BY <1>1, <1>7, <1>9, <2>1 DEF Prefilled
<1> HIDE DEF at, columns, kv
<1>10. Prefilled(columns, layer + 1)
  <2>1. columns \in [Session!Columns -> Column]
    BY <1>5, <1>7
  <2>2. \A t \in Session!Real : ColumnOf(columns[t], t, prompt, layer + 1)
    BY <1>1, <1>5, <1>8
  <2>3. example # "gpt2" => \A t \in Session!Columns : columns[t].from \subseteq Text(prompt)
    BY <1>5, <1>9
  <2> QED BY <2>1, <2>2, <2>3 DEF Prefilled
<1>11. Session!Moves(columns, kv, memory[layer])
  BY DEF columns, kv
<1>12. prompt = position + (IF phase = "prefill" THEN prompt ELSE 1)
  BY <1>1
<1> QED BY <1>1, <1>4, <1>10, <1>11, <1>12, MovedHolds

(* A linear layer, in prefill: the recurrent state takes in the prompt and *)
(* none of the padding.                                                    *)
LEMMA PrefillLinearHolds ==
  ASSUME Held, Session!PrefillLinear
  PROVE  Held'
<1> DEFINE at(t) == IF t \in Session!Real
                    THEN [hidden[t] EXCEPT !.from = @ \cup Session!After(memory[layer], t + 1).from]
                    ELSE hidden[t]
           columns == [t \in Session!Columns |-> at(t)]
           states == Session!After(memory[layer], prompt)
<1>1. /\ phase = "prefill" /\ layer < Layers /\ Session!Kind(layer) = "linear"
      /\ Session!Moves(columns, cache[layer], states)
  BY DEF Session!PrefillLinear, Session!AtLayer, Session!TakenIn
<1>2. /\ example \in {"gpt2", "qwen"} /\ prompt \in Nat /\ layer \in Nat /\ layer \in 0 .. Layers - 1
      /\ position = 0 /\ Session!Given(layer) = 0
      /\ cache[layer] \in Cache /\ memory[layer] \in State
      /\ hidden \in [Session!Columns -> Column]
      /\ Session!Real \subseteq Session!Columns
      /\ Prefilled(hidden, layer)
  BY <1>1, InPrefill
<1>3. \A t \in Session!Real : ColumnOf(hidden[t], t, prompt, layer) /\ hidden[t] \in Column /\ t \in Nat
  BY <1>2 DEF Prefilled, Session!Real
<1>4. MemoryOf(memory[layer], 0)
  BY <1>1, <1>2 DEF Held, Kept
<1>5. states \in State /\ MemoryOf(states, prompt)
  <2>1. ASSUME NEW i \in 0 .. prompt - 1
        PROVE  /\ hidden[i] \in Column /\ hidden[i].own = 0 + i
               /\ 0 + i \in hidden[i].from /\ hidden[i].from \subseteq Text(0 + prompt)
    BY <1>2, <1>3 DEF ColumnOf, Session!Real
  <2>2. Session!After(memory[layer], prompt) \in State /\ MemoryOf(Session!After(memory[layer], prompt), 0 + prompt)
    BY <1>2, <1>4, <2>1, AfterFollows
  <2> QED BY <1>2, <2>2
<1>6. ASSUME NEW t \in Session!Real, NEW x
      PROVE  x \in Session!After(memory[layer], t + 1).from
               <=> x \in memory[layer].from \/ \E i \in 0 .. t : x \in hidden[i].from
  <2>1. t + 1 \in Nat /\ (t + 1) - 1 = t
    BY <1>3
  <2> QED BY <2>1, AfterFrom
<1>7. memory[layer].from \subseteq Text(prompt)
  BY <1>2, <1>4 DEF MemoryOf, Text, Tokens
<1>8. ASSUME NEW t \in Session!Real
      PROVE  at(t) \in Column /\ ColumnOf(at(t), t, prompt, layer + 1)
  <2>1. PICK new : new = Session!After(memory[layer], t + 1).from
    OBVIOUS
  <2>2. \A i \in 0 .. t : i \in Session!Real
    BY <1>2, <1>3 DEF Session!Real
  <2>3. new \subseteq Text(prompt)
    BY <1>3, <1>6, <1>7, <2>1, <2>2 DEF ColumnOf
  <2>4. 0 .. t \subseteq new
    BY <1>3, <1>6, <2>1, <2>2 DEF ColumnOf
  <2>5. new \subseteq Int
    BY <1>2, <1>3, <1>6, <2>1, <2>2 DEF Column, State
  <2>6. at(t) = [hidden[t] EXCEPT !.from = @ \cup new]
    BY <2>1
  <2> HIDE DEF at
  <2>7. /\ at(t) \in Column /\ at(t).own = hidden[t].own /\ at(t).place = hidden[t].place
        /\ at(t).from = hidden[t].from \cup new
    BY <1>3, <2>5, <2>6 DEF Column
  <2> QED BY <1>3, <2>3, <2>4, <2>7 DEF ColumnOf
<1>9. ASSUME NEW t \in Session!Columns
      PROVE  at(t) \in Column /\ (example # "gpt2" => at(t).from \subseteq Text(prompt))
  <2>1. CASE t \in Session!Real
    <3> HIDE DEF at
    <3> QED BY <1>8, <2>1 DEF ColumnOf
  <2>2. CASE t \notin Session!Real
    BY <1>2, <2>2 DEF Prefilled
  <2> QED BY <2>1, <2>2
<1> HIDE DEF at, states
<1>10. Prefilled(columns, layer + 1)
  BY <1>2, <1>8, <1>9 DEF Prefilled
<1>11. prompt = position + (IF phase = "prefill" THEN prompt ELSE 1)
  BY <1>1, <1>2
<1> HIDE DEF columns
<1> QED BY <1>1, <1>2, <1>5, <1>10, <1>11, MovedHolds

(* The surface of a step and the layer that works on it.                   *)
LEMMA InDecode ==
  ASSUME Held, phase = "decode", layer < Layers
  PROVE  /\ example \in {"gpt2", "qwen"} /\ layer \in Nat /\ layer \in 0 .. Layers - 1
         /\ position \in Nat /\ Session!Given(layer) = position
         /\ cache[layer] \in Cache /\ memory[layer] \in State
         /\ hidden[0] \in Column /\ ColumnOf(hidden[0], position, position + 1, layer)
<1>1. layer \in 0 .. Layers - 1 /\ position \in Nat /\ Decoded(hidden, layer)
  BY Counts DEF Held, Typed, Surface
<1> QED BY <1>1, Counts DEF Held, Typed, Decoded, Session!Given

(* A column of a step that comes from more tokens of the text.             *)
LEMMA DecodedColumn ==
  ASSUME Held, phase = "decode", layer < Layers, NEW column \in Column,
         column.own = hidden[0].own, column.place = hidden[0].place,
         hidden[0].from \subseteq column.from,
         column.from \subseteq Text(position + 1),
         Tokens(position + 1) \subseteq column.from
  PROVE  Decoded([t \in {0} |-> column], layer + 1)
<1>1. position \in Nat /\ ColumnOf(hidden[0], position, position + 1, layer)
  BY InDecode
<1>2. Tokens(position + 1) = 0 .. position
  BY <1>1 DEF Tokens
<1>3. ColumnOf(column, position, position + 1, layer + 1)
  BY <1>1, <1>2 DEF ColumnOf
<1> QED BY <1>3 DEF Decoded

(* A layer that attends, in a step: the key of the token goes into the     *)
(* next column, and the token attends to every one before it.              *)
LEMMA DecodeAttendsHolds ==
  ASSUME Held, phase = "decode", layer < Layers, Session!Kind(layer) # "linear", position < MaxSeq,
         NEW kv, kv = [cache[layer] EXCEPT ![position] = Session!Key(hidden[0], position)],
         NEW seen, seen = kv \/ (seen = cache[layer] /\ example = "gpt2"),
         Session!Moves([t \in {0} |-> Session!Attending(hidden[0], Session!Unmasked(seen))], kv, memory[layer])
  PROVE  Held'
<1>1. /\ example \in {"gpt2", "qwen"} /\ layer \in Nat /\ layer \in 0 .. Layers - 1
      /\ position \in Nat /\ Session!Given(layer) = position
      /\ cache[layer] \in Cache /\ memory[layer] \in State
      /\ hidden[0] \in Column /\ ColumnOf(hidden[0], position, position + 1, layer)
  BY InDecode
<1>2. CacheOf(cache[layer], position)
  BY <1>1 DEF Held, Kept
<1>3. PICK key : key = Session!Key(hidden[0], position)
  OBVIOUS
<1>4. /\ key \in Column /\ key.own = position /\ key.place = position
      /\ position \in key.from /\ key.from \subseteq Text(position + 1)
  <2>1. position \in Int /\ (example = "gpt2" => hidden[0].place = position)
    BY <1>1 DEF ColumnOf
  <2>2. /\ key \in Column /\ key.own = hidden[0].own
        /\ key.place = position /\ key.from = hidden[0].from
    BY <1>1, <1>3, <2>1, KeyOf
  <2> QED BY <1>1, <2>2 DEF ColumnOf
<1>5. position \in 0 .. MaxSeq - 1
  BY <1>1, Counts
<1>6. /\ kv \in Cache /\ kv[position] = key
      /\ \A c \in 0 .. MaxSeq - 1 : c # position => kv[c] = cache[layer][c]
  BY <1>1, <1>3, <1>4, <1>5 DEF Cache
<1>7. Text(position) \subseteq Text(position + 1)
  BY <1>1 DEF Text, Tokens
<1>8. CacheOf(kv, position + 1)
  <2> SUFFICES ASSUME NEW c \in 0 .. MaxSeq - 1
               PROVE  /\ c < position + 1 => /\ kv[c].own = c /\ kv[c].place = c /\ c \in kv[c].from
                                             /\ kv[c].from \subseteq Text(position + 1)
                      /\ c >= position + 1 => kv[c] = Session!Blank
    BY DEF CacheOf
  <2>1. CASE c = position
    BY <1>1, <1>4, <1>6, <2>1
  <2>2. CASE c < position
    BY <1>1, <1>2, <1>6, <1>7, <2>2 DEF CacheOf
  <2>3. CASE c > position
    BY <1>1, <1>2, <1>6, <2>3 DEF CacheOf
  <2> QED BY <1>1, <2>1, <2>2, <2>3
<1>9. seen \in Cache
  BY <1>1, <1>6
<1>10. \A c \in 0 .. position : c \in 0 .. MaxSeq - 1 /\ c < MaxSeq
  BY <1>1, Counts
<1>11. ASSUME NEW c \in 0 .. position
       PROVE  seen[c].from \subseteq Text(position + 1) /\ (c < position => c \in seen[c].from)
  <2>1. CASE seen = kv
    BY <1>1, <1>8, <1>10, <2>1 DEF CacheOf
  <2>2. CASE seen = cache[layer] /\ example = "gpt2" /\ c < position
    BY <1>1, <1>2, <1>7, <1>10, <2>2 DEF CacheOf
  <2>3. CASE seen = cache[layer] /\ example = "gpt2" /\ c = position
    <3>1. seen[c] = Session!Blank
      BY <1>1, <1>2, <1>10, <2>3 DEF CacheOf
    <3> QED BY <1>1, <2>3, <3>1 DEF Session!Blank, Text, Filler
  <2> QED BY <1>1, <2>1, <2>2, <2>3
<1>12. Session!Unmasked(seen) \in SUBSET Column
       /\ \A x : (\E c \in Session!Unmasked(seen) : x \in c.from) <=> \E c \in 0 .. position : x \in seen[c].from
  <2>1. Session!Unmasked(seen) = {seen[c] : c \in 0 .. position}
    BY <1>10 DEF Session!Unmasked
  <2>2. \A c \in 0 .. position : seen[c] \in Column
    BY <1>9, <1>10 DEF Cache
  <2> QED BY <2>1, <2>2
<1>13. PICK column : column = Session!Attending(hidden[0], Session!Unmasked(seen))
  OBVIOUS
<1>14. /\ column \in Column /\ column.own = hidden[0].own /\ column.place = hidden[0].place
       /\ \A x : x \in column.from <=> x \in hidden[0].from \/ \E c \in 0 .. position : x \in seen[c].from
  BY <1>1, <1>12, <1>13, AttendingFrom
<1>15. column.from \subseteq Text(position + 1)
  BY <1>1, <1>11, <1>14 DEF ColumnOf
<1>16. Tokens(position + 1) \subseteq column.from
  <2> SUFFICES ASSUME NEW c \in 0 .. position PROVE c \in column.from
    BY <1>1 DEF Tokens
  <2>1. CASE c = position
    BY <1>1, <1>14, <2>1 DEF ColumnOf
  <2>2. CASE c < position
    BY <1>11, <1>14, <2>2
  <2> QED BY <1>1, <2>1, <2>2
<1>17. Decoded([t \in {0} |-> column], layer + 1)
  BY <1>14, <1>15, <1>16, DecodedColumn
<1>18. Session!Moves([t \in {0} |-> column], kv, memory[layer])
  BY <1>13
<1>19. position + 1 = position + (IF phase = "prefill" THEN prompt ELSE 1)
  OBVIOUS
<1> QED BY <1>1, <1>6, <1>8, <1>17, <1>18, <1>19, MovedHolds

(* A linear layer, in a step.                                              *)
LEMMA DecodeLinearHolds ==
  ASSUME Held, Session!DecodeLinear
  PROVE  Held'
<1>1. PICK m : m = Session!After(memory[layer], 1)
  OBVIOUS
<1>2. PICK column : column = [hidden[0] EXCEPT !.from = @ \cup m.from]
  OBVIOUS
<1>3. /\ phase = "decode" /\ layer < Layers /\ Session!Kind(layer) = "linear"
      /\ Session!Moves([t \in {0} |-> column], cache[layer], m)
  BY <1>1, <1>2 DEF Session!DecodeLinear, Session!AtLayer
<1>4. /\ example \in {"gpt2", "qwen"} /\ layer \in Nat /\ layer \in 0 .. Layers - 1
      /\ position \in Nat /\ Session!Given(layer) = position
      /\ cache[layer] \in Cache /\ memory[layer] \in State
      /\ hidden[0] \in Column /\ ColumnOf(hidden[0], position, position + 1, layer)
  BY <1>3, InDecode
<1>5. MemoryOf(memory[layer], position)
  BY <1>3, <1>4 DEF Held, Kept
<1>6. m \in State /\ MemoryOf(m, position + 1)
  <2>1. ASSUME NEW i \in 0 .. 1 - 1
        PROVE  /\ hidden[i] \in Column /\ hidden[i].own = position + i
               /\ position + i \in hidden[i].from /\ hidden[i].from \subseteq Text(position + 1)
    <3>1. i = 0 /\ position + i = position
      BY <1>4
    <3> QED BY <1>4, <3>1 DEF ColumnOf
  <2> QED BY <1>1, <1>4, <1>5, <2>1, AfterFollows
<1>7. /\ column \in Column /\ column.own = hidden[0].own /\ column.place = hidden[0].place
      /\ column.from = hidden[0].from \cup m.from
  BY <1>2, <1>4, <1>6 DEF Column, State
<1>8. Decoded([t \in {0} |-> column], layer + 1)
  BY <1>3, <1>4, <1>6, <1>7, DecodedColumn DEF ColumnOf, MemoryOf
<1>9. position + 1 = position + (IF phase = "prefill" THEN prompt ELSE 1)
  BY <1>3
<1> QED BY <1>3, <1>4, <1>6, <1>8, <1>9, MovedHolds

-----------------------------------------------------------------------------
(* The prompt has been through all layers.                                 *)
LEMMA EndsPrefillHolds ==
  ASSUME Held, Session!EndsPrefill, phase' # "panicked"
  PROVE  Held'
<1>1. /\ phase = "prefill" /\ layer = Layers /\ prompt # 0 /\ phase' = "first" /\ position' = prompt
      /\ logits' = hidden[prompt - 1].from
      /\ UNCHANGED <<example, prompt, budget, layer, left, hidden, cache, memory>>
  BY DEF Session!EndsPrefill, Session!Panics, Session!input
<1>2. Typed /\ position = 0 /\ Prefilled(hidden, layer) /\ prompt \in Nat
  BY <1>1 DEF Held, Surface, Typed
<1>3. Typed' /\ Surface'
  BY <1>1, <1>2 DEF Typed, Surface
<1>4. ASSUME NEW l \in 0 .. Layers - 1 PROVE Session!Given(l)' = Session!Given(l)
  BY <1>1, <1>2, Counts DEF Session!Given
<1>5. Kept'
  BY <1>1, <1>4, KeptStays DEF Held
<1>6. SaysWhatWasSaid'
  <2>1. prompt - 1 \in Session!Real /\ layer > 0
    BY <1>1, <1>2, Counts DEF Session!Real
  <2>2. ColumnOf(hidden[prompt - 1], prompt - 1, prompt, layer)
    BY <1>2, <2>1 DEF Prefilled
  <2>3. 0 .. prompt - 1 \subseteq logits' /\ logits' \subseteq Text(prompt)
    BY <1>1, <2>1, <2>2 DEF ColumnOf
  <2> QED BY <1>1, <2>3 DEF SaysWhatWasSaid, Session!SaysWhatWasSaid, Text, Tokens, Filler
<1> QED BY <1>3, <1>5, <1>6 DEF Held

(* Generation goes on, or ends.                                            *)
LEMMA TurnsHold ==
  ASSUME Held, Session!FirstToken \/ Session!Finishes, phase' # "panicked"
  PROVE  Held'
<1>1. /\ phase \in {"first", "sampled"} /\ phase' \in {"sampled", "done"}
      /\ phase' = "sampled" => phase = "first"
      /\ left' = left \/ left' \in Session!Turns
      /\ UNCHANGED <<example, prompt, budget, layer, position, hidden, cache, memory, logits>>
  BY DEF Session!FirstToken, Session!Finishes, Session!Panics, Session!input
<1>2. left' \in Nat
  BY <1>1, Counts DEF Held, Typed, Session!Turns
<1>3. Typed' /\ Surface'
  BY <1>1, <1>2 DEF Held, Typed, Surface
<1>4. ASSUME NEW l \in 0 .. Layers - 1 PROVE Session!Given(l)' = Session!Given(l)
  BY <1>1 DEF Session!Given
<1>5. Kept'
  BY <1>1, <1>4, KeptStays DEF Held
<1>6. SaysWhatWasSaid'
  BY <1>1 DEF Held, SaysWhatWasSaid, Session!SaysWhatWasSaid
<1> QED BY <1>3, <1>5, <1>6 DEF Held

(* A step begins with the token that was drawn.                            *)
LEMMA StartsStepHolds ==
  ASSUME Held, Session!StartsStep
  PROVE  Held'
<1>1. /\ phase = "sampled" /\ phase' = "decode" /\ layer' = 0 /\ left' = left - 1 /\ left > 0
      /\ hidden' = [t \in {0} |-> Session!Embedded(position, position)]
      /\ UNCHANGED <<example, prompt, budget, position, cache, memory, logits>>
  BY DEF Session!StartsStep, Session!input
<1>2. Typed
  BY DEF Held
<1>3. Typed'
  BY <1>1, <1>2, Counts DEF Typed
<1>4. Surface'
  <2>1. PICK column : column = Session!Embedded(position, position)
    OBVIOUS
  <2>2. column = [own |-> position, place |-> IF example = "gpt2" THEN position ELSE -2, from |-> {position}]
    BY <2>1 DEF Session!Embedded, Session!Nothing
  <2>3. column \in Column
    BY <1>2, <2>2 DEF Typed, Column
  <2>4. position \in Text(position + 1)
    BY <1>2 DEF Typed, Text, Tokens
  <2>5. ColumnOf(column, position, position + 1, 0)
    BY <2>2, <2>4 DEF ColumnOf
  <2>6. Decoded([t \in {0} |-> column], 0)
    BY <2>3, <2>5 DEF Decoded
  <2>7. Decoded(hidden, layer)'
    BY <1>1, <2>1, <2>6 DEF Decoded, ColumnOf, Text, Filler
  <2> QED BY <1>1, <2>7 DEF Surface
<1>5. ASSUME NEW l \in 0 .. Layers - 1 PROVE Session!Given(l)' = Session!Given(l)
  BY <1>1, <1>2 DEF Typed, Session!Given
<1>6. Kept'
  BY <1>1, <1>5, KeptStays DEF Held
<1>7. SaysWhatWasSaid'
  BY <1>1 DEF SaysWhatWasSaid, Session!SaysWhatWasSaid
<1> QED BY <1>3, <1>4, <1>6, <1>7 DEF Held

(* A step has been through all layers.                                     *)
LEMMA EndsStepHolds ==
  ASSUME Held, Session!EndsStep
  PROVE  Held'
<1>1. /\ phase = "decode" /\ layer = Layers /\ phase' = "sampled" /\ position' = position + 1
      /\ logits' = hidden[0].from
      /\ UNCHANGED <<example, prompt, budget, layer, left, hidden, cache, memory>>
  BY DEF Session!EndsStep, Session!input
<1>2. Typed /\ Decoded(hidden, layer) /\ position \in Nat /\ layer > 0
  BY <1>1, Counts DEF Held, Surface, Typed
<1>3. Typed' /\ Surface'
  BY <1>1, <1>2 DEF Typed, Surface
<1>4. ASSUME NEW l \in 0 .. Layers - 1 PROVE Session!Given(l)' = Session!Given(l)
  BY <1>1, <1>2, Counts DEF Session!Given
<1>5. Kept'
  BY <1>1, <1>4, KeptStays DEF Held
<1>6. SaysWhatWasSaid'
  <2>1. 0 .. position \subseteq logits' /\ logits' \subseteq Text(position + 1)
    BY <1>1, <1>2 DEF Decoded, ColumnOf
  <2>2. position' - 1 = position
    BY <1>1, <1>2
  <2> QED BY <1>1, <2>1, <2>2 DEF SaysWhatWasSaid, Session!SaysWhatWasSaid, Text, Tokens, Filler
<1> QED BY <1>3, <1>5, <1>6 DEF Held

-----------------------------------------------------------------------------
(* Every step of a session keeps the invariant.                            *)
LEMMA SessionStep ==
  ASSUME Inv, [Session!Next]_(Session!vars)
  PROVE  Inv'
<1>1. CASE UNCHANGED Session!vars
  <2>1. Held => Held'
    BY <1>1 DEF Session!vars, Held, Typed, Surface, Kept, CacheOf, MemoryOf, Prefilled, Decoded, ColumnOf, Text, Filler,
                Session!Kind, Session!Given, Session!Columns, Session!Padded, Session!Real,
                SaysWhatWasSaid, Session!SaysWhatWasSaid
  <2> QED BY <1>1, <2>1 DEF Session!vars, Inv, Session!Going
<1>2. CASE Session!Begins
  BY <1>2, BeginsHolds
<1>3. CASE phase' \in {"panicked", "failed"}
  BY <1>3 DEF Inv, Session!Going
<1>4. ASSUME Session!Next, ~Session!Begins, phase' \notin {"panicked", "failed"} PROVE Held'
  <2>1. phase \notin {"waiting", "panicked", "failed"}
    BY <1>4 DEF Session!Next, Session!Works, Session!AneFails, Session!PrefillFused, Session!PrefillFull, Session!PrefillLinear,
                Session!EndsPrefill, Session!FirstToken, Session!StartsStep, Session!Finishes, Session!DecodeFused,
                Session!DecodeFull, Session!DecodeLinear, Session!EndsStep
  <2>2. Held
    BY <2>1 DEF Inv, Session!Going
  <2>3. position \in Nat
    BY <2>2 DEF Held, Typed
  <2>4. CASE Session!PrefillFused \/ Session!PrefillFull
    <3>1. /\ phase = "prefill" /\ layer < Layers /\ Session!Kind(layer) # "linear"
          /\ Session!Moves(Session!PrefillAttends, Session!Written(cache[layer]), memory[layer])
      BY <1>4, <2>4 DEF Session!PrefillFused, Session!PrefillFull, Session!AtLayer, Session!Panics
    <3> QED BY <2>2, <3>1, PrefillAttendsHolds
  <2>5. CASE Session!PrefillLinear
    BY <2>2, <2>5, PrefillLinearHolds
  <2>6. CASE Session!EndsPrefill
    BY <1>4, <2>2, <2>6, EndsPrefillHolds
  <2>7. CASE Session!FirstToken \/ Session!Finishes
    BY <1>4, <2>2, <2>7, TurnsHold
  <2>8. CASE Session!StartsStep
    BY <2>2, <2>8, StartsStepHolds
  <2>9. CASE Session!DecodeFused
    <3>1. /\ phase = "decode" /\ layer < Layers /\ Session!Kind(layer) = "fused" /\ ~(position >= MaxSeq)
          /\ Session!Moves([t \in {0} |-> Session!Attending(hidden[0], Session!Unmasked(cache[layer]))],
                           [cache[layer] EXCEPT ![position] = Session!Key(hidden[0], position)], memory[layer])
      BY <1>4, <2>9 DEF Session!DecodeFused, Session!AtLayer, Session!Panics
    <3>2. example = "gpt2" /\ position < MaxSeq
      BY <2>2, <2>3, <3>1, Kinds, Counts DEF Held, Typed
    <3> QED BY <2>2, <3>1, <3>2, DecodeAttendsHolds
  <2>10. CASE Session!DecodeFull
    <3>1. PICK kv : kv = [cache[layer] EXCEPT ![position] = Session!Key(hidden[0], position)]
      OBVIOUS
    <3>2. /\ phase = "decode" /\ layer < Layers /\ Session!Kind(layer) = "full" /\ ~(position + DecodeWidth > MaxSeq)
          /\ Session!Moves([t \in {0} |-> Session!Attending(hidden[0], Session!Unmasked(kv))], kv, memory[layer])
      BY <1>4, <2>10, <3>1 DEF Session!DecodeFull, Session!AtLayer, Session!Panics
    <3>3. position < MaxSeq
      BY <2>3, <3>2, Counts
    <3> QED BY <2>2, <3>1, <3>2, <3>3, DecodeAttendsHolds
  <2>11. CASE Session!DecodeLinear
    BY <2>2, <2>11, DecodeLinearHolds
  <2>12. CASE Session!EndsStep
    BY <2>2, <2>12, EndsStepHolds
  <2>13. CASE Session!AneFails
    BY <1>4, <2>13 DEF Session!AneFails
  <2> QED BY <1>4, <2>4, <2>5, <2>6, <2>7, <2>8, <2>9, <2>10, <2>11, <2>12, <2>13 DEF Session!Next, Session!Works
<1>5. ASSUME Session!Next, ~Session!Begins PROVE phase' # "waiting"
  BY <1>5 DEF Session!Next, Session!Works, Session!AneFails, Session!PrefillFused, Session!PrefillFull, Session!PrefillLinear,
              Session!EndsPrefill, Session!FirstToken, Session!StartsStep, Session!Finishes, Session!DecodeFused,
              Session!DecodeFull, Session!DecodeLinear, Session!EndsStep, Session!Panics, Session!Moves
<1> QED BY <1>1, <1>2, <1>3, <1>4, <1>5 DEF Inv

(* Every run of the runtime is a run of one session: what is built,        *)
(* compiled, run and dropped before it, and beside it, changes nothing it  *)
(* reads (main, compile_all).                                              *)
THEOREM RunsAreSessions == RuntimeSpec => Session!Spec
<1>1. RuntimeInit => Session!Init
  BY DEF RuntimeInit
<1>2. [RuntimeNext]_runtime => [Session!Next]_(Session!vars)
  BY DEF RuntimeNext, runtime, Prepares, Begins, Works, Fails, session, Session!vars, Session!Next, Session!Works, Session!Begins
<1> QED BY <1>1, <1>2, PTL DEF RuntimeSpec, Session!Spec

LEMMA InvHolds == RuntimeSpec => []Inv
<1>1. Session!Init => Inv
  BY DEF Session!Init, Inv, Session!Going
<1>2. Inv /\ [Session!Next]_(Session!vars) => Inv'
  BY SessionStep
<1> QED BY <1>1, <1>2, RunsAreSessions, PTL DEF Session!Spec

(* Every linear layer of every model has taken in exactly the tokens it    *)
(* was given, each once and in the order of the text, and no padding; the  *)
(* window of its convolution holds the last (session.rs, deltanet.rs).     *)
THEOREM RecurrenceTheorem == RuntimeSpec => []RecurrenceFollows
<1>1. Inv => RecurrenceFollows
  BY DEF Inv, Held, Kept, MemoryOf, RecurrenceFollows, Session!RecurrenceFollows
<1> QED BY <1>1, InvHolds, PTL

(* Every cache holds the key of token c in column c, made for position c,  *)
(* for the tokens its layer was given, and nothing elsewhere (kv_cache.rs, *)
(* rope.rs).                                                               *)
THEOREM CacheTheorem == RuntimeSpec => []CacheFollows
<1>1. Inv => CacheFollows
  <2> SUFFICES ASSUME Inv, Session!Going, NEW l \in 0 .. Layers - 1, Session!Kind(l) # "linear",
                      NEW c \in 0 .. MaxSeq - 1
               PROVE  IF c < Session!Given(l) THEN cache[l][c].own = c /\ cache[l][c].place = c
                      ELSE cache[l][c] = Session!Blank
    BY DEF CacheFollows, Session!CacheFollows
  <2>1. Held /\ CacheOf(cache[l], Session!Given(l))
    BY DEF Inv, Held, Kept
  <2>2. Session!Given(l) \in Nat
    BY <2>1 DEF Held, Typed, Session!Given
  <2> QED BY <2>1, <2>2, Counts DEF CacheOf
<1> QED BY <1>1, InvHolds, PTL

(* Whenever a token is drawn, the logits come from every token of the text *)
(* so far; GPT-2's from no padding, Qwen's from no unwritten column        *)
(* (session.rs of both examples).                                          *)
THEOREM LogitsTheorem == RuntimeSpec => []SaysWhatWasSaid
<1>1. Inv => SaysWhatWasSaid
  BY DEF Inv, Held, SaysWhatWasSaid, Session!SaysWhatWasSaid, Session!Going
<1> QED BY <1>1, InvHolds, PTL
=============================================================================
