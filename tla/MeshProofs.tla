----------------------------- MODULE MeshProofs -----------------------------
(***************************************************************************)
(* What is proved of the mesh of machines, in two parts that share no      *)
(* state. The first is about RdmaFabric: what the settings of a machine    *)
(* are, whatever is unplugged, restarted or applied, for any machines,     *)
(* ports and cables. The second is about PeerHeartbeat: what the watch     *)
(* over the peers keeps as long as the requests that start and stop it     *)
(* come one after the other, for any peers, servers, loops and hostfiles.  *)
(***************************************************************************)
EXTENDS RdmaFabric, PeerHeartbeat, FiniteSetTheorems, FunctionTheorems, SequenceTheorems,
        WellFoundedInduction, TLAPS

-----------------------------------------------------------------------------
(* Numbers and finite orders.                                              *)

(* The order of Nat is well-founded; the library says it of an operator.   *)
LEMMA NatOrder ==
  \E R : IsWellFoundedOn(R, Nat) /\ \A x, y \in Nat : <<x, y>> \in R <=> x < y
<1>1. \A x, y \in Nat : <<x, y>> \in OpToRel(<, Nat) <=> x < y
  BY DEF OpToRel
<1>2. IsWellFoundedOn(OpToRel(<, Nat), Nat)
  BY NatLessThanWellFounded
<1> QED BY <1>1, <1>2

(* A set of numbers that is not empty has a least one.                     *)
LEMMA Least ==
  ASSUME NEW T, T \subseteq Nat, T # {}
  PROVE  \E x \in T : \A y \in T : x <= y
<1>1. PICK R : IsWellFoundedOn(R, Nat) /\ \A x, y \in Nat : <<x, y>> \in R <=> x < y
  BY NatOrder
<1>2. IsWellFoundedOn(R, Nat)
  BY <1>1
<1>3. PICK x \in T : \A y \in T : ~ (<<y, x>> \in R)
  BY <1>2, WFMin, Zenon
<1>4. \A y \in T : x <= y
  <2>1. SUFFICES ASSUME NEW y \in T, ~ (x <= y) PROVE FALSE
    OBVIOUS
  <2>2. y < x /\ x \in Nat /\ y \in Nat
    BY <2>1
  <2>3. <<y, x>> \in R
    BY <1>1, <2>2
  <2> QED BY <1>3, <2>3
<1> QED BY <1>4

(* R orders D, strictly and totally.                                       *)
Orders(R, D) ==
  /\ \A x \in D : <<x, x>> \notin R
  /\ \A x, y, z \in D : <<x, y>> \in R /\ <<y, z>> \in R => <<x, z>> \in R
  /\ \A x, y \in D : x # y => <<x, y>> \in R \/ <<y, x>> \in R
Below(R, D, x) == {y \in D : <<y, x>> \in R}

(* In a finite order the numbers of elements below are 0, 1, 2 and so on.  *)
LEMMA Ranks ==
  ASSUME NEW D, IsFiniteSet(D), NEW R, Orders(R, D)
  PROVE  /\ Cardinality(D) \in Nat
         /\ \A x \in D : Cardinality(Below(R, D, x)) \in 0 .. Cardinality(D) - 1
         /\ \A x, y \in D : <<x, y>> \in R <=> Cardinality(Below(R, D, x)) < Cardinality(Below(R, D, y))
         /\ \A x, y \in D : Cardinality(Below(R, D, x)) = Cardinality(Below(R, D, y)) => x = y
         /\ \A k \in 0 .. Cardinality(D) - 1 : \E x \in D : Cardinality(Below(R, D, x)) = k
<1> DEFINE rank == [x \in D |-> Cardinality(Below(R, D, x))]
           C == 0 .. Cardinality(D) - 1
<1>1. Cardinality(D) \in Nat
  BY FS_CardinalityType
<1>2. \A x \in D : IsFiniteSet(Below(R, D, x)) /\ Cardinality(Below(R, D, x)) \in Nat
  <2> SUFFICES ASSUME NEW x \in D PROVE IsFiniteSet(Below(R, D, x)) /\ Cardinality(Below(R, D, x)) \in Nat
    OBVIOUS
  <2>1. Below(R, D, x) \in SUBSET D
    BY DEF Below
  <2> QED BY <2>1, FS_Subset, FS_CardinalityType
<1>3. ASSUME NEW x \in D PROVE Cardinality(Below(R, D, x)) \in C
  <2>1. Below(R, D, x) \in SUBSET D /\ Below(R, D, x) # D
    BY DEF Below, Orders
  <2>2. Cardinality(Below(R, D, x)) <= Cardinality(D) /\ Cardinality(Below(R, D, x)) # Cardinality(D)
    BY <2>1, FS_Subset
  <2> QED BY <1>1, <1>2, <2>2
<1>4. ASSUME NEW x \in D, NEW y \in D, <<x, y>> \in R
      PROVE  Cardinality(Below(R, D, x)) < Cardinality(Below(R, D, y))
  <2>1. Below(R, D, x) \in SUBSET Below(R, D, y) /\ Below(R, D, x) # Below(R, D, y)
    BY <1>4 DEF Below, Orders
  <2>2. Cardinality(Below(R, D, x)) <= Cardinality(Below(R, D, y))
        /\ Cardinality(Below(R, D, x)) # Cardinality(Below(R, D, y))
    BY <1>2, <2>1, FS_Subset
  <2> QED BY <1>2, <2>2
<1>5. \A x, y \in D : <<x, y>> \in R <=> Cardinality(Below(R, D, x)) < Cardinality(Below(R, D, y))
  <2> SUFFICES ASSUME NEW x \in D, NEW y \in D,
                      Cardinality(Below(R, D, x)) < Cardinality(Below(R, D, y)), <<x, y>> \notin R
               PROVE  FALSE
    BY <1>4
  <2>1. x # y
    BY <1>2
  <2>2. <<y, x>> \in R
    BY <2>1 DEF Orders
  <2>3. Cardinality(Below(R, D, y)) < Cardinality(Below(R, D, x))
    BY <1>4, <2>2
  <2> QED BY <1>2, <2>3
<1>6. \A x, y \in D : Cardinality(Below(R, D, x)) = Cardinality(Below(R, D, y)) => x = y
  BY <1>2, <1>5 DEF Orders
<1>7. \A k \in C : \E x \in D : Cardinality(Below(R, D, x)) = k
  <2>1. rank \in [D -> C]
    BY <1>3
  <2>2. \A x, y \in D : rank[x] = rank[y] => x = y
    BY <1>6
  <2>3. rank \in Injection(D, C)
    BY <2>1, <2>2, Fun_IsInj
  <2>4. IsFiniteSet(C) /\ Cardinality(C) = Cardinality(D)
    BY <1>1, FS_Interval
  <2>5. rank \in Surjection(D, C)
    BY <2>3, <2>4, FS_Injection
  <2>6. \A k \in C : \E x \in D : rank[x] = k
    BY <2>5, Fun_IsSurj, Zenon DEF Surjection
  <2> QED BY <2>6
<1> QED BY <1>1, <1>3, <1>5, <1>6, <1>7

(* The last element of a finite order.                                     *)
LEMMA LastOne ==
  ASSUME NEW D, IsFiniteSet(D), D # {}, NEW R, Orders(R, D)
  PROVE  \E x \in D : \A y \in D \ {x} : <<y, x>> \in R
<1>1. Cardinality(D) \in Nat /\ Cardinality(D) # 0
  BY FS_CardinalityType, FS_EmptySet
<1>2. PICK x \in D : Cardinality(Below(R, D, x)) = Cardinality(D) - 1
  BY <1>1, Ranks
<1>3. ASSUME NEW y \in D \ {x} PROVE <<y, x>> \in R
  <2>1. Cardinality(Below(R, D, y)) \in 0 .. Cardinality(D) - 1
        /\ Cardinality(Below(R, D, y)) # Cardinality(Below(R, D, x))
    BY Ranks
  <2>2. Cardinality(Below(R, D, y)) < Cardinality(Below(R, D, x))
    BY <1>1, <1>2, <2>1
  <2> QED BY <2>2, Ranks
<1> QED BY <1>3

-----------------------------------------------------------------------------
(* Lists in the order of a key.                                            *)

ByKey(key) == {z \in (DOMAIN key) \X (DOMAIN key) : Before(key[z[1]], key[z[2]])}

LEMMA BeforeMeans ==
  ASSUME NEW n \in Nat, NEW f \in [1 .. n -> Nat], NEW g \in [1 .. n -> Nat]
  PROVE  /\ Before(f, g) <=> \E i \in 1 .. n : f[i] < g[i] /\ \A k \in 1 .. (i - 1) : f[k] = g[k]
         /\ f # g => \E i \in 1 .. n : f[i] # g[i]
<1>1. DOMAIN f = 1 .. n /\ DOMAIN g = 1 .. n
  OBVIOUS
<1>2. Before(f, g) <=> \E i \in 1 .. n : f[i] < g[i] /\ \A k \in 1 .. (i - 1) : f[k] = g[k]
  BY <1>1 DEF Before
<1>3. f # g => \E i \in 1 .. n : f[i] # g[i]
  OBVIOUS
<1> QED BY <1>2, <1>3

(* Tuples of one length are ordered.                                       *)
LEMMA BeforeOrders ==
  ASSUME NEW n \in Nat, NEW D, NEW key \in [D -> [1 .. n -> Nat]],
         \A x, y \in D : key[x] = key[y] => x = y
  PROVE  Orders(ByKey(key), D)
<1>1. \A x, y \in D : <<x, y>> \in ByKey(key) <=> Before(key[x], key[y])
  BY DEF ByKey
<1>2. \A x \in D : <<x, x>> \notin ByKey(key)
  <2> SUFFICES ASSUME NEW x \in D, Before(key[x], key[x]) PROVE FALSE
    BY <1>1
  <2>1. PICK i \in DOMAIN key[x] : key[x][i] < key[x][i]
    BY DEF Before
  <2> QED BY <2>1
<1>3. ASSUME NEW x \in D, NEW y \in D, NEW z \in D, <<x, y>> \in ByKey(key), <<y, z>> \in ByKey(key)
      PROVE  <<x, z>> \in ByKey(key)
  <2>1. DOMAIN key[x] = 1 .. n /\ DOMAIN key[y] = 1 .. n
        /\ \A i \in 1 .. n : key[x][i] \in Nat /\ key[y][i] \in Nat /\ key[z][i] \in Nat
    OBVIOUS
  <2>0. /\ key[x] \in [1 .. n -> Nat] /\ key[y] \in [1 .. n -> Nat] /\ key[z] \in [1 .. n -> Nat]
        /\ Before(key[x], key[y]) /\ Before(key[y], key[z])
    BY <1>1, <1>3
  <2>2. PICK i \in 1 .. n : key[x][i] < key[y][i] /\ \A k \in 1 .. (i - 1) : key[x][k] = key[y][k]
    <3>1. Before(key[x], key[y])
      BY <2>0
    <3> QED BY <2>1, <3>1 DEF Before
  <2>3. PICK j \in 1 .. n : key[y][j] < key[z][j] /\ \A k \in 1 .. (j - 1) : key[y][k] = key[z][k]
    <3>1. Before(key[y], key[z])
      BY <2>0
    <3> QED BY <2>1, <3>1 DEF Before
  <2>4. \E l \in 1 .. n : key[x][l] < key[z][l] /\ \A k \in 1 .. (l - 1) : key[x][k] = key[z][k]
    <3>1. CASE i <= j
      <4>1. key[x][i] < key[z][i]
        BY <2>1, <2>2, <2>3, <3>1
      <4>2. \A k \in 1 .. (i - 1) : key[x][k] = key[z][k]
        BY <2>1, <2>2, <2>3, <3>1
      <4> QED BY <4>1, <4>2
    <3>2. CASE j < i
      <4>1. key[x][j] < key[z][j]
        BY <2>1, <2>2, <2>3, <3>2
      <4>2. \A k \in 1 .. (j - 1) : key[x][k] = key[z][k]
        BY <2>1, <2>2, <2>3, <3>2
      <4> QED BY <4>1, <4>2
    <3> QED BY <3>1, <3>2
  <2> QED BY <1>1, <2>4, BeforeMeans
<1>4. ASSUME NEW x \in D, NEW y \in D, x # y
      PROVE  <<x, y>> \in ByKey(key) \/ <<y, x>> \in ByKey(key)
  <2> DEFINE T == {i \in 1 .. n : key[x][i] # key[y][i]}
  <2>1. DOMAIN key[x] = 1 .. n /\ DOMAIN key[y] = 1 .. n
        /\ \A i \in 1 .. n : key[x][i] \in Nat /\ key[y][i] \in Nat
    OBVIOUS
  <2>2. key[x] # key[y] /\ key[x] \in [1 .. n -> Nat] /\ key[y] \in [1 .. n -> Nat]
    BY <1>4
  <2>3. T # {} /\ T \subseteq Nat
    BY <2>2, BeforeMeans
  <2>4. PICK i \in T : \A j \in T : i <= j
    <3> HIDE DEF T
    <3> QED BY <2>3, Least
  <2>5. \A k \in 1 .. (i - 1) : key[x][k] = key[y][k]
    BY <2>4
  <2>6. key[x][i] < key[y][i] \/ key[y][i] < key[x][i]
    BY <2>1, <2>4
  <2>7. Before(key[x], key[y]) \/ Before(key[y], key[x])
    BY <2>1, <2>4, <2>5, <2>6 DEF Before
  <2> QED BY <1>1, <2>7
<1> QED BY <1>2, <1>3, <1>4 DEF Orders

(* InOrder lists the domain of its key, each element once, by rising keys. *)
LEMMA InOrderLists ==
  ASSUME NEW key, IsFiniteSet(DOMAIN key), Orders(ByKey(key), DOMAIN key)
  PROVE  /\ Cardinality(DOMAIN key) \in Nat
         /\ InOrder(key) \in [1 .. Cardinality(DOMAIN key) -> DOMAIN key]
         /\ \A x \in DOMAIN key : \E i \in 1 .. Cardinality(DOMAIN key) : InOrder(key)[i] = x
         /\ \A i, j \in 1 .. Cardinality(DOMAIN key) :
              /\ InOrder(key)[i] = InOrder(key)[j] => i = j
              /\ Before(key[InOrder(key)[i]], key[InOrder(key)[j]]) <=> i < j
<1> DEFINE D == DOMAIN key
           R == ByKey(key)
           rank(x) == Cardinality(Below(R, D, x))
           s == InOrder(key)
           N == Cardinality(D)
<1>1. \A x, y \in D : <<x, y>> \in R <=> Before(key[x], key[y])
  BY DEF ByKey
<1>2. \A x \in D : Below(R, D, x) = {y \in D : Before(key[y], key[x])}
  BY <1>1 DEF Below
<1>3. /\ N \in Nat
      /\ \A x \in D : rank(x) \in 0 .. N - 1
      /\ \A x, y \in D : <<x, y>> \in R <=> rank(x) < rank(y)
      /\ \A x, y \in D : rank(x) = rank(y) => x = y
      /\ \A k \in 0 .. N - 1 : \E x \in D : rank(x) = k
  BY Ranks
<1>4. DOMAIN s = 1 .. N /\ \A i \in 1 .. N : s[i] = CHOOSE x \in D : rank(x) = i - 1
  BY <1>2 DEF InOrder
<1> HIDE DEF rank, s, D, R
<1>5. \A i \in 1 .. N : s[i] \in D /\ rank(s[i]) = i - 1
  <2> SUFFICES ASSUME NEW i \in 1 .. N PROVE s[i] \in D /\ rank(s[i]) = i - 1
    OBVIOUS
  <2>1. i - 1 \in 0 .. N - 1
    BY <1>3
  <2>2. \E x \in D : rank(x) = i - 1
    BY <1>3, <2>1
  <2> QED BY <1>4, <2>2
<1>6. s \in [1 .. N -> D]
  BY <1>4, <1>5 DEF s, InOrder, D
<1>7. \A x \in D : \E i \in 1 .. N : s[i] = x
  <2> SUFFICES ASSUME NEW x \in D PROVE \E i \in 1 .. N : s[i] = x
    OBVIOUS
  <2>1. rank(x) + 1 \in 1 .. N /\ (rank(x) + 1) - 1 = rank(x)
    BY <1>3
  <2>2. s[rank(x) + 1] \in D /\ rank(s[rank(x) + 1]) = rank(x)
    BY <1>5, <2>1
  <2> QED BY <1>3, <2>1, <2>2
<1>8. \A i, j \in 1 .. N : s[i] = s[j] => i = j
  BY <1>3, <1>5
<1>9. \A i, j \in 1 .. N : Before(key[s[i]], key[s[j]]) <=> i < j
  <2> SUFFICES ASSUME NEW i \in 1 .. N, NEW j \in 1 .. N
               PROVE  Before(key[s[i]], key[s[j]]) <=> i < j
    OBVIOUS
  <2>1. Before(key[s[i]], key[s[j]]) <=> rank(s[i]) < rank(s[j])
    BY <1>1, <1>3, <1>5
  <2>2. rank(s[i]) = i - 1 /\ rank(s[j]) = j - 1
    BY <1>5
  <2> QED BY <2>1, <2>2
<1> QED BY <1>3, <1>6, <1>7, <1>8, <1>9 DEF s, D

(* Only is a part of the sequence with the elements asked for.             *)
LEMMA OnlyThose ==
  ASSUME NEW T, NEW s \in Seq(T), NEW S
  PROVE  Only(s, S) \in Seq(T \cap S) /\ Elements(Only(s, S)) = Elements(s) \cap S
<1> DEFINE at == {j \in DOMAIN s : s[j] \in S}
           key == [i \in at |-> <<i>>]
           l == InOrder(key)
           N == Cardinality(at)
<1>1. Len(s) \in Nat /\ DOMAIN s = 1 .. Len(s) /\ \A i \in DOMAIN s : s[i] \in T
  BY LenProperties, ElementOfSeq
<1>2. IsFiniteSet(at)
  <2>1. IsFiniteSet(1 .. Len(s))
    BY <1>1, FS_Interval
  <2>2. at \in SUBSET (1 .. Len(s))
    BY <1>1
  <2> QED BY <2>1, <2>2, FS_Subset
<1>3. key \in [at -> [1 .. 1 -> Nat]] /\ DOMAIN key = at
  BY <1>1
<1>4. \A x, y \in at : key[x] = key[y] => x = y
  OBVIOUS
<1> HIDE DEF key
<1>5. Orders(ByKey(key), at)
  BY <1>3, <1>4, BeforeOrders
<1>6. /\ N \in Nat /\ l \in [1 .. N -> at]
      /\ \A x \in at : \E i \in 1 .. N : l[i] = x
  BY <1>2, <1>3, <1>5, InOrderLists
<1>7. Only(s, S) = [k \in DOMAIN l |-> s[l[k]]]
  BY DEF Only, key
<1> HIDE DEF l
<1>8. Only(s, S) = [k \in 1 .. N |-> s[l[k]]] /\ \A k \in 1 .. N : s[l[k]] \in T \cap S
  BY <1>1, <1>6, <1>7
<1>9. Only(s, S) \in Seq(T \cap S)
  BY <1>6, <1>8, IsASeq
<1>10. DOMAIN Only(s, S) = 1 .. N
  BY <1>8
<1>11. Elements(Only(s, S)) \subseteq Elements(s) \cap S
  BY <1>6, <1>8, <1>10 DEF Elements
<1>12. Elements(s) \cap S \subseteq Elements(Only(s, S))
  <2> SUFFICES ASSUME NEW j \in DOMAIN s, s[j] \in S PROVE s[j] \in Elements(Only(s, S))
    BY DEF Elements
  <2>1. PICK i \in 1 .. N : l[i] = j
    BY <1>6
  <2>2. Only(s, S)[i] = s[j]
    BY <1>8, <2>1
  <2> QED BY <1>10, <2>2 DEF Elements
<1> QED BY <1>9, <1>11, <1>12

-----------------------------------------------------------------------------
(* Lists of links.                                                         *)

Links(b) == {l \in Link : l.raw = b /\ <<l.p, l.q>> \in Cable}

(* Links of cables that there may be, each once.                           *)
Listing(links) ==
  \E b \in BOOLEAN : /\ links \in Seq(Links(b))
                     /\ \A i, j \in DOMAIN links : links[i] = links[j] => i = j

LEMMA Ports ==
  /\ \A p \in Port : p = <<p[1], p[2]>> /\ p[1] \in Node /\ p[1] \in Nat /\ p[2] \in Nat
  /\ \A c \in Cable : c = <<c[1], c[2]>> /\ c[1] \in Port /\ c[2] \in Port /\ c[1][1] < c[2][1]
  /\ IsFiniteSet(Cable) /\ Cardinality(Cable) \in Nat
<1>1. \A p \in Port : p = <<p[1], p[2]>> /\ p[1] \in Node /\ p[1] \in Nat /\ p[2] \in Nat
  <2>1. Node \subseteq Nat /\ Port \subseteq Node \X Nat
    BY TopologyAssumption
  <2> SUFFICES ASSUME NEW p \in Port PROVE p = <<p[1], p[2]>> /\ p[1] \in Node /\ p[1] \in Nat /\ p[2] \in Nat
    OBVIOUS
  <2>2. p \in Node \X Nat
    BY <2>1
  <2>3. p = <<p[1], p[2]>> /\ p[1] \in Node /\ p[2] \in Nat
    BY <2>2
  <2> QED BY <2>1, <2>3
<1>2. \A c \in Cable : c = <<c[1], c[2]>> /\ c[1] \in Port /\ c[2] \in Port /\ c[1][1] < c[2][1]
  BY TopologyAssumption
<1>3. IsFiniteSet(Port \X Port) /\ Cable \in SUBSET (Port \X Port)
  BY TopologyAssumption, FS_Product
<1> QED BY <1>1, <1>2, <1>3, FS_Subset, FS_CardinalityType

LEMMA LinksAre ==
  ASSUME NEW b, NEW l \in Links(b)
  PROVE  /\ l \in Link /\ l.p \in Port /\ l.q \in Port /\ l.raw = b /\ <<l.p, l.q>> \in Cable
         /\ l.p[1] < l.q[1] /\ Ends(l) = {l.p, l.q} /\ Joins(l) = <<l.p[1], l.q[1]>>
BY Ports DEF Links, Link, Ends, Joins

(* Of one kind, there are no more links than cables.                       *)
LEMMA LinksAreFew ==
  ASSUME NEW b, NEW L, L \subseteq Links(b)
  PROVE  /\ IsFiniteSet(L) /\ Cardinality(L) \in Nat /\ Cardinality(L) <= Cardinality(Cable)
         /\ \A l, m \in L : <<l.p, l.q>> = <<m.p, m.q>> => l = m
         /\ \A l, m \in L : Ends(l) = Ends(m) => l = m
<1> DEFINE f == [l \in L |-> <<l.p, l.q>>]
<1>1. f \in [L -> Cable]
  BY LinksAre
<1>2. \A l, m \in L : <<l.p, l.q>> = <<m.p, m.q>> => l = m
  <2> SUFFICES ASSUME NEW l \in L, NEW m \in L, <<l.p, l.q>> = <<m.p, m.q>> PROVE l = m
    OBVIOUS
  <2>1. l \in Link /\ m \in Link /\ l.raw = m.raw
    BY LinksAre
  <2>2. l = [p |-> l.p, q |-> l.q, raw |-> l.raw] /\ m = [p |-> m.p, q |-> m.q, raw |-> m.raw]
    BY <2>1 DEF Link
  <2> QED BY <2>1, <2>2
<1>3. f \in Injection(L, Cable)
  BY <1>1, <1>2, Fun_IsInj
<1>4. IsFiniteSet(L) /\ Cardinality(L) <= Cardinality(Cable)
  BY <1>3, Ports, FS_Injection
<1>5. ASSUME NEW l \in L, NEW m \in L, Ends(l) = Ends(m) PROVE l = m
  <2>1. {l.p, l.q} = {m.p, m.q} /\ l.p[1] < l.q[1] /\ m.p[1] < m.q[1]
    BY <1>5, LinksAre
  <2>2. l.p[1] \in Nat /\ l.q[1] \in Nat
    BY LinksAre, Ports
  <2>3. l.p = m.p /\ l.q = m.q
    BY <2>1, <2>2
  <2> QED BY <1>2, <2>3
<1> QED BY <1>2, <1>4, <1>5, FS_CardinalityType

LEMMA ListingIs ==
  ASSUME NEW links, Listing(links)
  PROVE  /\ Len(links) \in Nat /\ DOMAIN links = 1 .. Len(links) /\ links \in Seq(Link)
         /\ \A i \in DOMAIN links : \E b \in BOOLEAN : links[i] \in Links(b)
         /\ Len(links) <= Cardinality(Cable)
<1>1. PICK b \in BOOLEAN : /\ links \in Seq(Links(b))
                           /\ \A i, j \in DOMAIN links : links[i] = links[j] => i = j
  BY DEF Listing
<1>2. Len(links) \in Nat /\ DOMAIN links = 1 .. Len(links) /\ \A i \in DOMAIN links : links[i] \in Links(b)
  BY <1>1, LenProperties, ElementOfSeq
<1>3. links \in Seq(Link)
  BY <1>1, SeqMonotonic DEF Links
<1>4. links \in Injection(1 .. Len(links), Links(b))
  BY <1>1, <1>2, LenProperties, Fun_IsInj
<1>5. Cardinality(1 .. Len(links)) <= Cardinality(Links(b)) /\ Cardinality(Links(b)) <= Cardinality(Cable)
  BY <1>4, LinksAreFew, FS_Injection
<1>6. Cardinality(1 .. Len(links)) = Len(links)
  BY <1>2, FS_Interval
<1>7. Len(links) <= Cardinality(Cable)
  <2>1. Cardinality(Links(b)) \in Nat /\ Cardinality(Cable) \in Nat
    BY LinksAreFew, Ports
  <2> QED BY <1>2, <1>5, <1>6, <2>1
<1> QED BY <1>1, <1>2, <1>3, <1>7

LEMMA NoLinks == Listing(<<>>)
<1>1. <<>> \in Seq(Links(TRUE)) /\ DOMAIN <<>> = {}
  OBVIOUS
<1> QED BY <1>1 DEF Listing

(* What InOrder makes of a set of links is such a list.                    *)
LEMMA OrderedLinks ==
  ASSUME NEW b \in BOOLEAN, NEW key, DOMAIN key \subseteq Links(b), Orders(ByKey(key), DOMAIN key)
  PROVE  Listing(InOrder(key)) /\ Elements(InOrder(key)) = DOMAIN key
<1> DEFINE D == DOMAIN key
           N == Cardinality(D)
           s == InOrder(key)
<1>1. IsFiniteSet(D)
  BY LinksAreFew
<1>2. /\ N \in Nat /\ s \in [1 .. N -> D]
      /\ \A x \in D : \E i \in 1 .. N : s[i] = x
      /\ \A i, j \in 1 .. N : s[i] = s[j] => i = j
  BY <1>1, InOrderLists
<1> HIDE DEF s
<1>3. s \in Seq(D)
  BY <1>2, IsASeq
<1>4. s \in Seq(Links(b)) /\ DOMAIN s = 1 .. N
  BY <1>2, <1>3, SeqMonotonic
<1>5. Elements(s) = D
  <2>1. \A i \in 1 .. N : s[i] \in D
    BY <1>2
  <2>2. Elements(s) = {s[i] : i \in 1 .. N}
    BY <1>4 DEF Elements
  <2>3. Elements(s) \subseteq D
    BY <2>1, <2>2
  <2>4. D \subseteq Elements(s)
    BY <1>2, <2>2
  <2> QED BY <2>3, <2>4
<1> QED BY <1>2, <1>4, <1>5 DEF Listing, s

LEMMA LinkOfCable ==
  ASSUME NEW c \in Port \X Port, NEW b, c \in Cable \/ <<c[2], c[1]>> \in Cable
  PROVE  b \in BOOLEAN => LinkOf(c[1], c[2], b) \in Links(b) /\ Ends(LinkOf(c[1], c[2], b)) = {c[1], c[2]}
<1>1. CASE c \in Cable
  <2>1. c[1][1] < c[2][1] /\ c = <<c[1], c[2]>>
    BY <1>1, Ports
  <2> QED BY <1>1, <2>1 DEF LinkOf, Links, Link, Ends
<1>2. CASE <<c[2], c[1]>> \in Cable
  <2>1. c[2][1] < c[1][1] /\ c[1] \in Port /\ c[2] \in Port
    BY <1>2, Ports
  <2>2. ~ (c[1][1] < c[2][1])
    BY <2>1, Ports
  <2> QED BY <1>2, <2>1, <2>2 DEF LinkOf, Links, Link, Ends
<1> QED BY <1>1, <1>2

LEMMA ByEndsLists ==
  ASSUME NEW b \in BOOLEAN, NEW L, L \subseteq Links(b)
  PROVE  Listing(ByEnds(L)) /\ Elements(ByEnds(L)) = L
<1> DEFINE key == [l \in L |-> <<l.p[1], l.q[1], l.p[2], l.q[2]>>]
<1>1. ASSUME NEW l \in L
      PROVE  /\ key[l] \in [1 .. 4 -> Nat]
             /\ l.p = <<key[l][1], key[l][3]>> /\ l.q = <<key[l][2], key[l][4]>>
  <2>1. l.p = <<l.p[1], l.p[2]>> /\ l.q = <<l.q[1], l.q[2]>>
    BY LinksAre, Ports
  <2>2. l.p[1] \in Nat /\ l.p[2] \in Nat /\ l.q[1] \in Nat /\ l.q[2] \in Nat
    BY LinksAre, Ports
  <2> DEFINE u == l.p[1]
             v == l.q[1]
             w == l.p[2]
             x == l.q[2]
  <2>3. key[l] = <<u, v, w, x>> /\ u \in Nat /\ v \in Nat /\ w \in Nat /\ x \in Nat
    BY <2>2
  <2>4. l.p = <<u, w>> /\ l.q = <<v, x>>
    BY <2>1
  <2> HIDE DEF u, v, w, x, key
  <2> QED BY <2>3, <2>4
<1>2. key \in [L -> [1 .. 4 -> Nat]]
  BY <1>1
<1>3. \A l, m \in L : key[l] = key[m] => l = m
  <2> SUFFICES ASSUME NEW l \in L, NEW m \in L, key[l] = key[m] PROVE l = m
    OBVIOUS
  <2>1. l.p = m.p /\ l.q = m.q
    BY <1>1
  <2> QED BY <2>1, LinksAreFew
<1>4. DOMAIN key = L /\ ByEnds(L) = InOrder(key)
  BY DEF ByEnds
<1> HIDE DEF key
<1>5. Orders(ByKey(key), L)
  BY <1>2, <1>3, BeforeOrders
<1> QED BY <1>4, <1>5, OrderedLinks

(* What the daemons tell of a port is a cable that there may be, and one.  *)
Sighted(n, told) ==
  /\ told \subseteq PortsOf(n) \X Port
  /\ \A x \in told : x \in Cable \/ <<x[2], x[1]>> \in Cable
  /\ \A x, y \in told : x[1] = y[1] => x = y

(* All the links are of these cables.                                      *)
Within(links, cables) == \A i \in DOMAIN links : <<links[i].p, links[i].q>> \in cables

LEMMA WithinCables ==
  ASSUME NEW links, NEW cables \in SUBSET Cable,
         \A l \in Elements(links) : \E x \in Port \X Port, b \in BOOLEAN :
            l = LinkOf(x[1], x[2], b) /\ (x \in cables \/ <<x[2], x[1]>> \in cables)
  PROVE  Within(links, cables)
<1> SUFFICES ASSUME NEW i \in DOMAIN links PROVE <<links[i].p, links[i].q>> \in cables
  BY DEF Within
<1>1. PICK x \in Port \X Port, b \in BOOLEAN :
         links[i] = LinkOf(x[1], x[2], b) /\ (x \in cables \/ <<x[2], x[1]>> \in cables)
  BY DEF Elements
<1>2. x = <<x[1], x[2]>> /\ x[1][1] \in Nat /\ x[2][1] \in Nat
  BY Ports
<1>3. CASE x \in cables
  <2>1. x[1][1] < x[2][1]
    BY <1>3, Ports
  <2> QED BY <1>1, <1>2, <1>3, <2>1 DEF LinkOf
<1>4. CASE <<x[2], x[1]>> \in cables
  <2>1. x[2][1] < x[1][1]
    BY <1>4, Ports
  <2>2. ~ (x[1][1] < x[2][1])
    BY <1>2, <2>1
  <2> QED BY <1>1, <1>4, <2>2 DEF LinkOf
<1> QED BY <1>1, <1>3, <1>4

LEMMA NativeLists ==
  ASSUME NEW hosts \in Seq(Node), NEW tales \in [Node -> SUBSET (Port \X Port)], NEW tellers,
         \A n \in Node : Sighted(n, tales[n])
  PROVE  /\ Listing(Native(hosts, tales, tellers))
         /\ \A cables : (\A n \in Node : tales[n] \subseteq Sees(n, cables)) /\ cables \subseteq Cable =>
                           Within(Native(hosts, tales, tellers), cables)
<1> DEFINE told == Told(Elements(hosts) \cap tellers, tales)
           Sight(p) == <<IndexIn(hosts, p[1]), p[2]>>
           by(l) == {x[1] : x \in {y \in told : Ends(l) = {y[1], y[2]}}}
           first(l) == CHOOSE p \in by(l) : \A q \in by(l) \ {p} : Before(Sight(p), Sight(q))
           L == {LinkOf(x[1], x[2], FALSE) : x \in told}
           key == [l \in L |-> Sight(first(l))]
<1>1. DOMAIN hosts = 1 .. Len(hosts) /\ Len(hosts) \in Nat /\ Elements(hosts) \subseteq Node
  BY LenProperties, ElementOfSeq DEF Elements
<1>2. ASSUME NEW x \in told
      PROVE  /\ x \in Port \X Port /\ x[1][1] \in Elements(hosts) /\ x \in tales[x[1][1]]
             /\ x \in Cable \/ <<x[2], x[1]>> \in Cable
  <2>1. PICK n \in Elements(hosts) \cap tellers : x \in tales[n]
    BY DEF Told
  <2>2. x \in PortsOf(n) \X Port /\ (x \in Cable \/ <<x[2], x[1]>> \in Cable) /\ x[1][1] = n
    BY <1>1, <2>1 DEF Sighted, PortsOf
  <2> QED BY <2>1, <2>2 DEF PortsOf
<1>3. \A p \in Port : p[1] \in Elements(hosts) =>
        Sight(p) \in [1 .. 2 -> Nat] /\ p = <<hosts[Sight(p)[1]], Sight(p)[2]>>
  <2> SUFFICES ASSUME NEW p \in Port, p[1] \in Elements(hosts)
               PROVE  Sight(p) \in [1 .. 2 -> Nat] /\ p = <<hosts[Sight(p)[1]], Sight(p)[2]>>
    OBVIOUS
  <2>1. IndexIn(hosts, p[1]) \in DOMAIN hosts /\ hosts[IndexIn(hosts, p[1])] = p[1]
    BY DEF IndexIn, Elements
  <2>2. p = <<p[1], p[2]>> /\ p[2] \in Nat
    BY Ports
  <2> QED BY <1>1, <2>1, <2>2
<1> HIDE DEF Sight
<1>4. L \subseteq Links(FALSE)
  <2> HIDE DEF told
  <2> SUFFICES ASSUME NEW x \in told PROVE LinkOf(x[1], x[2], FALSE) \in Links(FALSE)
    OBVIOUS
  <2>1. x \in Port \X Port /\ (x \in Cable \/ <<x[2], x[1]>> \in Cable)
    BY <1>2
  <2> QED BY <2>1, LinkOfCable
<1>5. ASSUME NEW l \in L
      PROVE  first(l) \in by(l)
  <2>1. PICK x \in told : l = LinkOf(x[1], x[2], FALSE)
    OBVIOUS
  <2>2. Ends(l) = {x[1], x[2]}
    BY <1>2, <2>1, LinkOfCable
  <2>3. x[1] \in by(l) /\ by(l) \subseteq {x[1], x[2]} /\ \A p \in by(l) : p \in Port /\ p[1] \in Elements(hosts)
    <3> HIDE DEF told
    <3>1. x[1] \in by(l)
      BY <2>2
    <3>2. by(l) \subseteq {x[1], x[2]}
      BY <2>2
    <3>3. \A p \in by(l) : p \in Port /\ p[1] \in Elements(hosts)
      BY <1>2
    <3> QED BY <3>1, <3>2, <3>3
  <2>4. \E p \in by(l) : \A q \in by(l) \ {p} : Before(Sight(p), Sight(q))
    <3> HIDE DEF by
    <3>1. CASE by(l) = {x[1]}
      BY <2>3, <3>1
    <3>2. CASE by(l) # {x[1]}
      <4>1. by(l) = {x[1], x[2]} /\ x[1] # x[2]
        BY <2>3, <3>2
      <4>2. /\ Sight(x[1]) \in [1 .. 2 -> Nat] /\ Sight(x[2]) \in [1 .. 2 -> Nat]
            /\ Sight(x[1]) # Sight(x[2])
        BY <1>3, <2>3, <4>1
      <4> DEFINE both == [p \in {x[1], x[2]} |-> Sight(p)]
      <4>3. Orders(ByKey(both), {x[1], x[2]})
        <5>1. both \in [{x[1], x[2]} -> [1 .. 2 -> Nat]]
          BY <4>2
        <5>2. \A p, q \in {x[1], x[2]} : both[p] = both[q] => p = q
          BY <4>2
        <5> HIDE DEF both
        <5> QED BY <5>1, <5>2, BeforeOrders
      <4>4. \/ Before(both[x[1]], both[x[2]])
            \/ Before(both[x[2]], both[x[1]])
        <5> HIDE DEF both
        <5> QED BY <4>1, <4>3 DEF Orders, ByKey
      <4>5. Before(Sight(x[1]), Sight(x[2])) \/ Before(Sight(x[2]), Sight(x[1]))
        BY <4>4
      <4> QED BY <4>1, <4>5
    <3> QED BY <3>1, <3>2
  <2> HIDE DEF by
  <2> QED BY <2>4
<1>6. ASSUME NEW l \in L
      PROVE  /\ first(l) \in Port /\ first(l)[1] \in Elements(hosts)
             /\ \E y \in tales[first(l)[1]] : y[1] = first(l) /\ Ends(l) = {y[1], y[2]}
  <2>1. PICK y \in told : y[1] = first(l) /\ Ends(l) = {y[1], y[2]}
    <3> HIDE DEF told, first
    <3> QED BY <1>5
  <2> HIDE DEF told, first
  <2> QED BY <1>2, <2>1
<1> HIDE DEF first
<1>7. key \in [L -> [1 .. 2 -> Nat]]
  BY <1>3, <1>6
<1>8. \A l, m \in L : key[l] = key[m] => l = m
  <2> SUFFICES ASSUME NEW l \in L, NEW m \in L, key[l] = key[m] PROVE l = m
    OBVIOUS
  <2>1. first(l) = first(m)
    BY <1>3, <1>6
  <2>2. PICK y \in tales[first(l)[1]] : y[1] = first(l) /\ Ends(l) = {y[1], y[2]}
    BY <1>6
  <2>3. PICK z \in tales[first(l)[1]] : z[1] = first(l) /\ Ends(m) = {z[1], z[2]}
    BY <1>6, <2>1
  <2>4. first(l)[1] \in Node
    BY <1>1, <1>6
  <2>5. y = z
    BY <2>2, <2>3, <2>4 DEF Sighted
  <2> QED BY <1>4, <2>2, <2>3, <2>5, LinksAreFew
<1>9. DOMAIN key = L /\ Native(hosts, tales, tellers) = InOrder(key)
  BY DEF Native, Sight, first
<1> HIDE DEF key, L
<1>10. Orders(ByKey(key), L)
  BY <1>7, <1>8, BeforeOrders
<1>11. Listing(Native(hosts, tales, tellers)) /\ Elements(Native(hosts, tales, tellers)) = L
  BY <1>4, <1>9, <1>10, OrderedLinks
<1>12. ASSUME NEW cables, \A n \in Node : tales[n] \subseteq Sees(n, cables), cables \subseteq Cable
       PROVE  Within(Native(hosts, tales, tellers), cables)
  <2>1. ASSUME NEW l \in L
        PROVE  \E x \in Port \X Port, b \in BOOLEAN :
                  l = LinkOf(x[1], x[2], b) /\ (x \in cables \/ <<x[2], x[1]>> \in cables)
    <3>1. PICK x \in told : l = LinkOf(x[1], x[2], FALSE)
      BY DEF L
    <3>2. x \in Port \X Port /\ x[1][1] \in Node /\ x \in tales[x[1][1]]
      <4> HIDE DEF told
      <4> QED BY <1>1, <1>2
    <3>3. x \in cables \/ <<x[2], x[1]>> \in cables
      BY <1>12, <3>2 DEF Sees
    <3> QED BY <3>1, <3>2, <3>3
  <2> QED BY <1>11, <1>12, <2>1, WithinCables
<1> QED BY <1>11, <1>12

LEMMA ToolLists ==
  ASSUME NEW hosts, NEW cables \in SUBSET Cable
  PROVE  /\ Listing(OfTool(hosts, cables)) /\ Within(OfTool(hosts, cables), cables)
         /\ \A local : \A links \in OfArp(hosts, cables, local) : Listing(links) /\ Within(links, cables)
<1>1. ASSUME NEW some \in SUBSET cables, NEW b \in BOOLEAN
      PROVE  /\ Listing(ByEnds({LinkOf(c[1], c[2], b) : c \in some}))
             /\ Within(ByEnds({LinkOf(c[1], c[2], b) : c \in some}), cables)
  <2>1. \A c \in some : c \in Port \X Port
    BY Ports
  <2>2. {LinkOf(c[1], c[2], b) : c \in some} \subseteq Links(b)
    <3> SUFFICES ASSUME NEW c \in some PROVE LinkOf(c[1], c[2], b) \in Links(b)
      OBVIOUS
    <3> QED BY <2>1, LinkOfCable
  <2> DEFINE L == {LinkOf(c[1], c[2], b) : c \in some}
  <2>3. Listing(ByEnds(L)) /\ Elements(ByEnds(L)) = L
    BY <2>2, ByEndsLists
  <2>4. \A l \in L : \E x \in Port \X Port, raw \in BOOLEAN :
           l = LinkOf(x[1], x[2], raw) /\ (x \in cables \/ <<x[2], x[1]>> \in cables)
    BY <2>1
  <2> HIDE DEF L
  <2>5. Within(ByEnds(L), cables)
    BY <2>3, <2>4, WithinCables
  <2> QED BY <2>3, <2>5 DEF L
<1>2. Listing(OfTool(hosts, cables)) /\ Within(OfTool(hosts, cables), cables)
  BY <1>1 DEF OfTool, Among
<1>3. ASSUME NEW local, NEW links \in OfArp(hosts, cables, local)
      PROVE  Listing(links) /\ Within(links, cables)
  <2>1. PICK some \in ArpEntries(hosts, cables, local) : links = ByEnds({LinkOf(c[1], c[2], TRUE) : c \in some})
    BY DEF OfArp
  <2>2. some \in SUBSET cables
    BY DEF ArpEntries, Among
  <2> QED BY <1>1, <2>1, <2>2
<1> QED BY <1>2, <1>3

(* A report of a discovery: what else it says follows from its links.      *)
Reported(r) ==
  /\ r.nodes \in Seq(Node) /\ Listing(r.links) /\ r.ready \in BOOLEAN
  /\ r.missing = Missing(r.nodes, r.links) /\ r.ready = JacclReady(r.links)
  /\ r.subsets = Subsets(r.nodes, r.links)

LEMMA ReportReported ==
  ASSUME NEW reached \in Seq(Node), NEW hosts \in Seq(Node), NEW links, Listing(links)
  PROVE  Reported(Report(reached, hosts, links))
<1> DEFINE others == Only(hosts, Elements(hosts) \ Elements(reached))
<1>1. others \in Seq(Node \cap (Elements(hosts) \ Elements(reached)))
  BY OnlyThose
<1>2. others \in Seq(Node)
  BY <1>1, SeqMonotonic
<1> HIDE DEF others
<1>3. reached \o others \in Seq(Node)
  BY <1>2
<1>4. JacclReady(links) \in BOOLEAN
  BY DEF JacclReady, FullMesh
<1> QED BY <1>3, <1>4 DEF Reported, Report, others

LEMMA DiscoveriesReport ==
  ASSUME NEW n \in Node, NEW hosts \in Seq(Node), plugged \subseteq Cable,
         seen \in [Node -> SUBSET (Port \X Port)], \A m \in Node : Sighted(m, seen[m])
  PROVE  \A r \in Discoveries(n, hosts) :
            Reported(r) /\ ((\A m \in Node : seen[m] \subseteq Sees(m, plugged)) => Within(r.links, plugged))
<1> DEFINE Fresh == \A m \in Node : seen[m] \subseteq Sees(m, plugged)
<1>1. OverHttp(hosts) \in Seq(Node) /\ OverSsh(hosts) \in Seq(Node)
  <2>1. OverHttp(hosts) \in Seq(Node \cap serving) /\ OverSsh(hosts) \in Seq(Node \cap on)
    BY OnlyThose DEF OverHttp, OverSsh
  <2> QED BY <2>1, SeqMonotonic
<1>2. /\ Listing(Native(OverHttp(hosts), seen, scanned))
      /\ Fresh => Within(Native(OverHttp(hosts), seen, scanned), plugged)
  BY <1>1, NativeLists
<1>3. \A links \in RunsTool(n, OverSsh(hosts)) : Listing(links) /\ Within(links, plugged)
  BY ToolLists DEF RunsTool
<1>4. \A local : \A links \in OfArp(OverSsh(hosts), plugged, local) : Listing(links) /\ Within(links, plugged)
  BY ToolLists
<1> HIDE DEF Fresh
<1> SUFFICES ASSUME NEW r \in Discoveries(n, hosts) PROVE Reported(r) /\ (Fresh => Within(r.links, plugged))
  BY DEF Fresh
<1>5. \/ r = Report(OverHttp(hosts), hosts, Native(OverHttp(hosts), seen, scanned))
      \/ \E links \in RunsTool(n, OverSsh(hosts)) : r = Report(OverSsh(hosts), hosts, links)
      \/ \E links \in OfArp(OverSsh(hosts), plugged, {p \in Port : addr[p] = LinkLocal}) : r = Report(hosts, hosts, links)
  BY DEF Discoveries
<1>6. PICK reached, links :
         /\ reached \in Seq(Node) /\ r = Report(reached, hosts, links)
         /\ Listing(links) /\ (Fresh => Within(links, plugged))
  BY <1>1, <1>2, <1>3, <1>4, <1>5
<1>7. r.links = links
  BY <1>6 DEF Report
<1> QED BY <1>6, <1>7, ReportReported

(* What is left to do when addresses are given.                            *)
Entry == [port : Port, octet : 0 .. LinkLocal, raw : BOOLEAN]

(* The places of the links are 0, 1, 2 and so on.                          *)
LEMMA Places ==
  ASSUME NEW links, Listing(links)
  PROVE  /\ \A i \in DOMAIN links : Place(links, i) \in 0 .. Len(links) - 1
         /\ \A i, j \in DOMAIN links : Place(links, i) = Place(links, j) => i = j
         /\ \A k \in 0 .. Len(links) - 1 : \E i \in DOMAIN links : Place(links, i) = k
<1> DEFINE D == DOMAIN links
           key == [i \in D |-> <<Key(links[i])[1], Key(links[i])[2], Key(links[i])[3], i>>]
<1>1. Len(links) \in Nat /\ D = 1 .. Len(links)
  BY ListingIs
<1>2. \A i \in D : Key(links[i]) \in Nat \X Nat \X Nat
  <2> SUFFICES ASSUME NEW i \in D PROVE Key(links[i]) \in Nat \X Nat \X Nat
    OBVIOUS
  <2>1. PICK b \in BOOLEAN : links[i] \in Links(b)
    BY ListingIs
  <2>2. links[i].p \in Port /\ links[i].q \in Port
    BY <2>1, LinksAre
  <2>3. links[i].p[1] \in Nat /\ links[i].q[1] \in Nat /\ links[i].p[2] \in Nat /\ links[i].q[2] \in Nat
    BY <2>2, Ports
  <2> QED BY <2>3 DEF Key, Smaller
<1>3. key \in [D -> [1 .. 4 -> Nat]]
  <2> SUFFICES ASSUME NEW i \in D PROVE key[i] \in [1 .. 4 -> Nat]
    OBVIOUS
  <2>1. i \in Nat /\ Key(links[i])[1] \in Nat /\ Key(links[i])[2] \in Nat /\ Key(links[i])[3] \in Nat
    BY <1>1, <1>2
  <2> QED BY <2>1
<1>4. \A i, j \in D : key[i] = key[j] => i = j
  OBVIOUS
<1>5. Orders(ByKey(key), D)
  <2> HIDE DEF key, D
  <2> QED BY <1>3, <1>4, BeforeOrders
<1>6. ASSUME NEW i \in D, NEW j \in D
      PROVE  Before(key[j], key[i]) <=> \/ Before(Key(links[j]), Key(links[i]))
                                        \/ Key(links[j]) = Key(links[i]) /\ j < i
  <2> DEFINE u == Key(links[j])
             v == Key(links[i])
  <2>1. u = <<u[1], u[2], u[3]>> /\ v = <<v[1], v[2], v[3]>>
        /\ u \in [1 .. 3 -> Nat] /\ v \in [1 .. 3 -> Nat]
    <3> HIDE DEF u, v
    <3>1. u \in Nat \X Nat \X Nat /\ v \in Nat \X Nat \X Nat
      BY <1>2 DEF u, v
    <3> QED BY <3>1
  <2>2. Before(u, v) <=> \E k \in 1 .. 3 : u[k] < v[k] /\ \A m \in 1 .. (k - 1) : u[m] = v[m]
    <3> HIDE DEF u, v
    <3> QED BY <2>1, BeforeMeans
  <2>3. Before(key[j], key[i]) <=> \E k \in 1 .. 4 : key[j][k] < key[i][k] /\ \A m \in 1 .. (k - 1) : key[j][m] = key[i][m]
    <3>1. key[j] \in [1 .. 4 -> Nat] /\ key[i] \in [1 .. 4 -> Nat]
      BY <1>3
    <3>2. \A f, g \in [1 .. 4 -> Nat] :
            Before(f, g) <=> \E k \in 1 .. 4 : f[k] < g[k] /\ \A m \in 1 .. (k - 1) : f[m] = g[m]
      <4> SUFFICES ASSUME NEW f \in [1 .. 4 -> Nat], NEW g \in [1 .. 4 -> Nat]
                   PROVE  Before(f, g) <=> \E k \in 1 .. 4 : f[k] < g[k] /\ \A m \in 1 .. (k - 1) : f[m] = g[m]
        OBVIOUS
      <4> QED BY BeforeMeans
    <3> HIDE DEF key
    <3> QED BY <3>1, <3>2
  <2>4. key[j] = <<u[1], u[2], u[3], j>> /\ key[i] = <<v[1], v[2], v[3], i>>
    OBVIOUS
  <2> HIDE DEF u, v, key
  <2>5. Before(u, v) <=>
          \/ u[1] < v[1]
          \/ u[1] = v[1] /\ u[2] < v[2]
          \/ u[1] = v[1] /\ u[2] = v[2] /\ u[3] < v[3]
    <3>1. 1 .. 3 = {1, 2, 3} /\ 1 .. (1 - 1) = {} /\ 1 .. (2 - 1) = {1} /\ 1 .. (3 - 1) = {1, 2}
      OBVIOUS
    <3> QED BY <2>2, <3>1
  <2>6. Before(key[j], key[i]) <=>
          \/ u[1] < v[1]
          \/ u[1] = v[1] /\ u[2] < v[2]
          \/ u[1] = v[1] /\ u[2] = v[2] /\ u[3] < v[3]
          \/ u[1] = v[1] /\ u[2] = v[2] /\ u[3] = v[3] /\ j < i
    <3>1. 1 .. 4 = {1, 2, 3, 4} /\ 1 .. (1 - 1) = {} /\ 1 .. (2 - 1) = {1} /\ 1 .. (3 - 1) = {1, 2}
          /\ 1 .. (4 - 1) = {1, 2, 3}
      OBVIOUS
    <3> QED BY <2>3, <2>4, <3>1
  <2>7. u = v <=> u[1] = v[1] /\ u[2] = v[2] /\ u[3] = v[3]
    BY <2>1
  <2> QED BY <2>5, <2>6, <2>7 DEF u, v
<1>7. \A i \in D : Place(links, i) = Cardinality(Below(ByKey(key), D, i))
  <2> SUFFICES ASSUME NEW i \in D PROVE Place(links, i) = Cardinality(Below(ByKey(key), D, i))
    OBVIOUS
  <2>1. DOMAIN key = D
    OBVIOUS
  <2>2. Below(ByKey(key), D, i) = {j \in D : Before(key[j], key[i])}
    <3> HIDE DEF key
    <3> QED BY <2>1 DEF Below, ByKey
  <2>3. Below(ByKey(key), D, i) = {j \in D : \/ Before(Key(links[j]), Key(links[i]))
                                             \/ Key(links[j]) = Key(links[i]) /\ j < i}
    BY <1>6, <2>2
  <2> QED BY <2>3 DEF Place
<1>8. IsFiniteSet(D) /\ Cardinality(D) = Len(links)
  <2>1. \A n \in Nat : IsFiniteSet(1 .. n) /\ Cardinality(1 .. n) = n
    <3> SUFFICES ASSUME NEW n \in Nat PROVE IsFiniteSet(1 .. n) /\ Cardinality(1 .. n) = n
      OBVIOUS
    <3>1. IsFiniteSet(1 .. n) /\ Cardinality(1 .. n) = IF 1 > n THEN 0 ELSE n - 1 + 1
      BY FS_Interval
    <3> QED BY <3>1
  <2> QED BY <1>1, <2>1
<1> HIDE DEF key
<1>9. \A i \in D : Cardinality(Below(ByKey(key), D, i)) \in 0 .. Cardinality(D) - 1
  BY <1>5, <1>8, Ranks
<1>10. \A i, j \in D : Cardinality(Below(ByKey(key), D, i)) = Cardinality(Below(ByKey(key), D, j)) => i = j
  BY <1>5, <1>8, Ranks
<1>11. \A k \in 0 .. Cardinality(D) - 1 : \E i \in D : Cardinality(Below(ByKey(key), D, i)) = k
  BY <1>5, <1>8, Ranks
<1> QED BY <1>7, <1>8, <1>9, <1>10, <1>11

(* The addresses that are to be given fit in the last part of an address.  *)
LEMMA AssignmentGives ==
  ASSUME NEW links, Listing(links)
  PROVE  /\ Assignment(links) \in Seq(Entry)
         /\ links # <<>> => Assignment(links) # <<>>
<1> DEFINE sorted == [k \in DOMAIN links |-> CHOOSE i \in DOMAIN links : Place(links, i) = k - 1]
           entry(k) == [port |-> IF k % 2 = 1 THEN links[sorted[(k + 1) \div 2]].p ELSE links[sorted[(k + 1) \div 2]].q,
                        octet |-> Octet(links, sorted[(k + 1) \div 2],
                                        IF k % 2 = 1 THEN links[sorted[(k + 1) \div 2]].p ELSE links[sorted[(k + 1) \div 2]].q),
                        raw |-> links[sorted[(k + 1) \div 2]].raw]
<1>1. Len(links) \in Nat /\ DOMAIN links = 1 .. Len(links) /\ Len(links) <= Cardinality(Cable) /\ links \in Seq(Link)
  BY ListingIs
<1>2. ASSUME NEW k \in DOMAIN links
      PROVE  sorted[k] \in DOMAIN links /\ Place(links, sorted[k]) \in 0 .. Len(links) - 1
  <2>1. k - 1 \in 0 .. Len(links) - 1
    BY <1>1
  <2>2. \E i \in DOMAIN links : Place(links, i) = k - 1
    BY <2>1, Places
  <2>3. sorted[k] = CHOOSE i \in DOMAIN links : Place(links, i) = k - 1
    OBVIOUS
  <2>4. sorted[k] \in DOMAIN links /\ Place(links, sorted[k]) = k - 1
    BY <2>2, <2>3
  <2> QED BY <2>1, <2>4
<1>3. Assignment(links) = [k \in 1 .. (2 * Len(links)) |-> entry(k)]
  BY DEF Assignment
<1> HIDE DEF sorted
<1>4. ASSUME NEW k \in 1 .. (2 * Len(links))
      PROVE  entry(k) \in Entry
  <2> DEFINE i == sorted[(k + 1) \div 2]
             p == IF k % 2 = 1 THEN links[i].p ELSE links[i].q
  <2>1. (k + 1) \div 2 \in DOMAIN links
    BY <1>1
  <2>2. i \in DOMAIN links /\ Place(links, i) \in 0 .. Len(links) - 1
    BY <1>2, <2>1
  <2>3. links[i] \in Link
    BY <1>1, <2>2, ElementOfSeq
  <2>4. p \in Port /\ links[i].raw \in BOOLEAN
    BY <2>3 DEF Link
  <2>5. Cardinality(Cable) \in Nat
    BY Ports
  <2>6. Octet(links, i, p) \in 0 .. LinkLocal
    <3>1. Octet(links, i, p) = 4 * Place(links, i) + 1 \/ Octet(links, i, p) = 4 * Place(links, i) + 2
      BY DEF Octet
    <3> HIDE DEF i, p
    <3> QED BY <1>1, <2>2, <2>5, <3>1 DEF LinkLocal
  <2> QED BY <2>4, <2>6 DEF Entry
<1> HIDE DEF entry
<1>5. Assignment(links) \in [1 .. (2 * Len(links)) -> Entry] /\ 2 * Len(links) \in Nat
  BY <1>1, <1>3, <1>4
<1>6. Assignment(links) \in Seq(Entry)
  BY <1>5, SeqDef
<1>7. ASSUME links # <<>> PROVE Assignment(links) # <<>>
  <2>1. Len(links) # 0
    BY <1>1, <1>7, EmptySeq
  <2>2. 1 \in DOMAIN Assignment(links)
    BY <1>1, <1>5, <2>1
  <2> QED BY <2>2
<1> QED BY <1>6, <1>7

LEMMA FallbackGivesOut ==
  ASSUME NEW n \in Node, plugged \subseteq Cable
  PROVE  /\ Fallback(n) \in Seq(Entry)
         /\ Elements(Fallback(n)) = IF StaticEntries(n) # {} THEN StaticEntries(n) ELSE LinkLocalEntries(n)
<1>1. Cardinality(Cable) \in Nat /\ LinkLocal \in 0 .. LinkLocal
  BY Ports DEF LinkLocal
<1>2. Static \in [Port -> 0 .. LinkLocal] /\ IsFiniteSet(Port) /\ PortsOf(n) \subseteq Port
  BY FabricAssumption, TopologyAssumption DEF PortsOf
<1> DEFINE E == IF StaticEntries(n) # {} THEN StaticEntries(n) ELSE LinkLocalEntries(n)
           key == [e \in E |-> e.port]
<1>3. E \subseteq Entry /\ \A e, f \in E : e.port = f.port => e = f
  <2> DEFINE S(p) == [port |-> p, octet |-> Static[p], raw |-> FALSE]
             L(p) == [port |-> p, octet |-> LinkLocal, raw |-> FALSE]
  <2>5. \A p \in PortsOf(n) : S(p) \in Entry /\ L(p) \in Entry /\ S(p).port = p /\ L(p).port = p
    BY <1>1, <1>2 DEF Entry
  <2>6. /\ \A e \in StaticEntries(n) : \E p \in PortsOf(n) : e = S(p)
        /\ \A e \in LinkLocalEntries(n) : \E p \in PortsOf(n) : e = L(p)
    BY DEF StaticEntries, LinkLocalEntries
  <2> HIDE DEF S, L
  <2>1. StaticEntries(n) \subseteq Entry /\ LinkLocalEntries(n) \subseteq Entry
    BY <2>5, <2>6
  <2>2. \A e, f \in StaticEntries(n) : e.port = f.port => e = f
    BY <2>5, <2>6
  <2>3. \A e, f \in LinkLocalEntries(n) : e.port = f.port => e = f
    BY <2>5, <2>6
  <2>4. E = StaticEntries(n) \/ E = LinkLocalEntries(n)
    OBVIOUS
  <2> HIDE DEF E
  <2> QED BY <2>1, <2>2, <2>3, <2>4
<1> HIDE DEF E
<1>4. key \in [E -> [1 .. 2 -> Nat]]
  <2> SUFFICES ASSUME NEW e \in E PROVE e.port \in [1 .. 2 -> Nat]
    OBVIOUS
  <2>1. e.port \in Port
    BY <1>3 DEF Entry
  <2>2. e.port = <<e.port[1], e.port[2]>> /\ e.port[1] \in Nat /\ e.port[2] \in Nat
    BY <2>1, Ports
  <2> DEFINE u == e.port[1]
             v == e.port[2]
  <2>3. e.port = <<u, v>> /\ u \in Nat /\ v \in Nat
    BY <2>2
  <2> HIDE DEF u, v
  <2> QED BY <2>3
<1>5. \A e, f \in E : key[e] = key[f] => e = f
  BY <1>3
<1>6. key \in Injection(E, Port)
  <2>1. key \in [E -> Port]
    BY <1>3 DEF Entry
  <2> HIDE DEF key
  <2> QED BY <1>5, <2>1, Fun_IsInj
<1>7. DOMAIN key = E /\ Fallback(n) = InOrder(key)
  BY DEF Fallback, E
<1> HIDE DEF key
<1>8. Orders(ByKey(key), E)
  BY <1>4, <1>5, BeforeOrders
<1>9. IsFiniteSet(E)
  BY <1>2, <1>6, FS_Injection
<1>10. Cardinality(E) \in Nat /\ InOrder(key) \in [1 .. Cardinality(E) -> E]
  BY <1>7, <1>8, <1>9, InOrderLists
<1>11. InOrder(key) \in [1 .. Cardinality(E) -> Entry]
  BY <1>3, <1>10
<1>12. \A e \in E : \E i \in 1 .. Cardinality(E) : InOrder(key)[i] = e
  BY <1>7, <1>8, <1>9, InOrderLists
<1>13. Elements(InOrder(key)) = E
  BY <1>10, <1>12 DEF Elements
<1>14. Fallback(n) \in Seq(Entry)
  BY <1>7, <1>10, <1>11, SeqDef
<1> QED BY <1>7, <1>13, <1>14 DEF E

-----------------------------------------------------------------------------
(* Hostfiles.                                                              *)

(* The order of combinations, of sets of numbers.                          *)
Later(S, T) == \E x \in T \ S : \A y \in (S \ T) \cup (T \ S) : x <= y

LEMMA LaterOrders ==
  ASSUME NEW M, M \subseteq SUBSET Nat
  PROVE  Orders({x \in M \X M : Later(x[2], x[1])}, M)
<1> DEFINE R == {x \in M \X M : Later(x[2], x[1])}
<1>1. \A S, T \in M : <<S, T>> \in R <=> Later(T, S)
  OBVIOUS
<1>2. \A S \in M : ~ Later(S, S)
  BY DEF Later
<1>3. ASSUME NEW S \in M, NEW T \in M, NEW U \in M, Later(S, T), Later(T, U)
      PROVE  Later(S, U)
  <2>1. PICK x \in T \ S : \A y \in (S \ T) \cup (T \ S) : x <= y
    BY <1>3 DEF Later
  <2>2. PICK z \in U \ T : \A y \in (T \ U) \cup (U \ T) : z <= y
    BY <1>3 DEF Later
  <2>3. x \in Nat /\ z \in Nat /\ x # z
    BY <2>1, <2>2
  <2>4. CASE x < z
    <3>1. x \in U
      BY <2>1, <2>2, <2>3, <2>4
    <3>2. \A y \in (S \ U) \cup (U \ S) : x <= y
      <4> SUFFICES ASSUME NEW y \in (S \ U) \cup (U \ S) PROVE x <= y
        OBVIOUS
      <4>1. y \in Nat /\ (y \in (S \ T) \cup (T \ S) \/ y \in (T \ U) \cup (U \ T))
        OBVIOUS
      <4> QED BY <2>1, <2>2, <2>3, <2>4, <4>1
    <3> QED BY <2>1, <3>1, <3>2 DEF Later
  <2>5. CASE z < x
    <3>1. z \notin S
      BY <2>1, <2>2, <2>3, <2>5
    <3>2. \A y \in (S \ U) \cup (U \ S) : z <= y
      <4> SUFFICES ASSUME NEW y \in (S \ U) \cup (U \ S) PROVE z <= y
        OBVIOUS
      <4>1. y \in Nat /\ (y \in (S \ T) \cup (T \ S) \/ y \in (T \ U) \cup (U \ T))
        OBVIOUS
      <4> QED BY <2>1, <2>2, <2>3, <2>5, <4>1
    <3> QED BY <2>2, <3>1, <3>2 DEF Later
  <2> QED BY <2>3, <2>4, <2>5
<1>4. ASSUME NEW S \in M, NEW T \in M, S # T
      PROVE  Later(S, T) \/ Later(T, S)
  <2>1. (S \ T) \cup (T \ S) # {} /\ (S \ T) \cup (T \ S) \subseteq Nat
    BY <1>4
  <2>2. PICK x \in (S \ T) \cup (T \ S) : \A y \in (S \ T) \cup (T \ S) : x <= y
    BY <2>1, Least
  <2> QED BY <2>2 DEF Later
<1> HIDE DEF R
<1>5. Orders(R, M)
  BY <1>1, <1>2, <1>3, <1>4 DEF Orders
<1> QED BY <1>5 DEF R

(* The hosts of a hostfile are nodes of the report.                        *)
LEMMA ChosenAreNodes ==
  ASSUME NEW r, Reported(r)
  PROVE  Chosen(r) \subseteq Elements(r.nodes)
<1> DEFINE D == DOMAIN r.nodes
           most == {S \in r.subsets : \A T \in r.subsets : Cardinality(T) <= Cardinality(S)}
           last == CHOOSE S \in most : \A T \in most \ {S} : Later(S, T)
<1>1. Len(r.nodes) \in Nat /\ D = 1 .. Len(r.nodes)
  BY LenProperties DEF Reported
<1>2. r.subsets \subseteq SUBSET D
  BY DEF Reported, Subsets
<1>3. IsFiniteSet(D)
  BY <1>1, FS_Interval
<1>4. \A S \in SUBSET D : IsFiniteSet(S) /\ Cardinality(S) \in Nat /\ Cardinality(S) <= Cardinality(D)
  BY <1>3, FS_Subset, FS_CardinalityType
<1>5. Cardinality(D) \in Nat
  BY <1>3, FS_CardinalityType
<1> HIDE DEF D
<1>6. ASSUME r.subsets # {} PROVE last \in r.subsets
  <2> DEFINE gaps == {k \in Nat : \E S \in r.subsets : k = Cardinality(D) - Cardinality(S)}
  <2>1. gaps # {} /\ gaps \subseteq Nat
    <3>1. PICK S \in r.subsets : TRUE
      BY <1>6
    <3>2. Cardinality(D) - Cardinality(S) \in Nat
      BY <1>2, <1>4, <1>5
    <3> QED BY <3>1, <3>2
  <2>2. PICK k \in gaps : \A j \in gaps : k <= j
    <3> HIDE DEF gaps
    <3> QED BY <2>1, Least
  <2>3. PICK S \in r.subsets : k = Cardinality(D) - Cardinality(S)
    BY <2>2
  <2>4. \A T \in r.subsets : Cardinality(T) <= Cardinality(S)
    <3> SUFFICES ASSUME NEW T \in r.subsets PROVE Cardinality(T) <= Cardinality(S)
      OBVIOUS
    <3>1. Cardinality(T) \in Nat /\ Cardinality(S) \in Nat /\ Cardinality(T) <= Cardinality(D)
      BY <1>2, <1>4
    <3>2. Cardinality(D) - Cardinality(T) \in Nat
      BY <1>5, <3>1
    <3>3. Cardinality(D) - Cardinality(T) \in gaps
      BY <3>2
    <3> QED BY <1>5, <2>2, <2>3, <3>1, <3>3
  <2>5. most # {} /\ most \in SUBSET (SUBSET D)
    BY <1>2, <2>3, <2>4
  <2>6. IsFiniteSet(most)
    BY <1>3, <2>5, FS_SUBSET, FS_Subset
  <2>7. most \subseteq SUBSET Nat
    BY <1>1, <2>5 DEF D
  <2>8. most \subseteq r.subsets
    OBVIOUS
  <2> HIDE DEF most
  <2> DEFINE R == {x \in most \X most : Later(x[2], x[1])}
  <2>9. Orders(R, most)
    BY <2>7, LaterOrders
  <2>10. \A S1, T1 \in most : <<T1, S1>> \in R => Later(S1, T1)
    OBVIOUS
  <2> HIDE DEF R
  <2>11. \E S1 \in most : \A T1 \in most \ {S1} : <<T1, S1>> \in R
    BY <2>5, <2>6, <2>9, LastOne
  <2>12. \E S1 \in most : \A T1 \in most \ {S1} : Later(S1, T1)
    BY <2>10, <2>11
  <2>13. last \in most
    BY <2>12
  <2> QED BY <2>8, <2>13
<1>7. Chosen(r) = {r.nodes[i] : i \in IF r.subsets = {} THEN D ELSE last}
  BY DEF Chosen, Later, D
<1> HIDE DEF last
<1>8. (IF r.subsets = {} THEN D ELSE last) \subseteq D
  BY <1>2, <1>6
<1> QED BY <1>7, <1>8 DEF Elements, D


(* The devices that two hosts have for each other are the two ends of one  *)
(* link: both look for the first link between them.                        *)
LEMMA DevicePairs ==
  ASSUME NEW links, Listing(links), NEW m, NEW n
  PROVE  /\ Device(links, m, n) \in Port \cup {None}
         /\ Device(links, m, n) = None <=> Device(links, n, m) = None
         /\ Device(links, m, n) # None =>
              /\ Device(links, m, n)[1] = m /\ Device(links, n, m)[1] = n
              /\ \/ <<Device(links, m, n), Device(links, n, m)>> \in Cable
                 \/ <<Device(links, n, m), Device(links, m, n)>> \in Cable
         /\ Device(links, m, n) = None =>
              m = n \/ \A i \in DOMAIN links : Joins(links[i]) # <<m, n>> /\ Joins(links[i]) # <<n, m>>
<1> DEFINE pair == {i \in DOMAIN links : {links[i].p[1], links[i].q[1]} = {m, n}}
           first == CHOOSE i \in pair : \A j \in pair : i <= j
<1>1. pair = {i \in DOMAIN links : {links[i].p[1], links[i].q[1]} = {n, m}}
  OBVIOUS
<1>2. /\ Device(links, m, n) = IF pair = {} \/ m = n THEN None
                               ELSE IF links[first].p[1] = m THEN links[first].p ELSE links[first].q
      /\ Device(links, n, m) = IF pair = {} \/ m = n THEN None
                               ELSE IF links[first].p[1] = n THEN links[first].p ELSE links[first].q
  <2>1. Device(links, m, n) = IF pair = {} \/ m = n THEN None
                              ELSE IF links[first].p[1] = m THEN links[first].p ELSE links[first].q
    BY DEF Device
  <2>2. Device(links, n, m) =
          LET back == {i \in DOMAIN links : {links[i].p[1], links[i].q[1]} = {n, m}}
              l    == links[CHOOSE i \in back : \A j \in back : i <= j]
          IN  IF back = {} \/ n = m THEN None ELSE IF l.p[1] = n THEN l.p ELSE l.q
    BY DEF Device
  <2>3. Device(links, n, m) = IF pair = {} \/ n = m THEN None
                              ELSE IF links[first].p[1] = n THEN links[first].p ELSE links[first].q
    BY <1>1, <2>2
  <2> QED BY <2>1, <2>3
<1>3. None \notin Port
  BY TopologyAssumption
<1>4. pair # {} => first \in pair
  <2>1. pair \subseteq Nat
    BY ListingIs
  <2> HIDE DEF pair
  <2>2. pair # {} => \E i \in pair : \A j \in pair : i <= j
    BY <2>1, Least
  <2> QED BY <2>2
<1> HIDE DEF first
<1>5. CASE pair = {} \/ m = n
  <2>1. pair = {} => \A i \in DOMAIN links : Joins(links[i]) # <<m, n>> /\ Joins(links[i]) # <<n, m>>
    BY DEF Joins
  <2> QED BY <1>2, <1>5, <2>1
<1>6. CASE ~ (pair = {} \/ m = n)
  <2>1. PICK b \in BOOLEAN : links[first] \in Links(b)
    BY <1>4, <1>6, ListingIs
  <2>2. links[first].p \in Port /\ links[first].q \in Port /\ <<links[first].p, links[first].q>> \in Cable
    BY <2>1, LinksAre
  <2>3. {links[first].p[1], links[first].q[1]} = {m, n}
    BY <1>4, <1>6
  <2> HIDE DEF pair
  <2>4. CASE links[first].p[1] = m
    <3>1. links[first].q[1] = n /\ links[first].p[1] # n
      BY <1>6, <2>3, <2>4
    <3>2. Device(links, m, n) = links[first].p /\ Device(links, n, m) = links[first].q
      BY <1>2, <1>6, <2>4, <3>1
    <3> QED BY <1>3, <2>2, <2>4, <3>1, <3>2
  <2>5. CASE links[first].p[1] # m
    <3>1. links[first].p[1] = n /\ links[first].q[1] = m
      BY <1>6, <2>3, <2>5
    <3>2. Device(links, m, n) = links[first].q /\ Device(links, n, m) = links[first].p
      BY <1>2, <1>6, <2>5, <3>1
    <3> QED BY <1>3, <2>2, <3>1, <3>2
  <2> QED BY <2>4, <2>5
<1> QED BY <1>5, <1>6

(* A hostfile that is made of a report.                                    *)
LEMMA OfReportPairs ==
  ASSUME NEW r, Reported(r)
  PROVE  /\ OfReport(r).live = TRUE /\ DOMAIN OfReport(r).rdma = Chosen(r) \X Chosen(r)
         /\ \A m, n \in Chosen(r) : OfReport(r).rdma[<<m, n>>] = Device(r.links, m, n)
         /\ HostsOf(OfReport(r)) = Chosen(r)
         /\ IsFile(OfReport(r)) /\ PairsUp(OfReport(r))
<1> DEFINE f == OfReport(r)
           H == Chosen(r)
<1>1. Listing(r.links) /\ H \subseteq Node
  <2>1. Listing(r.links) /\ r.nodes \in Seq(Node)
    BY DEF Reported
  <2>2. H \subseteq Elements(r.nodes)
    BY ChosenAreNodes
  <2> QED BY <2>1, <2>2, ElementOfSeq DEF Elements
<1>2. f = [live |-> TRUE, rdma |-> [x \in H \X H |-> Device(r.links, x[1], x[2])]]
  BY DEF OfReport
<1> HIDE DEF H, f
<1>3. f.live = TRUE /\ DOMAIN f.rdma = H \X H /\ \A m, n \in H : f.rdma[<<m, n>>] = Device(r.links, m, n)
  BY <1>2
<1>4. HostsOf(f) = H
  <2>1. HostsOf(f) = {x[1] : x \in H \X H}
    BY <1>3 DEF HostsOf
  <2>2. \A h \in H : <<h, h>> \in H \X H /\ <<h, h>>[1] = h
    OBVIOUS
  <2> QED BY <2>1, <2>2
<1>5. IsFile(f)
  <2>1. \A x \in H \X H : Device(r.links, x[1], x[2]) \in Port \cup {None}
    BY <1>1, DevicePairs
  <2>2. f \in [live : BOOLEAN, rdma : [H \X H -> Port \cup {None}]]
    BY <1>2, <2>1
  <2> QED BY <1>1, <2>2 DEF IsFile
<1>6. PairsUp(f)
  <2> SUFFICES ASSUME NEW m \in H, NEW n \in H
               PROVE  LET d == f.rdma[<<m, n>>]
                          e == f.rdma[<<n, m>>]
                      IN  /\ d = None <=> e = None
                          /\ d # None => d[1] = m /\ e[1] = n /\ (<<d, e>> \in Cable \/ <<e, d>> \in Cable)
    BY <1>3 DEF PairsUp
  <2>1. f.rdma[<<m, n>>] = Device(r.links, m, n) /\ f.rdma[<<n, m>>] = Device(r.links, n, m)
    BY <1>3
  <2> QED BY <1>1, <2>1, DevicePairs
<1> QED BY <1>3, <1>4, <1>5, <1>6 DEF f, H

(* A hostfile that is made of the NodeMap.                                 *)
LEMMA OfNodeMapIsFile ==
  ASSUME NEW nodes, nodes \subseteq Node, NEW local
  PROVE  IsFile(OfNodeMap(nodes, local, OldLinks)) /\ OfNodeMap(nodes, local, OldLinks).live = FALSE
<1> DEFINE to(n)  == {k \in OldLinks : k[2] = n}
           least(n) == (CHOOSE k \in to(n) : \A j \in to(n) : k[1][2] <= j[1][2])[1]
           hosts  == {n \in nodes : n = local \/ to(n) # {}}
           dev(n) == IF to(n) = {} THEN None ELSE least(n)
           map == [x \in hosts \X hosts |->
                      IF x[1] = x[2] THEN None
                      ELSE IF x[1] = local THEN dev(x[2])
                      ELSE IF x[2] = local THEN dev(x[1]) ELSE None]
<1>1. OfNodeMap(nodes, local, OldLinks) = [live |-> FALSE, rdma |-> map]
  BY DEF OfNodeMap
<1>2. hosts \subseteq Node
  OBVIOUS
<1>3. ASSUME NEW n PROVE dev(n) \in Port \cup {None}
  <2>1. \A k \in to(n) : k[1] \in Port /\ k[1][2] \in Nat
    <3>1. OldLinks \subseteq Port \X Node
      BY FabricAssumption
    <3> QED BY <3>1, Ports
  <2> DEFINE T == {k[1][2] : k \in to(n)}
  <2>2. T \subseteq Nat
    BY <2>1
  <2> HIDE DEF to
  <2>3. CASE to(n) # {}
    <3>1. T # {}
      BY <2>3
    <3>2. PICK x \in T : \A y \in T : x <= y
      <4> HIDE DEF T
      <4> QED BY <2>2, <3>1, Least
    <3>3. PICK k \in to(n) : x = k[1][2]
      BY <3>2
    <3>4. \A j \in to(n) : k[1][2] <= j[1][2]
      BY <3>2, <3>3
    <3>5. (CHOOSE i \in to(n) : \A j \in to(n) : i[1][2] <= j[1][2]) \in to(n)
      BY <3>4
    <3> QED BY <2>1, <3>5
  <2> QED BY <2>3
<1> HIDE DEF dev, hosts
<1>4. map \in [hosts \X hosts -> Port \cup {None}]
  BY <1>3
<1> HIDE DEF map
<1>5. [live |-> FALSE, rdma |-> map] \in [live : BOOLEAN, rdma : [hosts \X hosts -> Port \cup {None}]]
  BY <1>4
<1> QED BY <1>1, <1>2, <1>5 DEF IsFile


-----------------------------------------------------------------------------
(* The inductive invariant.                                                *)

Setups == {s \in [at : {"idle", "scan", "apply", "fallback", "file"}, hosts : Seq(Node), tries : 0 .. MaxAttempts,
                  best : Seq(Link), again : BOOLEAN, todo : Seq(Entry), given : BOOLEAN] :
              Listing(s.best) /\ (s.at = "scan" => s.tries < MaxAttempts)}

Cabling   == events \in 0 .. MaxEvents /\ OneCableEach(plugged) /\ whole \in BOOLEAN
Powered   == serving \subseteq on /\ on \subseteq Node /\ scanned \subseteq Node
Addressed == addr \in [Port -> 0 .. LinkLocal] /\ ips \in [Node -> SUBSET (Node \X (1 .. LinkLocal))]
Sighting  == seen \in [Node -> SUBSET (Port \X Port)] /\ \A n \in Node : Sighted(n, seen[n])
SettingUp == setup \in [Node -> Setups] /\ auto \in [Node -> SUBSET Node]
Cached    == (cache = None \/ Reported(cache)) /\ sync \in {"none", "asked", "cleared"}
Written   == \A n \in DOMAIN hostfile :
                hostfile[n] = None \/ (IsFile(hostfile[n]) /\ (hostfile[n].live => PairsUp(hostfile[n])))

Sound == Cabling /\ Powered /\ Addressed /\ Sighting /\ SettingUp /\ Cached /\ Written

LEMMA IdleIsSetup == Idle \in Setups
<1>1. MaxAttempts \in Nat /\ 0 < MaxAttempts
  BY FabricAssumption
<1> QED BY <1>1, NoLinks DEF Idle, Setups

LEMMA CablesSighted ==
  ASSUME NEW n \in Node, NEW cables, OneCableEach(cables)
  PROVE  Sighted(n, Sees(n, cables)) /\ Sees(n, cables) \subseteq Port \X Port
<1>1. PortsOf(n) \subseteq Port
  BY DEF PortsOf
<1>2. cables \subseteq Cable /\ \A c, d \in cables : {c[1], c[2]} \cap {d[1], d[2]} # {} => c = d
  BY DEF OneCableEach
<1>3. \A x \in Sees(n, cables) : /\ x \in PortsOf(n) \X Port /\ x \in Port \X Port
                                 /\ x \in cables \/ <<x[2], x[1]>> \in cables
  BY <1>1 DEF Sees
<1>4. ASSUME NEW x \in Sees(n, cables), NEW y \in Sees(n, cables), x[1] = y[1]
      PROVE  x = y
  <2>1. x = <<x[1], x[2]>> /\ y = <<y[1], y[2]>>
    <3>1. \A z \in Port \X Port : z = <<z[1], z[2]>>
      OBVIOUS
    <3> QED BY <1>3, <3>1
  <2>2. \A c \in cables : c[1] # c[2]
    <3>1. \A c \in cables : c[1] \in Port /\ c[1][1] < c[2][1]
      BY <1>2, Ports
    <3>2. \A c \in cables : c[1][1] \in Nat
      BY <3>1, Ports
    <3> QED BY <3>1, <3>2
  <2>3. CASE x \in cables /\ y \in cables
    BY <1>2, <1>4, <2>3
  <2>4. CASE x \in cables /\ <<y[2], y[1]>> \in cables
    <3>1. x = <<y[2], y[1]>>
      BY <1>2, <1>4, <2>4
    <3> QED BY <1>4, <2>2, <2>4, <3>1
  <2>5. CASE <<x[2], x[1]>> \in cables /\ y \in cables
    <3>1. y = <<x[2], x[1]>>
      BY <1>2, <1>4, <2>5
    <3> QED BY <1>4, <2>2, <2>5, <3>1
  <2>6. CASE <<x[2], x[1]>> \in cables /\ <<y[2], y[1]>> \in cables
    <3>1. <<x[2], x[1]>> = <<y[2], y[1]>>
      BY <1>2, <1>4, <2>6
    <3> QED BY <1>4, <2>1, <3>1
  <2> QED BY <1>3, <2>3, <2>4, <2>5, <2>6
<1> QED BY <1>2, <1>3, <1>4 DEF Sighted

LEMMA FallsBackIsSetup ==
  ASSUME NEW n \in Node, NEW s \in Setups, plugged \subseteq Cable
  PROVE  FallsBack(s, n) \in Setups
<1>1. Fallback(n) \in Seq(Entry)
  BY FallbackGivesOut
<1> QED BY <1>1 DEF FallsBack, Setups

LEMMA BeginIsSetup ==
  ASSUME NEW n \in Node, NEW hosts \in Seq(Node), plugged \subseteq Cable
  PROVE  Begin(n, hosts) \in Setups
<1> DEFINE s == [Idle EXCEPT !.hosts = hosts]
<1>1. s \in Setups /\ [s EXCEPT !.at = "scan"] \in Setups
  <2>1. MaxAttempts \in Nat /\ 0 < MaxAttempts
    BY FabricAssumption
  <2>2. Idle \in Setups /\ Idle.tries = 0
    BY IdleIsSetup DEF Idle
  <2>3. s \in Setups
    BY <2>2 DEF Setups
  <2>4. s.tries = 0
    BY <2>2 DEF Setups
  <2> HIDE DEF s
  <2>5. [s EXCEPT !.at = "scan"] \in Setups
    BY <2>1, <2>3, <2>4 DEF Setups
  <2> QED BY <2>3, <2>5
<1>2. FallsBack(s, n) \in Setups
  BY <1>1, FallsBackIsSetup
<1>3. Begin(n, hosts) \in {FallsBack(s, n), [s EXCEPT !.at = "scan"]}
  BY DEF Begin
<1> QED BY <1>1, <1>2, <1>3

LEMMA InitSound == Init => Sound
<1> SUFFICES ASSUME Init PROVE Sound
  OBVIOUS
<1>1. /\ OneCableEach(Plugged) /\ Static \in [Port -> 0 .. LinkLocal] /\ MaxEvents \in Nat
      /\ OldIps \in [Node -> SUBSET (Node \X (1 .. LinkLocal))]
  BY FabricAssumption
<1>2. Cabling /\ Powered /\ Addressed
  BY <1>1 DEF Init, Cabling, Powered, Addressed
<1>3. Sighting
  <2>1. \A n \in Node : Sighted(n, Sees(n, Plugged)) /\ Sees(n, Plugged) \subseteq Port \X Port
    BY <1>1, CablesSighted
  <2>2. seen = [n \in Node |-> Sees(n, Plugged)]
    BY DEF Init
  <2> QED BY <2>1, <2>2 DEF Sighting
<1>4. SettingUp
  BY IdleIsSetup DEF Init, SettingUp
<1>5. Cached /\ Written
  BY DEF Init, Cached, Written
<1> QED BY <1>2, <1>3, <1>4, <1>5 DEF Sound

(* One lemma for each group of actions.                                    *)
LEMMA MachineSteps ==
  ASSUME Sound
  PROVE  /\ Replug \/ DaemonsStop \/ MachinesStop => Sound'
         /\ \A n \in Node : MachineStarts(n) \/ DaemonStarts(n) \/ DaemonServes(n) \/ ScansPorts(n) => Sound'
<1> USE DEF Sound
<1>1. events < MaxEvents /\ events' = events + 1 => events' \in 0 .. MaxEvents
  BY FabricAssumption DEF Cabling
<1>2. events + 2 <= MaxEvents /\ events' = events + 2 => events' \in 0 .. MaxEvents
  BY FabricAssumption DEF Cabling
<1>3. plugged \subseteq Cable
  BY DEF Cabling, OneCableEach
<1>4. ASSUME Replug PROVE Sound'
  <2>1. OneCableEach(plugged')
    <3>1. PICK c \in Cable :
            plugged' = IF c \in plugged THEN plugged \ {c}
                       ELSE {d \in plugged : {c[1], c[2]} \cap {d[1], d[2]} = {}} \cup {c}
      BY <1>4 DEF Replug
    <3> QED BY <3>1 DEF Cabling, OneCableEach
  <2>2. Cabling'
    BY <1>1, <1>4, <2>1 DEF Cabling, Replug, Happens
  <2> QED BY <1>4, <2>2 DEF Replug, boxes, scans, hubs, Powered, Addressed, Sighting, SettingUp, Cached, Written
<1>5. ASSUME NEW gone, Stop(gone)
      PROVE  Sighting' /\ setup' \in [Node -> Setups] /\ Cached' /\ scanned' \subseteq Node
  <2>1. seen' = [n \in Node |-> IF n \in gone THEN {} ELSE seen[n]]
        /\ setup' = [n \in Node |-> IF n \in gone THEN Idle ELSE setup[n]]
    BY <1>5 DEF Stop
  <2>2. Sighting'
    BY <2>1 DEF Sighting, Sighted
  <2>3. setup' \in [Node -> Setups]
    BY <2>1, IdleIsSetup DEF SettingUp
  <2>4. Cached' /\ scanned' \subseteq Node
    BY <1>5 DEF Stop, Cached, Powered
  <2> QED BY <2>2, <2>3, <2>4
<1>6. ASSUME DaemonsStop PROVE Sound'
  <2>1. PICK gone \in Restarts : gone \subseteq on /\ Stop(gone)
    BY <1>6 DEF DaemonsStop
  <2>2. Sighting' /\ setup' \in [Node -> Setups] /\ Cached' /\ scanned' \subseteq Node
    BY <1>5, <2>1
  <2>3. Powered' /\ Addressed' /\ SettingUp' /\ Written' /\ Cabling'
    BY <1>1, <1>6, <2>1, <2>2 DEF DaemonsStop, Happens, Stop, Powered, Addressed, SettingUp, Written, Cabling
  <2> QED BY <2>2, <2>3
<1>7. ASSUME MachinesStop PROVE Sound'
  <2>1. PICK gone \in Cuts : /\ gone \subseteq on /\ Stop(gone) /\ on' = on \ gone
                             /\ addr' = [p \in Port |-> IF p[1] \in gone THEN NoAddress ELSE addr[p]]
    BY <1>7 DEF MachinesStop
  <2>2. Sighting' /\ setup' \in [Node -> Setups] /\ Cached' /\ scanned' \subseteq Node
    BY <1>5, <2>1
  <2>3. NoAddress \in 0 .. LinkLocal
    BY Ports DEF NoAddress, LinkLocal
  <2>4. Powered' /\ Addressed'
    BY <1>7, <2>1, <2>2, <2>3 DEF MachinesStop, Stop, Powered, Addressed
  <2>5. SettingUp' /\ Written' /\ Cabling'
    BY <1>2, <1>7, <2>2 DEF MachinesStop, CutHappens, SettingUp, Written, Cabling
  <2> QED BY <2>2, <2>4, <2>5
<1>8. ASSUME NEW n \in Node, MachineStarts(n) \/ DaemonServes(n) PROVE Sound'
  BY <1>8 DEF MachineStarts, DaemonServes, scans, hubs, Cabling, Powered, Addressed, Sighting, SettingUp, Cached, Written
<1>9. ASSUME NEW n \in Node, DaemonStarts(n) PROVE Sound'
  <2>1. Listed[n] \in Seq(Node)
    BY FabricAssumption
  <2>2. Begin(n, Listed[n]) \in Setups
    BY <1>3, <2>1, BeginIsSetup
  <2>3. SettingUp'
    BY <1>9, <2>2 DEF DaemonStarts, SettingUp
  <2> QED BY <1>9, <2>3 DEF DaemonStarts, boxes, scans, hubs, Cabling, Powered, Addressed, Sighting, Cached, Written
<1>10. ASSUME NEW n \in Node, ScansPorts(n) PROVE Sound'
  <2>1. OneCableEach(plugged)
    BY DEF Cabling
  <2>2. Sighted(n, Sees(n, plugged)) /\ Sees(n, plugged) \subseteq Port \X Port
    BY <2>1, CablesSighted
  <2>3. Sighting'
    BY <1>10, <2>2 DEF ScansPorts, Sighting
  <2> QED BY <1>10, <2>3 DEF ScansPorts, boxes, hubs, Cabling, Powered, Addressed, SettingUp, Cached, Written
<1> QED BY <1>4, <1>6, <1>7, <1>8, <1>9, <1>10


LEMMA SetupSteps ==
  ASSUME Sound, NEW n \in Node
  PROVE  /\ Discovers(n) \/ Applies(n) \/ FallbackGives(n) => Sound'
         /\ WritesAuto(n) \/ SetupIsAsked(n) \/ Checks(n) => Sound'
<1> USE DEF Sound
<1>1. plugged \subseteq Cable /\ \A m \in Node : Sighted(m, seen[m])
  BY DEF Cabling, OneCableEach, Sighting
<1>2. setup[n] \in Setups /\ setup \in [Node -> Setups]
  BY DEF SettingUp
<1>3. /\ setup[n].hosts \in Seq(Node) /\ setup[n].tries \in 0 .. MaxAttempts /\ setup[n].best \in Seq(Link)
      /\ setup[n].todo \in Seq(Entry) /\ Listing(setup[n].best)
      /\ setup[n].at = "scan" => setup[n].tries < MaxAttempts
  BY <1>2 DEF Setups
<1>4. events < MaxEvents /\ events' = events + 1 => events' \in 0 .. MaxEvents
  BY FabricAssumption DEF Cabling
<1>5. ASSUME NEW e \in Entry, GivesHere(e) \/ GivesThere(e) PROVE addr' \in [Port -> 0 .. LinkLocal]
  <2>1. e.port \in Port /\ e.octet \in 0 .. LinkLocal
    BY DEF Entry
  <2> QED BY <1>5, <2>1 DEF GivesHere, GivesThere, Addressed
<1>6. ASSUME setup[n].todo # <<>> PROVE Head(setup[n].todo) \in Entry /\ Tail(setup[n].todo) \in Seq(Entry)
  BY <1>3, <1>6
<1>7. ASSUME Discovers(n) PROVE Sound'
  <2> DEFINE s(r) == Stable(setup[n], r.links)
  <2>1. PICK r \in Discoveries(n, setup[n].hosts) :
          /\ setup' = [setup EXCEPT ![n] =
                IF ~Done(s(r)) THEN s(r)
                ELSE IF s(r).best = <<>> THEN FallsBack(s(r), n)
                ELSE [s(r) EXCEPT !.at = "apply", !.todo = Assignment(s(r).best)]]
          /\ whole' \in BOOLEAN
    BY <1>7 DEF Discovers
  <2>2. Reported(r)
    BY <1>1, <1>3, DiscoveriesReport DEF Sighting
  <2>3. Listing(r.links) /\ r.links \in Seq(Link)
    BY <2>2, ListingIs DEF Reported
  <2>4. setup[n].at = "scan"
    BY <1>7 DEF Discovers
  <2> DEFINE t == s(r)
  <2>5. /\ t.at = "scan" /\ t.tries = setup[n].tries + 1 /\ t.best \in {r.links, setup[n].best}
        /\ t.again \in BOOLEAN
        /\ t \in [at : {"idle", "scan", "apply", "fallback", "file"}, hosts : Seq(Node), tries : 0 .. MaxAttempts,
                  best : Seq(Link), again : BOOLEAN, todo : Seq(Entry), given : BOOLEAN]
    <3>1. MaxAttempts \in Nat
      BY FabricAssumption
    <3> DEFINE more == Len(r.links) > Len(setup[n].best)
               same == Len(r.links) = Len(setup[n].best) /\ r.links # <<>>
               found == IF more THEN r.links ELSE setup[n].best
               twice == IF more THEN FALSE ELSE same \/ setup[n].again
    <3>2. t = [setup[n] EXCEPT !.tries = setup[n].tries + 1, !.best = found, !.again = twice]
      BY DEF Stable
    <3>3. found \in {r.links, setup[n].best} /\ found \in Seq(Link)
      BY <1>3, <2>3
    <3>4. twice \in BOOLEAN
      <4>1. setup[n].again \in BOOLEAN
        BY <1>2 DEF Setups
      <4> QED BY <4>1
    <3>5. setup[n].tries + 1 \in 0 .. MaxAttempts
      BY <1>3, <2>4, <3>1
    <3> HIDE DEF found, twice, s
    <3> QED BY <1>2, <2>4, <3>2, <3>3, <3>4, <3>5 DEF Setups
  <2>6. Listing(t.best)
    BY <1>3, <2>3, <2>5
  <2> HIDE DEF s
  <2>7. setup' \in [Node -> Setups]
    <3>1. CASE ~ Done(t)
      <4>1. t.tries # MaxAttempts
        BY <3>1 DEF Done
      <4>2. t \in Setups
        BY <1>3, <2>4, <2>5, <2>6, <4>1, FabricAssumption DEF Setups
      <4> QED BY <1>2, <2>1, <3>1, <4>2
    <3>2. CASE Done(t) /\ t.best = <<>>
      <4>1. [t EXCEPT !.at = "fallback", !.todo = Fallback(n), !.given = Fallback(n) # <<>>] \in Setups
        BY <1>1, <2>5, <2>6, FallbackGivesOut DEF Setups
      <4> QED BY <1>2, <2>1, <3>2, <4>1 DEF FallsBack
    <3>3. CASE Done(t) /\ t.best # <<>>
      <4>1. Assignment(t.best) \in Seq(Entry)
        BY <2>6, AssignmentGives
      <4>2. [t EXCEPT !.at = "apply", !.todo = Assignment(t.best)] \in Setups
        BY <2>5, <2>6, <4>1 DEF Setups
      <4> QED BY <1>2, <2>1, <3>3, <4>2
    <3> QED BY <3>1, <3>2, <3>3
  <2>8. SettingUp' /\ Cabling'
    BY <1>7, <2>1, <2>7 DEF Discovers, SettingUp, Cabling
  <2> QED BY <1>7, <2>8 DEF Discovers, boxes, scans, hubs, Powered, Addressed, Sighting, Cached, Written
<1>8. ASSUME Applies(n) PROVE Sound'
  <2>1. Head(setup[n].todo) \in Entry /\ Tail(setup[n].todo) \in Seq(Entry)
    BY <1>6, <1>8 DEF Applies
  <2>2. addr' \in [Port -> 0 .. LinkLocal]
    BY <1>5, <1>8, <2>1 DEF Applies
  <2>3. /\ [setup[n] EXCEPT !.todo = Tail(@)] \in Setups
        /\ [setup[n] EXCEPT !.at = "file", !.todo = <<>>, !.given = TRUE] \in Setups
        /\ FallsBack(setup[n], n) \in Setups
    <3>1. [setup[n] EXCEPT !.todo = Tail(@)] \in Setups
      BY <1>2, <2>1 DEF Setups
    <3>2. [setup[n] EXCEPT !.at = "file", !.todo = <<>>, !.given = TRUE] \in Setups
      <4>1. <<>> \in Seq(Entry)
        OBVIOUS
      <4> DEFINE nothing == <<>>
      <4> HIDE DEF nothing
      <4>2. nothing \in Seq(Entry) => [setup[n] EXCEPT !.at = "file", !.todo = nothing, !.given = TRUE] \in Setups
        BY <1>2 DEF Setups
      <4> QED BY <4>1, <4>2 DEF nothing
    <3>3. FallsBack(setup[n], n) \in Setups
      BY <1>1, <1>2, FallsBackIsSetup
    <3> QED BY <3>1, <3>2, <3>3
  <2>4. setup' \in [Node -> Setups]
    BY <1>2, <1>8, <2>3 DEF Applies
  <2>5. Addressed' /\ SettingUp'
    BY <1>8, <2>2, <2>4 DEF Applies, Addressed, SettingUp
  <2> QED BY <1>8, <2>5 DEF Applies, scans, hubs, Cabling, Powered, Sighting, Cached, Written
<1>9. ASSUME FallbackGives(n) PROVE Sound'
  <2>1. CASE setup[n].todo = <<>>
    <3>1. setup' = [setup EXCEPT ![n].at = "file"] /\ addr' = addr
      BY <1>9, <2>1 DEF FallbackGives
    <3>2. [setup[n] EXCEPT !.at = "file"] \in Setups
      BY <1>2 DEF Setups
    <3>3. SettingUp' /\ Addressed'
      BY <1>2, <1>9, <3>1, <3>2 DEF FallbackGives, SettingUp, Addressed
    <3> QED BY <1>9, <3>3 DEF FallbackGives, scans, hubs, Cabling, Powered, Sighting, Cached, Written
  <2>2. CASE setup[n].todo # <<>>
    <3>1. setup' = [setup EXCEPT ![n].todo = Tail(@)] /\ GivesHere(Head(setup[n].todo)) /\ setup[n].at = "fallback"
      BY <1>9, <2>2 DEF FallbackGives
    <3>2. Head(setup[n].todo) \in Entry /\ Tail(setup[n].todo) \in Seq(Entry)
      BY <1>6, <2>2
    <3>3. [setup[n] EXCEPT !.todo = Tail(@)] \in Setups
      BY <1>2, <3>2 DEF Setups
    <3>4. addr' \in [Port -> 0 .. LinkLocal]
      BY <1>5, <3>1, <3>2
    <3>5. SettingUp' /\ Addressed'
      BY <1>2, <1>9, <3>1, <3>3, <3>4 DEF FallbackGives, SettingUp, Addressed
    <3> QED BY <1>9, <3>5 DEF FallbackGives, scans, hubs, Cabling, Powered, Sighting, Cached, Written
  <2> QED BY <2>1, <2>2
<1>10. ASSUME WritesAuto(n) PROVE Sound'
  <2>1. auto[n] \subseteq Node /\ Probed(n) \subseteq Node /\ Elements(setup[n].hosts) \subseteq Node
    <3>1. auto[n] \subseteq Node /\ ips[n] \subseteq Node \X (1 .. LinkLocal)
      BY DEF SettingUp, Addressed
    <3>2. Elements(setup[n].hosts) \subseteq Node
      BY <1>3, ElementOfSeq DEF Elements
    <3> QED BY <3>1, <3>2 DEF Probed
  <2>2. \A hosts \in ToolWrites(n, setup[n].hosts) : hosts \subseteq Node
    BY <2>1 DEF ToolWrites
  <2>3. \A found \in {Probed(n), {}} : AutoFile(n, found) \subseteq Node
    BY <2>1 DEF AutoFile
  <2>4. PICK hosts \in SUBSET Node : auto' = [auto EXCEPT ![n] = hosts]
    <3>1. PICK hosts \in {auto[n]} \cup ToolWrites(n, setup[n].hosts)
                           \cup {AutoFile(n, IF setup[n].given THEN Probed(n) ELSE {})} :
            auto' = [auto EXCEPT ![n] = hosts]
      BY <1>10 DEF WritesAuto
    <3>2. (IF setup[n].given THEN Probed(n) ELSE {}) \in {Probed(n), {}}
      OBVIOUS
    <3>3. hosts \subseteq Node
      BY <2>1, <2>2, <2>3, <3>1, <3>2
    <3> QED BY <3>1, <3>3
  <2>5. [Idle EXCEPT !.best = setup[n].best] \in Setups
    BY <1>3, IdleIsSetup DEF Setups, Idle
  <2>6. SettingUp'
    BY <1>10, <2>4, <2>5 DEF WritesAuto, SettingUp
  <2> QED BY <1>10, <2>6 DEF WritesAuto, boxes, scans, hubs, Cabling, Powered, Addressed, Sighting, Cached, Written
<1>11. ASSUME SetupIsAsked(n) PROVE Sound'
  <2>1. Listed[n] \in Seq(Node) /\ Asked \subseteq Seq(Node)
    BY FabricAssumption
  <2>2. \A hosts \in Seq(Node) : Begin(n, hosts) \in Setups
    BY <1>1, BeginIsSetup
  <2>3. SettingUp' /\ Cabling'
    BY <1>4, <1>11, <2>1, <2>2 DEF SetupIsAsked, Happens, SettingUp, Cabling
  <2> QED BY <1>11, <2>3 DEF SetupIsAsked, boxes, scans, hubs, Powered, Addressed, Sighting, Cached, Written
<1>12. ASSUME Checks(n) PROVE Sound'
  <2>1. PICK arp \in SUBSET Neighbours(n) :
          ips' = [ips EXCEPT ![n] = @ \cup {<<n, a>> : a \in {b \in Candidates(n, arp) : Reaches(n, b)}}]
    BY <1>12 DEF Checks
  <2>2. \A a : Reaches(n, a) => a \in 1 .. LinkLocal
    <3> SUFFICES ASSUME NEW a, Reaches(n, a) PROVE a \in 1 .. LinkLocal
      OBVIOUS
    <3>1. PICK c \in plugged : \E p \in {c[1], c[2]} : \E q \in {c[1], c[2]} \ {p} : addr[q] = a /\ a # NoAddress
      BY DEF Reaches
    <3>2. PICK q \in {c[1], c[2]} : addr[q] = a /\ a # NoAddress
      BY <3>1
    <3>3. q \in Port
      BY <1>1, <3>2, Ports
    <3> QED BY <3>2, <3>3, Ports DEF Addressed, NoAddress, LinkLocal
  <2>3. {<<n, a>> : a \in {b \in Candidates(n, arp) : Reaches(n, b)}} \subseteq Node \X (1 .. LinkLocal)
    BY <2>2
  <2>4. Addressed' /\ Cabling'
    BY <1>4, <1>12, <2>1, <2>3 DEF Checks, Happens, boxes, Addressed, Cabling
  <2> QED BY <1>12, <2>4 DEF Checks, boxes, scans, hubs, Powered, Sighting, SettingUp, Cached, Written
<1> QED BY <1>7, <1>8, <1>9, <1>10, <1>11, <1>12

LEMMA HubSteps ==
  ASSUME Sound
  PROVE  ScansTopology \/ SyncIsAsked \/ SyncClears \/ SyncWrites \/ HostfileIsAsked => Sound'
<1> USE DEF Sound
<1>1. plugged \subseteq Cable /\ \A m \in Node : Sighted(m, seen[m])
  BY DEF Cabling, OneCableEach, Sighting
<1>2. Hub \in Node /\ Listed[Hub] \in Seq(Node)
  BY FabricAssumption
<1>3. events < MaxEvents /\ events' = events + 1 => events' \in 0 .. MaxEvents
  BY FabricAssumption DEF Cabling
<1>4. ASSUME ScansTopology PROVE Sound'
  <2>1. PICK r \in Discoveries(Hub, Listed[Hub]) :
          cache' = r /\ sync' = IF hash \notin {None, Elements(r.links)} THEN "asked" ELSE sync
    BY <1>4 DEF ScansTopology
  <2>2. Reported(r)
    BY <1>1, <1>2, DiscoveriesReport DEF Sighting
  <2>3. Cached'
    BY <2>1, <2>2 DEF Cached
  <2> QED BY <1>4, <2>3 DEF ScansTopology, boxes, scans, Cabling, Powered, Addressed, Sighting, SettingUp, Written
<1>5. ASSUME SyncIsAsked PROVE Sound'
  <2>1. Cabling' /\ Cached'
    BY <1>3, <1>5 DEF SyncIsAsked, Happens, Cabling, Cached
  <2> QED BY <1>5, <2>1 DEF SyncIsAsked, boxes, scans, Powered, Addressed, Sighting, SettingUp, Written
<1>6. ASSUME SyncClears PROVE Sound'
  <2>1. Sighting' /\ Cached'
    BY <1>2, <1>6 DEF SyncClears, Sighting, Sighted, Cached
  <2> QED BY <1>6, <2>1 DEF SyncClears, boxes, Cabling, Powered, Addressed, SettingUp, Written
<1>7. Generated # None => IsFile(Generated) /\ (Generated.live => PairsUp(Generated))
  <2>1. CASE cache # None /\ cache.links # <<>>
    <3>1. Generated = OfReport(cache) /\ Reported(cache)
      BY <2>1 DEF Generated, Cached
    <3> QED BY <3>1, OfReportPairs
  <2>2. CASE ~ (cache # None /\ cache.links # <<>>)
    <3>1. Generated = OfNodeMap(Elements(Listed[Hub]), Hub, OldLinks)
      BY <2>2 DEF Generated
    <3>2. Elements(Listed[Hub]) \subseteq Node
      BY <1>2, ElementOfSeq DEF Elements
    <3> QED BY <3>1, <3>2, OfNodeMapIsFile
  <2> QED BY <2>1, <2>2
<1>8. Writes => Written'
  <2>1. SUFFICES ASSUME Writes, hostfile' # hostfile PROVE Written'
    BY DEF Written
  <2>2. hostfile' = [hostfile EXCEPT ![Cardinality(HostsOf(Generated))] = Generated]
    BY <2>1 DEF Writes
  <2> QED BY <1>7, <2>2 DEF Written
<1>9. ASSUME SyncWrites \/ HostfileIsAsked PROVE Sound'
  <2>1. Written'
    BY <1>8, <1>9 DEF SyncWrites, HostfileIsAsked
  <2>2. Cabling' /\ Cached'
    BY <1>3, <1>9 DEF SyncWrites, HostfileIsAsked, Happens, Cabling, Cached
  <2> QED BY <1>9, <2>1, <2>2 DEF SyncWrites, HostfileIsAsked, boxes, scans, Powered, Addressed, Sighting, SettingUp
<1> QED BY <1>4, <1>5, <1>6, <1>9

(* The inductive invariant: each variable holds what the code can store in *)
(* it, and every list of links that is kept anywhere has ends that a cable *)
(* joined.                                                                 *)
THEOREM FabricSound == Spec => []Sound
<1>1. Init => Sound
  BY InitSound
<1>2. Sound /\ [Next]_vars => Sound'
  <2>1. ASSUME Sound, UNCHANGED vars PROVE Sound'
    BY <2>1 DEF vars, boxes, scans, hubs, Sound, Cabling, Powered, Addressed, Sighting, SettingUp, Cached, Written
  <2>2. ASSUME Sound, Next PROVE Sound'
    BY <2>2, MachineSteps, SetupSteps, HubSteps DEF Next
  <2> QED BY <2>1, <2>2
<1> QED BY <1>1, <1>2, PTL DEF Spec

(* TypeOK, for any machines, ports and cables: every variable holds what   *)
(* the code can store in it.                                               *)
THEOREM FabricTypeOK == Spec => []TypeOK
<1>1. Sound => TypeOK
  <2> SUFFICES ASSUME Sound PROVE TypeOK
    OBVIOUS
  <2> USE DEF Sound
  <2>1. plugged \subseteq Cable /\ events \in 0 .. MaxEvents /\ whole \in BOOLEAN
    BY DEF Cabling, OneCableEach
  <2>2. serving \subseteq on /\ on \subseteq Node /\ scanned \subseteq Node /\ addr \in [Port -> 0 .. LinkLocal]
    BY DEF Powered, Addressed
  <2>3. ASSUME NEW n \in Node
        PROVE  /\ seen[n] \subseteq PortsOf(n) \X Port /\ auto[n] \subseteq Node
               /\ setup[n].at \in {"idle", "scan", "apply", "fallback", "file"}
               /\ setup[n].tries \in 0 .. MaxAttempts
               /\ setup[n].best \in Seq(Link) /\ setup[n].again \in BOOLEAN /\ setup[n].given \in BOOLEAN
               /\ \A i \in DOMAIN setup[n].todo : setup[n].todo[i].port \in Port
               /\ \A x \in ips[n] : x \in Node \X (1 .. LinkLocal)
    <3>1. Sighted(n, seen[n]) /\ auto[n] \subseteq Node /\ setup[n] \in Setups /\ ips[n] \subseteq Node \X (1 .. LinkLocal)
      BY DEF Sighting, SettingUp, Addressed
    <3>2. \A i \in DOMAIN setup[n].todo : setup[n].todo[i].port \in Port
      <4>1. setup[n].todo \in Seq(Entry)
        BY <3>1 DEF Setups
      <4> SUFFICES ASSUME NEW i \in DOMAIN setup[n].todo PROVE setup[n].todo[i].port \in Port
        OBVIOUS
      <4>2. setup[n].todo[i] \in Entry
        BY <4>1, ElementOfSeq
      <4> QED BY <4>2 DEF Entry
    <3>3. setup[n].best \in Seq(Link) /\ setup[n].again \in BOOLEAN /\ setup[n].given \in BOOLEAN
          /\ setup[n].tries \in 0 .. MaxAttempts /\ setup[n].at \in {"idle", "scan", "apply", "fallback", "file"}
      BY <3>1 DEF Setups
    <3> QED BY <3>1, <3>2, <3>3 DEF Sighted
  <2>4. cache = None \/ (cache.nodes \in Seq(Node) /\ cache.links \in Seq(Link) /\ cache.ready \in BOOLEAN)
    <3>1. CASE Reported(cache)
      BY <3>1, ListingIs DEF Reported
    <3> QED BY <3>1 DEF Cached
  <2>5. sync \in {"none", "asked", "cleared"} /\ \A n \in DOMAIN hostfile : hostfile[n] = None \/ IsFile(hostfile[n])
    BY DEF Cached, Written
  <2> QED BY <2>1, <2>2, <2>3, <2>4, <2>5 DEF TypeOK
<1> QED BY <1>1, FabricSound, PTL

(* HostfilePairsUp, for any machines, ports and cables, in any order of    *)
(* scans, setups, stops and requests: in a hostfile made of the cached     *)
(* topology, the devices that two hosts have for each other are the ends   *)
(* of one cable, and none is left out when the report says that the mesh   *)
(* is complete.                                                            *)
THEOREM HostfilesPairUp == Spec => []HostfilePairsUp
<1>1. Sound => HostfilePairsUp
  <2> SUFFICES ASSUME Sound PROVE HostfilePairsUp
    OBVIOUS
  <2> USE DEF Sound
  <2>1. \A n \in DOMAIN hostfile : hostfile[n] # None /\ hostfile[n].live => PairsUp(hostfile[n])
    BY DEF Written
  <2>2. ASSUME Served # None, Served.live
        PROVE  /\ PairsUp(Served)
               /\ cache.missing = {} => \A x \in DOMAIN Served.rdma : x[1] # x[2] => Served.rdma[x] # None
               /\ cache.ready => \A i, j \in DOMAIN cache.links :
                     LET m == cache.links[i].p[1]
                         n == cache.links[j].q[1]
                     IN  {m, n} \subseteq HostsOf(Served) /\ m # n => Served.rdma[<<m, n>>] # None
    <3>1. cache # None /\ Reported(cache) /\ Served = OfReport(cache)
      <4>1. Listed[Hub] \in Seq(Node)
        BY FabricAssumption
      <4>2. OfNodeMap(Elements(Listed[Hub]), Hub, OldLinks).live = FALSE
        <5>1. Elements(Listed[Hub]) \subseteq Node
          BY <4>1, ElementOfSeq DEF Elements
        <5> QED BY <5>1, OfNodeMapIsFile
      <4> QED BY <2>2, <4>2 DEF Served, Generated, Cached
    <3> DEFINE H == Chosen(cache)
               L == cache.links
    <3>2. /\ Listing(L) /\ DOMAIN Served.rdma = H \X H /\ HostsOf(Served) = H /\ PairsUp(Served)
          /\ \A m, n \in H : Served.rdma[<<m, n>>] = Device(L, m, n)
          /\ H \subseteq Elements(cache.nodes)
      BY <3>1, OfReportPairs, ChosenAreNodes DEF Reported
    <3>3. ASSUME NEW m \in H, NEW n \in H, m # n, <<m, n>> \in Connected(L) \/ <<n, m>> \in Connected(L)
          PROVE  Served.rdma[<<m, n>>] # None
      <4>1. PICK i \in DOMAIN L : Joins(L[i]) \in {<<m, n>>, <<n, m>>}
        BY <3>3 DEF Connected
      <4>3. Listing(L) /\ Served.rdma[<<m, n>>] = Device(L, m, n)
        BY <3>2
      <4> HIDE DEF L
      <4>4. Device(L, m, n) = None =>
              m = n \/ \A k \in DOMAIN L : Joins(L[k]) # <<m, n>> /\ Joins(L[k]) # <<n, m>>
        BY <4>3, DevicePairs
      <4>5. Device(L, m, n) # None
        BY <3>3, <4>1, <4>4
      <4> QED BY <4>3, <4>5
    <3>4. ASSUME cache.missing = {}, NEW m \in H, NEW n \in H, m # n
          PROVE  <<m, n>> \in Connected(L) \/ <<n, m>> \in Connected(L)
      <4> DEFINE N == cache.nodes
      <4>1. Missing(N, L) = {} /\ N \in Seq(Node)
        BY <3>1, <3>4 DEF Reported
      <4>2. PICK i \in DOMAIN N : N[i] = m
        BY <3>2 DEF Elements
      <4>3. PICK j \in DOMAIN N : N[j] = n
        BY <3>2 DEF Elements
      <4>4. \A u, v \in DOMAIN N : u < v => <<N[u], N[v]>> \in Connected(L)
        <5> SUFFICES ASSUME NEW u \in DOMAIN N, NEW v \in DOMAIN N, u < v, <<N[u], N[v]>> \notin Connected(L)
                     PROVE  FALSE
          OBVIOUS
        <5> DEFINE gaps == {y \in (DOMAIN N) \X (DOMAIN N) : y[1] < y[2] /\ <<N[y[1]], N[y[2]]>> \notin Connected(L)}
        <5>2. <<u, v>> \in gaps
          OBVIOUS
        <5>3. Missing(N, L) = {<<N[x[1]], N[x[2]]>> : x \in gaps}
          BY DEF Missing
        <5> HIDE DEF gaps
        <5>1. <<N[u], N[v]>> \in Missing(N, L)
          BY <5>2, <5>3
        <5> QED BY <4>1, <5>1
      <4>5. i < j \/ j < i
        BY <3>4, <4>1, <4>2, <4>3, LenProperties
      <4> QED BY <4>2, <4>3, <4>4, <4>5
    <3>5. ASSUME cache.ready, NEW i \in DOMAIN L, NEW j \in DOMAIN L, L[i].p[1] # L[j].q[1]
          PROVE  <<L[i].p[1], L[j].q[1]>> \in Connected(L) \/ <<L[j].q[1], L[i].p[1]>> \in Connected(L)
      <4> DEFINE ends == UNION {{L[k].p[1], L[k].q[1]} : k \in DOMAIN L}
      <4>1. FullMesh(ends, L)
        BY <3>1, <3>5 DEF Reported, JacclReady
      <4>2. L[i].p[1] \in ends /\ L[j].q[1] \in ends
        OBVIOUS
      <4>3. L[i].p[1] \in Nat /\ L[j].q[1] \in Nat
        <5>1. L \in Seq(Link)
          BY <3>2, ListingIs
        <5>2. L[i] \in Link /\ L[j] \in Link
          BY <5>1, ElementOfSeq
        <5> QED BY <5>2, Ports DEF Link
      <4> HIDE DEF ends, L
      <4> QED BY <3>5, <4>1, <4>2, <4>3 DEF FullMesh
    <3>6. cache.missing = {} => \A x \in DOMAIN Served.rdma : x[1] # x[2] => Served.rdma[x] # None
      <4> SUFFICES ASSUME cache.missing = {}, NEW m \in H, NEW n \in H, m # n PROVE Served.rdma[<<m, n>>] # None
        BY <3>2
      <4> QED BY <3>3, <3>4
    <3>7. cache.ready => \A i, j \in DOMAIN L :
             {L[i].p[1], L[j].q[1]} \subseteq HostsOf(Served) /\ L[i].p[1] # L[j].q[1]
               => Served.rdma[<<L[i].p[1], L[j].q[1]>>] # None
      <4> SUFFICES ASSUME cache.ready, NEW i \in DOMAIN L, NEW j \in DOMAIN L,
                          {L[i].p[1], L[j].q[1]} \subseteq HostsOf(Served), L[i].p[1] # L[j].q[1]
                   PROVE  Served.rdma[<<L[i].p[1], L[j].q[1]>>] # None
        OBVIOUS
      <4>1. L[i].p[1] \in H /\ L[j].q[1] \in H
        BY <3>2
      <4>2. <<L[i].p[1], L[j].q[1]>> \in Connected(L) \/ <<L[j].q[1], L[i].p[1]>> \in Connected(L)
        BY <3>5
      <4> QED BY <3>3, <4>1, <4>2
    <3> QED BY <3>2, <3>6, <3>7
  <2> QED BY <2>1, <2>2 DEF HostfilePairsUp
<1> QED BY <1>1, FabricSound, PTL


-----------------------------------------------------------------------------
(* The addresses, as long as nobody moves a cable and the first machine    *)
(* sees all of them.                                                       *)

EndPorts == UNION {{c[1], c[2]} : c \in Plugged}

(* Which port of which link an entry is about.                             *)
LEMMA AssignmentIs ==
  ASSUME NEW links, Listing(links)
  PROVE  /\ \A k \in DOMAIN Assignment(links) : \E i \in DOMAIN links, p \in Port :
              /\ p = links[i].p \/ p = links[i].q
              /\ Assignment(links)[k] = [port |-> p, octet |-> Octet(links, i, p), raw |-> links[i].raw]
         /\ \A i \in DOMAIN links : \A p \in {links[i].p, links[i].q} :
              \E k \in DOMAIN Assignment(links) : Assignment(links)[k].port = p
<1> DEFINE sorted == [k \in DOMAIN links |-> CHOOSE i \in DOMAIN links : Place(links, i) = k - 1]
           at(k) == sorted[(k + 1) \div 2]
           end(k) == IF k % 2 = 1 THEN links[at(k)].p ELSE links[at(k)].q
<1>1. Len(links) \in Nat /\ DOMAIN links = 1 .. Len(links) /\ links \in Seq(Link)
  BY ListingIs
<1>2. ASSUME NEW k \in DOMAIN links
      PROVE  sorted[k] \in DOMAIN links /\ Place(links, sorted[k]) = k - 1
  <2>1. k - 1 \in 0 .. Len(links) - 1
    BY <1>1
  <2>2. \E i \in DOMAIN links : Place(links, i) = k - 1
    BY <2>1, Places
  <2>3. sorted[k] = CHOOSE i \in DOMAIN links : Place(links, i) = k - 1
    OBVIOUS
  <2> QED BY <2>2, <2>3
<1>3. Assignment(links) =
        [k \in 1 .. (2 * Len(links)) |->
            [port |-> end(k), octet |-> Octet(links, at(k), end(k)), raw |-> links[at(k)].raw]]
  BY DEF Assignment
<1> HIDE DEF sorted
<1>4. DOMAIN Assignment(links) = 1 .. (2 * Len(links))
  BY <1>3
<1>5. ASSUME NEW k \in DOMAIN Assignment(links)
      PROVE  \E i \in DOMAIN links, p \in Port :
              /\ p = links[i].p \/ p = links[i].q
              /\ Assignment(links)[k] = [port |-> p, octet |-> Octet(links, i, p), raw |-> links[i].raw]
  <2>1. (k + 1) \div 2 \in DOMAIN links
    BY <1>1, <1>4
  <2>2. at(k) \in DOMAIN links
    BY <1>2, <2>1
  <2>3. links[at(k)] \in Link
    BY <1>1, <2>2, ElementOfSeq
  <2>4. end(k) \in Port /\ (end(k) = links[at(k)].p \/ end(k) = links[at(k)].q)
    BY <2>3 DEF Link
  <2>5. Assignment(links)[k] = [port |-> end(k), octet |-> Octet(links, at(k), end(k)), raw |-> links[at(k)].raw]
    BY <1>3, <1>4
  <2> HIDE DEF at, end
  <2> QED BY <2>2, <2>4, <2>5
<1>6. ASSUME NEW i \in DOMAIN links
      PROVE  /\ \E k \in DOMAIN Assignment(links) : Assignment(links)[k].port = links[i].p
             /\ \E k \in DOMAIN Assignment(links) : Assignment(links)[k].port = links[i].q
  <2> DEFINE h == Place(links, i)
  <2>1. h \in 0 .. Len(links) - 1
    BY Places
  <2>2. h + 1 \in DOMAIN links
    BY <1>1, <2>1
  <2>3. sorted[h + 1] = i
    <3>1. Place(links, sorted[h + 1]) = h /\ sorted[h + 1] \in DOMAIN links
      BY <1>1, <1>2, <2>1, <2>2
    <3> QED BY <3>1, Places
  <2> HIDE DEF h
  <2>4. 2 * h + 1 \in DOMAIN Assignment(links) /\ 2 * h + 2 \in DOMAIN Assignment(links)
    BY <1>1, <1>4, <2>1
  <2>5. /\ (2 * h + 1 + 1) \div 2 = h + 1 /\ (2 * h + 2 + 1) \div 2 = h + 1
        /\ (2 * h + 1) % 2 = 1 /\ (2 * h + 2) % 2 = 0
    BY <1>1, <2>1
  <2>6. Assignment(links)[2 * h + 1].port = links[i].p
    BY <1>3, <1>4, <2>3, <2>4, <2>5
  <2>7. Assignment(links)[2 * h + 2].port = links[i].q
    BY <1>3, <1>4, <2>3, <2>4, <2>5
  <2> QED BY <2>4, <2>6, <2>7
<1> QED BY <1>5, <1>6

(* A list of all the cables gives the ports what static_ips says, in       *)
(* whatever order they were found.                                         *)
LEMMA AllGiven ==
  ASSUME WellKept, NEW links, Listing(links), Within(links, Plugged), Len(links) = Cardinality(Plugged)
  PROVE  /\ \A k \in DOMAIN Assignment(links) :
               /\ Assignment(links)[k].port \in EndPorts
               /\ Assignment(links)[k].octet = Static[Assignment(links)[k].port]
               /\ \E i \in DOMAIN links : Assignment(links)[k].raw = links[i].raw
         /\ \A p \in EndPorts : \E k \in DOMAIN Assignment(links) : Assignment(links)[k].port = p
         /\ \A p \in EndPorts : \E i \in DOMAIN links : p \in {links[i].p, links[i].q}
<1> DEFINE cable == [i \in DOMAIN links |-> <<links[i].p, links[i].q>>]
           D == DOMAIN links
<1>1. Len(links) \in Nat /\ D = 1 .. Len(links) /\ links \in Seq(Link)
  BY ListingIs
<1>2. cable \in [D -> Plugged]
  BY DEF Within
<1>3. \A i, j \in D : cable[i] = cable[j] => i = j
  <2>1. PICK b \in BOOLEAN : links \in Seq(Links(b)) /\ \A i, j \in D : links[i] = links[j] => i = j
    BY DEF Listing
  <2>2. \A i \in D : links[i] \in Links(b)
    BY <2>1, ElementOfSeq
  <2> SUFFICES ASSUME NEW i \in D, NEW j \in D, cable[i] = cable[j] PROVE i = j
    OBVIOUS
  <2>3. {links[i], links[j]} \subseteq Links(b)
    BY <2>2
  <2>4. links[i] = links[j]
    <3>1. <<links[i].p, links[i].q>> = <<links[j].p, links[j].q>>
      OBVIOUS
    <3> HIDE DEF cable, D
    <3> QED BY <2>3, <3>1, LinksAreFew
  <2> QED BY <2>1, <2>4
<1>4. IsFiniteSet(D) /\ Cardinality(D) = Len(links)
  <2>1. \A n \in Nat : IsFiniteSet(1 .. n) /\ Cardinality(1 .. n) = n
    <3> SUFFICES ASSUME NEW n \in Nat PROVE IsFiniteSet(1 .. n) /\ Cardinality(1 .. n) = n
      OBVIOUS
    <3>1. IsFiniteSet(1 .. n) /\ Cardinality(1 .. n) = IF 1 > n THEN 0 ELSE n - 1 + 1
      BY FS_Interval
    <3> QED BY <3>1
  <2> QED BY <1>1, <2>1
<1>5. IsFiniteSet(Plugged) /\ Plugged \subseteq Cable
  <2>1. Plugged \in SUBSET Cable
    BY FabricAssumption DEF OneCableEach
  <2> QED BY <2>1, Ports, FS_Subset
<1> HIDE DEF D, cable
<1>6. cable \in Injection(D, Plugged)
  BY <1>2, <1>3, Fun_IsInj
<1>7. cable \in Surjection(D, Plugged)
  BY <1>4, <1>5, <1>6, FS_Injection
<1>8. \A c \in Plugged : \E i \in D : cable[i] = c
  BY <1>7 DEF Surjection
<1>9. \A i \in D : cable[i] = <<links[i].p, links[i].q>> /\ KeyOf(cable[i]) = Key(links[i])
  BY DEF cable, D, KeyOf, Key
<1>10. ASSUME NEW i \in D PROVE Place(links, i) = Turn(cable[i])
  <2> DEFINE A == {j \in D : Before(Key(links[j]), Key(links[i]))}
             B == {d \in Plugged : Before(KeyOf(d), KeyOf(cable[i]))}
             f == [j \in A |-> cable[j]]
  <2>1. \A j \in D : Key(links[j]) = Key(links[i]) => j = i
    BY <1>2, <1>3, <1>9 DEF WellKept
  <2>2. Place(links, i) = Cardinality(A)
    <3>1. \A j \in D : (\/ Before(Key(links[j]), Key(links[i]))
                        \/ Key(links[j]) = Key(links[i]) /\ j < i) <=> Before(Key(links[j]), Key(links[i]))
      BY <1>1, <2>1
    <3>2. {j \in D : \/ Before(Key(links[j]), Key(links[i]))
                     \/ Key(links[j]) = Key(links[i]) /\ j < i} = A
      BY <3>1
    <3> QED BY <3>2 DEF Place, D
  <2>3. f \in [A -> B]
    BY <1>2, <1>9
  <2>4. \A j, k \in A : f[j] = f[k] => j = k
    BY <1>3
  <2>5. \A d \in B : \E j \in A : f[j] = d
    BY <1>8, <1>9
  <2>6. IsFiniteSet(A)
    <3>1. A \in SUBSET D
      OBVIOUS
    <3> QED BY <1>4, <3>1, FS_Subset
  <2> HIDE DEF A, B, f
  <2>7. f \in Injection(A, B)
    BY <2>3, <2>4, Fun_IsInj
  <2>8. f \in Surjection(A, B)
    BY <2>3, <2>5, Zenon DEF Surjection
  <2>9. f \in Bijection(A, B)
    BY <2>7, <2>8 DEF Bijection
  <2>10. Cardinality(A) = Cardinality(B)
    BY <2>6, <2>9, FS_Bijection DEF ExistsBijection
  <2> QED BY <2>2, <2>10 DEF Turn, B
<1>11. ASSUME NEW i \in D
       PROVE  /\ links[i].p \in EndPorts /\ links[i].q \in EndPorts
              /\ Octet(links, i, links[i].p) = Static[links[i].p]
              /\ Octet(links, i, links[i].q) = Static[links[i].q]
  <2>1. cable[i] \in Plugged /\ cable[i] = <<links[i].p, links[i].q>>
    BY <1>2, <1>9
  <2>2. links[i].p # links[i].q
    <3>1. cable[i] \in Cable
      BY <1>5, <2>1
    <3>2. links[i].p[1] < links[i].q[1] /\ links[i].p \in Port
      BY <2>1, <3>1, Ports
    <3>3. links[i].p[1] \in Nat
      BY <3>2, Ports
    <3> QED BY <3>2, <3>3
  <2>3. Static[links[i].p] = 4 * Turn(cable[i]) + 1 /\ Static[links[i].q] = 4 * Turn(cable[i]) + 2
    <3>1. \A c \in Plugged : Static[c[1]] = 4 * Turn(c) + 1 /\ Static[c[2]] = 4 * Turn(c) + 2
      BY DEF WellKept
    <3>2. cable[i][1] = links[i].p /\ cable[i][2] = links[i].q
      BY <2>1
    <3> QED BY <2>1, <3>1, <3>2
  <2>4. links[i].p \in EndPorts /\ links[i].q \in EndPorts
    BY <2>1 DEF EndPorts
  <2>5. Octet(links, i, links[i].p) = 4 * Turn(cable[i]) + 1 /\ Octet(links, i, links[i].q) = 4 * Turn(cable[i]) + 2
    BY <1>10, <2>2 DEF Octet
  <2> QED BY <2>3, <2>4, <2>5
<1>12. ASSUME NEW k \in DOMAIN Assignment(links)
       PROVE  /\ Assignment(links)[k].port \in EndPorts
              /\ Assignment(links)[k].octet = Static[Assignment(links)[k].port]
              /\ \E i \in DOMAIN links : Assignment(links)[k].raw = links[i].raw
  <2>1. PICK i \in D, p \in Port :
              /\ p = links[i].p \/ p = links[i].q
              /\ Assignment(links)[k] = [port |-> p, octet |-> Octet(links, i, p), raw |-> links[i].raw]
    BY AssignmentIs DEF D
  <2> QED BY <1>11, <2>1 DEF D
<1>13. ASSUME NEW p \in EndPorts PROVE \E i \in D : p \in {links[i].p, links[i].q}
  <2>1. PICK c \in Plugged : p \in {c[1], c[2]}
    BY DEF EndPorts
  <2>2. PICK i \in D : cable[i] = c
    BY <1>8
  <2> QED BY <1>9, <2>1, <2>2
<1>14. \A p \in EndPorts : \E k \in DOMAIN Assignment(links) : Assignment(links)[k].port = p
  BY <1>13, AssignmentIs DEF D
<1> QED BY <1>12, <1>13, <1>14 DEF D


(* So does the fallback, for the ports of one machine.                     *)
LEMMA FallbackGiven ==
  ASSUME WellKept, plugged = Plugged, NEW n \in Node
  PROVE  /\ \A k \in DOMAIN Fallback(n) :
               /\ Fallback(n)[k].port \in EndPorts => Fallback(n)[k].octet = Static[Fallback(n)[k].port]
               /\ ~ Fallback(n)[k].raw
         /\ \A p \in EndPorts \cap PortsOf(n) : \E k \in DOMAIN Fallback(n) : Fallback(n)[k].port = p
<1> DEFINE E == IF StaticEntries(n) # {} THEN StaticEntries(n) ELSE LinkLocalEntries(n)
           S(p) == [port |-> p, octet |-> Static[p], raw |-> FALSE]
<1>1. Elements(Fallback(n)) = E
  <2>1. plugged \subseteq Cable
    BY FabricAssumption DEF OneCableEach
  <2> QED BY <2>1, FallbackGivesOut
<1>2. \A p \in EndPorts : p \in Port /\ Static[p] # NoAddress /\ p[1] \in Node
  <2> SUFFICES ASSUME NEW p \in EndPorts PROVE p \in Port /\ Static[p] # NoAddress /\ p[1] \in Node
    OBVIOUS
  <2>1. PICK c \in Plugged : p = c[1] \/ p = c[2]
    BY DEF EndPorts
  <2>2. c \in Cable
    BY FabricAssumption DEF OneCableEach
  <2>3. Static[c[1]] = 4 * Turn(c) + 1 /\ Static[c[2]] = 4 * Turn(c) + 2
    BY DEF WellKept
  <2>4. Turn(c) \in Nat
    <3>1. {d \in Plugged : Before(KeyOf(d), KeyOf(c))} \in SUBSET Cable
      BY FabricAssumption DEF OneCableEach
    <3> QED BY <3>1, Ports, FS_Subset, FS_CardinalityType DEF Turn
  <2>5. Static[p] # 0
    BY <2>1, <2>3, <2>4
  <2> QED BY <2>1, <2>2, <2>5, Ports DEF NoAddress
<1>3. \A p \in EndPorts \cap PortsOf(n) : S(p) \in StaticEntries(n) /\ S(p).port = p
  BY <1>2 DEF StaticEntries
<1>4. \A e \in StaticEntries(n) : e.octet = Static[e.port] /\ ~ e.raw
  BY DEF StaticEntries
<1>5. \A e \in LinkLocalEntries(n) : e.port \in PortsOf(n) /\ ~ e.raw
  BY DEF LinkLocalEntries
<1>6. \A e \in E : (e.port \in EndPorts => e.octet = Static[e.port]) /\ ~ e.raw
  <2>1. CASE StaticEntries(n) # {}
    BY <1>4, <2>1
  <2>2. CASE StaticEntries(n) = {}
    BY <1>3, <1>5, <2>2
  <2> QED BY <2>1, <2>2
<1>7. \A p \in EndPorts \cap PortsOf(n) : \E e \in E : e.port = p
  <2> SUFFICES ASSUME NEW p \in EndPorts \cap PortsOf(n) PROVE \E e \in E : e.port = p
    OBVIOUS
  <2>1. S(p) \in E /\ S(p).port = p
    BY <1>3
  <2> HIDE DEF E, S
  <2> QED BY <2>1
<1> HIDE DEF E
<1> QED BY <1>1, <1>6, <1>7 DEF Elements

(* What is true as long as whole is.                                       *)
Own(n)    == EndPorts \cap PortsOf(n)
Has(n)    == \A p \in Own(n) : addr[p] = Static[p]
WillHave(n) == \A p \in Own(n) : addr[p] = Static[p] \/ \E k \in DOMAIN setup[n].todo : setup[n].todo[k].port = p
AsStatic(todo) == \A k \in DOMAIN todo : todo[k].port \in EndPorts => todo[k].octet = Static[todo[k].port]

Applying(s) ==
  /\ Len(s.best) = Cardinality(Plugged)
  /\ \A k \in DOMAIN s.todo : \E i \in DOMAIN s.best : s.todo[k].raw = s.best[i].raw

OfMachine(n) ==
  /\ seen[n] \subseteq Sees(n, Plugged) /\ Within(setup[n].best, Plugged) /\ AsStatic(setup[n].todo)
  /\ setup[n].at \in {"scan", "apply"} => n = First(Node)
  /\ setup[n].at = "apply" =>
        Applying(setup[n]) /\ ((\E i \in DOMAIN setup[n].best : ~ setup[n].best[i].raw) => WillHave(n))
  /\ setup[n].at = "fallback" => WillHave(n) /\ \A k \in DOMAIN setup[n].todo : ~ setup[n].todo[k].raw
  /\ setup[n].at = "file" \/ (setup[n].at = "idle" /\ n \in serving) => Has(n)

Whole ==
  whole => /\ plugged = Plugged
           /\ \A n \in Node : OfMachine(n)
           /\ cache = None \/ Within(cache.links, Plugged)

LEMMA FirstOfNode ==
  ASSUME WellKept, NEW n \in Node, NEW hosts \in Seq(Node), Elements(hosts) = Node
  PROVE  Leads(n, hosts) => n = First(Node)
BY DEF Leads, IsFirst

LEMMA FallingBack ==
  ASSUME WellKept, plugged = Plugged, NEW n \in Node, NEW s \in Setups
  PROVE  LET t == FallsBack(s, n)
         IN  /\ t \in Setups /\ t.at = "fallback" /\ t.best = s.best /\ AsStatic(t.todo)
             /\ \A p \in Own(n) : \E k \in DOMAIN t.todo : t.todo[k].port = p
             /\ \A k \in DOMAIN t.todo : ~ t.todo[k].raw
<1>1. plugged \subseteq Cable
  BY FabricAssumption DEF OneCableEach
<1>2. FallsBack(s, n) \in Setups
  BY <1>1, FallsBackIsSetup
<1>3. FallsBack(s, n).at = "fallback" /\ FallsBack(s, n).best = s.best /\ FallsBack(s, n).todo = Fallback(n)
  BY DEF FallsBack, Setups
<1>4. AsStatic(Fallback(n))
  BY FallbackGiven DEF AsStatic
<1> QED BY <1>2, <1>3, <1>4, FallbackGiven DEF Own

LEMMA Beginning ==
  ASSUME WellKept, plugged = Plugged, NEW n \in Node, NEW hosts \in Seq(Node), Elements(hosts) = Node
  PROVE  LET t == Begin(n, hosts)
         IN  /\ t.best = <<>> /\ AsStatic(t.todo)
             /\ \/ t.at = "scan" /\ n = First(Node)
                \/ /\ t.at = "fallback" /\ \A p \in Own(n) : \E k \in DOMAIN t.todo : t.todo[k].port = p
                   /\ \A k \in DOMAIN t.todo : ~ t.todo[k].raw
<1> DEFINE s == [Idle EXCEPT !.hosts = hosts]
<1>1. s \in Setups /\ s.best = <<>> /\ s.todo = <<>>
  <2>1. Idle \in Setups /\ Idle.best = <<>> /\ Idle.todo = <<>>
    BY IdleIsSetup DEF Idle
  <2> QED BY <2>1 DEF Setups
<1> HIDE DEF s
<1>2. CASE Leads(n, hosts)
  <2>1. Begin(n, hosts) = [s EXCEPT !.at = "scan"]
    BY <1>2 DEF Begin, s
  <2>2. Begin(n, hosts).at = "scan" /\ Begin(n, hosts).best = <<>> /\ Begin(n, hosts).todo = <<>>
    BY <1>1, <2>1 DEF Setups
  <2>3. AsStatic(<<>>)
    BY DEF AsStatic
  <2> QED BY <1>2, <2>2, <2>3, FirstOfNode
<1>3. CASE ~ Leads(n, hosts)
  <2>1. Begin(n, hosts) = FallsBack(s, n)
    BY <1>3 DEF Begin, s
  <2> QED BY <1>1, <2>1, FallingBack
<1> QED BY <1>2, <1>3


(* What the other machines do does not take it from a machine.             *)
LEMMA Remains ==
  ASSUME NEW n \in Node, OfMachine(n), seen'[n] \subseteq Sees(n, Plugged), setup'[n] = setup[n],
         \A p \in Own(n) : addr'[p] = addr[p] \/ addr'[p] = Static[p],
         n \in serving' /\ setup[n].at = "idle" => n \in serving
  PROVE  OfMachine(n)'
<1>1. WillHave(n) => WillHave(n)'
  BY DEF WillHave
<1>2. Has(n) => Has(n)'
  BY DEF Has
<1> QED BY <1>1, <1>2 DEF OfMachine

(* One address of the list is given.                                       *)
LEMMA Giving ==
  ASSUME Sound, NEW n \in Node, setup[n].todo # <<>>, AsStatic(setup[n].todo),
         GivesHere(Head(setup[n].todo)) \/ GivesThere(Head(setup[n].todo))
  PROVE  /\ \A p \in EndPorts : addr'[p] = addr[p] \/ addr'[p] = Static[p]
         /\ AsStatic(Tail(setup[n].todo))
         /\ \A k \in DOMAIN Tail(setup[n].todo) : \E j \in DOMAIN setup[n].todo : Tail(setup[n].todo)[k] = setup[n].todo[j]
         /\ /\ GivesHere(Head(setup[n].todo)) \/ Head(setup[n].todo).port[1] # n
            /\ ~ Head(setup[n].todo).raw
            /\ WillHave(n)
            => \A p \in Own(n) : \/ addr'[p] = Static[p]
                                 \/ \E k \in DOMAIN Tail(setup[n].todo) : Tail(setup[n].todo)[k].port = p
<1> DEFINE todo == setup[n].todo
           e == Head(todo)
<1>1. todo \in Seq(Entry) /\ addr \in [Port -> 0 .. LinkLocal]
  BY DEF Sound, SettingUp, Setups, Addressed
<1>2. /\ Len(todo) \in Nat /\ DOMAIN todo = 1 .. Len(todo) /\ Len(todo) # 0 /\ e = todo[1] /\ 1 \in DOMAIN todo
      /\ DOMAIN Tail(todo) = 1 .. (Len(todo) - 1) /\ \A k \in 1 .. (Len(todo) - 1) : Tail(todo)[k] = todo[k + 1]
  <2>1. Len(todo) \in Nat /\ DOMAIN todo = 1 .. Len(todo) /\ Len(todo) # 0
    BY <1>1, LenProperties, EmptySeq
  <2> HIDE DEF todo
  <2> QED BY <1>1, <2>1, HeadTailProperties
<1>3. e \in Entry /\ e.port \in Port
  <2>1. todo[1] \in Entry
    <3> HIDE DEF todo
    <3> QED BY <1>1, <1>2, ElementOfSeq
  <2>2. e \in Entry
    BY <1>2, <2>1
  <2> HIDE DEF e
  <2> QED BY <2>2 DEF Entry
<1>4. e.port \in EndPorts => e.octet = Static[e.port]
  BY <1>2 DEF AsStatic
<1>5. \A p \in EndPorts : p \in Port
  <2>1. Plugged \subseteq Cable
    BY FabricAssumption DEF OneCableEach
  <2> QED BY <2>1, Ports DEF EndPorts
<1> HIDE DEF e
<1>6. addr' = addr \/ addr' = [addr EXCEPT ![e.port] = e.octet]
  BY DEF GivesHere, GivesThere, e
<1>7. \A p \in EndPorts : addr'[p] = addr[p] \/ addr'[p] = Static[p]
  BY <1>1, <1>3, <1>4, <1>5, <1>6
<1>8. AsStatic(Tail(todo))
  BY <1>2 DEF AsStatic
<1>9. \A k \in DOMAIN Tail(todo) : \E j \in DOMAIN todo : Tail(todo)[k] = todo[j]
  BY <1>2
<1>10. ASSUME GivesHere(e) \/ e.port[1] # n, ~ e.raw, WillHave(n), NEW p \in Own(n)
       PROVE  addr'[p] = Static[p] \/ \E k \in DOMAIN Tail(todo) : Tail(todo)[k].port = p
  <2>1. p \in EndPorts /\ p \in Port /\ p[1] = n
    BY <1>5 DEF Own, PortsOf
  <2>2. CASE addr[p] = Static[p]
    BY <1>7, <2>1, <2>2
  <2>3. CASE addr[p] # Static[p]
    <3>1. PICK j \in DOMAIN todo : todo[j].port = p
      BY <1>10, <2>3 DEF WillHave
    <3>2. CASE j = 1
      <4>1. e.port = p /\ GivesHere(e)
        BY <1>2, <1>10, <2>1, <3>1, <3>2
      <4>2. addr' = [addr EXCEPT ![e.port] = e.octet]
        BY <1>10, <4>1 DEF GivesHere
      <4> QED BY <1>1, <1>3, <1>4, <2>1, <4>1, <4>2
    <3>3. CASE j # 1
      <4>1. j - 1 \in DOMAIN Tail(todo) /\ Tail(todo)[j - 1] = todo[j]
        <5>1. j \in 1 .. Len(todo) /\ j - 1 \in 1 .. (Len(todo) - 1) /\ (j - 1) + 1 = j
          BY <1>2, <3>3
        <5>2. Tail(todo)[j - 1] = todo[(j - 1) + 1]
          BY <1>2, <5>1
        <5> QED BY <1>2, <5>1, <5>2
      <4> QED BY <3>1, <4>1
    <3> QED BY <3>2, <3>3
  <2> QED BY <2>2, <2>3
<1> QED BY <1>7, <1>8, <1>9, <1>10 DEF e

LEMMA InitWhole == Init => Whole
<1> SUFFICES ASSUME Init PROVE Whole
  OBVIOUS
<1>1. ASSUME NEW n \in Node PROVE OfMachine(n)
  <2>1. setup[n] = Idle /\ seen[n] = Sees(n, Plugged) /\ addr = Static
    BY DEF Init
  <2>2. Idle.at = "idle" /\ Idle.best = <<>> /\ Idle.todo = <<>>
    BY DEF Idle
  <2>3. AsStatic(<<>>) /\ Within(<<>>, Plugged)
    BY DEF AsStatic, Within
  <2>4. Has(n)
    BY <2>1 DEF Has
  <2> QED BY <2>1, <2>2, <2>3, <2>4 DEF OfMachine
<1> QED BY <1>1 DEF Whole, Init

LEMMA MachinesWhole ==
  ASSUME WellKept, Sound, Whole
  PROVE  /\ Replug \/ DaemonsStop \/ MachinesStop => Whole'
         /\ \A n \in Node : MachineStarts(n) \/ DaemonStarts(n) \/ DaemonServes(n) \/ ScansPorts(n) => Whole'
<1>1. Replug => Whole'
  BY DEF Replug, Whole
<1> SUFFICES ASSUME whole, plugged = Plugged, \A n \in Node : OfMachine(n), cache = None \/ Within(cache.links, Plugged)
             PROVE  /\ DaemonsStop \/ MachinesStop => Whole'
                    /\ \A n \in Node : MachineStarts(n) \/ DaemonStarts(n) \/ DaemonServes(n) \/ ScansPorts(n) => Whole'
  <2>1. CASE whole
    BY <1>1, <2>1 DEF Whole
  <2>2. CASE ~ whole
    <3>1. DaemonsStop \/ MachinesStop => whole' = whole
      BY DEF DaemonsStop, MachinesStop
    <3>2. \A n \in Node : MachineStarts(n) \/ DaemonStarts(n) \/ DaemonServes(n) \/ ScansPorts(n) => whole' = whole
      BY DEF MachineStarts, DaemonStarts, DaemonServes, ScansPorts
    <3> QED BY <1>1, <2>2, <3>1, <3>2 DEF Whole
  <2> QED BY <2>1, <2>2
<1>2. seen \in [Node -> SUBSET (Port \X Port)] /\ setup \in [Node -> Setups] /\ addr \in [Port -> 0 .. LinkLocal]
  BY DEF Sound, Sighting, SettingUp, Addressed
<1>3. \A n \in Node : seen[n] \subseteq Sees(n, Plugged)
  BY DEF OfMachine
<1>4. ASSUME NEW gone, Stop(gone), \A p \in Port : p[1] \notin gone => addr'[p] = addr[p], plugged' = plugged
      PROVE  Whole'
  <2>1. ASSUME NEW n \in Node PROVE OfMachine(n)'
    <3>1. CASE n \in gone
      <4>1. setup'[n] = Idle /\ seen'[n] = {} /\ n \notin serving'
        BY <1>4, <3>1 DEF Stop
      <4>2. Idle.at = "idle" /\ Idle.best = <<>> /\ Idle.todo = <<>>
        BY DEF Idle
      <4>3. AsStatic(<<>>) /\ Within(<<>>, Plugged)
        BY DEF AsStatic, Within
      <4> QED BY <4>1, <4>2, <4>3 DEF OfMachine
    <3>2. CASE n \notin gone
      <4>1. setup'[n] = setup[n] /\ seen'[n] = seen[n] /\ (n \in serving' => n \in serving)
        BY <1>4, <3>2 DEF Stop
      <4>2. \A p \in Own(n) : addr'[p] = addr[p]
        BY <1>4, <3>2 DEF Own, PortsOf
      <4> QED BY <1>3, <4>1, <4>2, Remains
    <3> QED BY <3>1, <3>2
  <2>2. cache' = None \/ Within(cache'.links, Plugged)
    BY <1>4 DEF Stop
  <2> QED BY <1>4, <2>1, <2>2 DEF Whole
<1>5. ASSUME DaemonsStop PROVE Whole'
  BY <1>4, <1>5 DEF DaemonsStop
<1>6. ASSUME MachinesStop PROVE Whole'
  <2>1. PICK gone \in Cuts : /\ Stop(gone)
                             /\ addr' = [p \in Port |-> IF p[1] \in gone THEN NoAddress ELSE addr[p]]
    BY <1>6 DEF MachinesStop
  <2> QED BY <1>4, <1>6, <2>1 DEF MachinesStop
<1>7. ASSUME NEW n \in Node, MachineStarts(n) \/ DaemonServes(n) PROVE Whole'
  <2>1. UNCHANGED <<plugged, addr, setup, seen, cache>>
    BY <1>7 DEF MachineStarts, DaemonServes, scans, hubs
  <2>2. \A m \in Node : m \in serving' /\ setup[m].at = "idle" => m \in serving
    BY <1>7 DEF MachineStarts, DaemonServes
  <2>3. \A m \in Node : OfMachine(m)'
    BY <1>3, <2>1, <2>2, Remains
  <2> QED BY <2>1, <2>3 DEF Whole
<1>8. ASSUME NEW n \in Node, DaemonStarts(n) PROVE Whole'
  <2>1. UNCHANGED <<plugged, addr, serving, seen, cache>>
    BY <1>8 DEF DaemonStarts, boxes, scans, hubs
  <2>2. setup' = [setup EXCEPT ![n] = Begin(n, Listed[n])]
    BY <1>8 DEF DaemonStarts
  <2>3. Listed[n] \in Seq(Node) /\ Elements(Listed[n]) = Node
    BY FabricAssumption DEF WellKept
  <2> DEFINE t == Begin(n, Listed[n])
  <2>4. /\ t.best = <<>> /\ AsStatic(t.todo)
        /\ \/ t.at = "scan" /\ n = First(Node)
           \/ /\ t.at = "fallback" /\ \A p \in Own(n) : \E k \in DOMAIN t.todo : t.todo[k].port = p
              /\ \A k \in DOMAIN t.todo : ~ t.todo[k].raw
    BY <2>3, Beginning
  <2>5. setup'[n] = t
    BY <1>2, <2>2
  <2>6. OfMachine(n)'
    <3>1. Within(<<>>, Plugged)
      BY DEF Within
    <3> HIDE DEF t
    <3>2. t.at = "fallback" => WillHave(n)'
      BY <2>4, <2>5 DEF WillHave
    <3> QED BY <1>3, <2>1, <2>4, <2>5, <3>1, <3>2 DEF OfMachine
  <2>7. \A m \in Node : m # n => OfMachine(m)'
    <3> SUFFICES ASSUME NEW m \in Node, m # n PROVE OfMachine(m)'
      OBVIOUS
    <3>1. setup'[m] = setup[m]
      BY <1>2, <2>2
    <3> QED BY <1>3, <2>1, <3>1, Remains
  <2> QED BY <2>1, <2>6, <2>7 DEF Whole
<1>9. ASSUME NEW n \in Node, ScansPorts(n) PROVE Whole'
  <2>1. UNCHANGED <<plugged, addr, setup, serving, cache>>
    BY <1>9 DEF ScansPorts, boxes, hubs
  <2>2. \A m \in Node : seen'[m] \subseteq Sees(m, Plugged)
    BY <1>2, <1>3, <1>9 DEF ScansPorts
  <2>3. \A m \in Node : OfMachine(m)'
    BY <2>1, <2>2, Remains
  <2> QED BY <2>1, <2>3 DEF Whole
<1> QED BY <1>5, <1>6, <1>7, <1>8, <1>9


LEMMA SetupsWhole ==
  ASSUME WellKept, Sound, Whole, NEW n \in Node
  PROVE  Discovers(n) \/ Applies(n) \/ FallbackGives(n) \/ WritesAuto(n) \/ SetupIsAsked(n) \/ Checks(n) => Whole'
<1> SUFFICES ASSUME whole, plugged = Plugged, \A m \in Node : OfMachine(m), cache = None \/ Within(cache.links, Plugged)
             PROVE  Discovers(n) \/ Applies(n) \/ FallbackGives(n) \/ WritesAuto(n) \/ SetupIsAsked(n) \/ Checks(n) => Whole'
  <2>1. CASE whole
    BY <2>1 DEF Whole
  <2>2. CASE ~ whole
    <3>1. Discovers(n) \/ Applies(n) \/ FallbackGives(n) \/ WritesAuto(n) \/ SetupIsAsked(n) \/ Checks(n) => ~ whole'
      BY <2>2 DEF Discovers, Applies, FallbackGives, WritesAuto, SetupIsAsked, Checks
    <3> QED BY <3>1 DEF Whole
  <2> QED BY <2>1, <2>2
<1>1. setup \in [Node -> Setups] /\ setup[n] \in Setups /\ addr \in [Port -> 0 .. LinkLocal]
  BY DEF Sound, SettingUp, Addressed
<1>2. \A m \in Node : seen[m] \subseteq Sees(m, Plugged)
  BY DEF OfMachine
<1>3. Within(setup[n].best, Plugged) /\ AsStatic(setup[n].todo) /\ Listing(setup[n].best) /\ setup[n].hosts \in Seq(Node)
  BY <1>1 DEF OfMachine, Setups
<1>4. ASSUME UNCHANGED <<plugged, serving, seen, cache>>,
             \A p \in EndPorts : addr'[p] = addr[p] \/ addr'[p] = Static[p],
             \A m \in Node : m # n => setup'[m] = setup[m],
             OfMachine(n)'
      PROVE  Whole'
  <2>1. \A m \in Node : m # n => OfMachine(m)'
    <3> SUFFICES ASSUME NEW m \in Node, m # n PROVE OfMachine(m)'
      OBVIOUS
    <3> QED BY <1>2, <1>4, Remains DEF Own
  <2> QED BY <1>4, <2>1 DEF Whole
<1>5. ASSUME NEW t, setup' = [setup EXCEPT ![n] = t] PROVE setup'[n] = t /\ \A m \in Node : m # n => setup'[m] = setup[m]
  BY <1>1, <1>5
<1>6. ASSUME Discovers(n) PROVE Whole'
  <2> DEFINE s(r) == Stable(setup[n], r.links)
  <2>1. PICK r \in Discoveries(n, setup[n].hosts) :
          /\ setup' = [setup EXCEPT ![n] =
                IF ~Done(s(r)) THEN s(r)
                ELSE IF s(r).best = <<>> THEN FallsBack(s(r), n)
                ELSE [s(r) EXCEPT !.at = "apply", !.todo = Assignment(s(r).best)]]
          /\ whole' = (whole /\ (Done(s(r)) /\ n = First(Node) => Len(s(r).best) \in {0, Cardinality(plugged)}))
    BY <1>6 DEF Discovers
  <2>2. setup[n].at = "scan" /\ n = First(Node) /\ UNCHANGED <<plugged, addr, serving, seen, cache>>
    BY <1>6 DEF Discovers, OfMachine, boxes, scans, hubs
  <2>3. Within(r.links, Plugged) /\ Listing(r.links)
    <3>1. seen \in [Node -> SUBSET (Port \X Port)] /\ (\A m \in Node : Sighted(m, seen[m])) /\ plugged \subseteq Cable
      BY DEF Sound, Sighting, Cabling, OneCableEach
    <3>2. Reported(r) /\ ((\A m \in Node : seen[m] \subseteq Sees(m, plugged)) => Within(r.links, plugged))
      BY <1>3, <3>1, DiscoveriesReport
    <3> QED BY <1>2, <3>2 DEF Reported
  <2> DEFINE t == s(r)
  <2>4. t.at = "scan" /\ t.best \in {r.links, setup[n].best} /\ t.todo = setup[n].todo
    BY <1>1, <2>2 DEF Stable, Setups
  <2>5. Within(t.best, Plugged) /\ Listing(t.best) /\ AsStatic(t.todo)
    BY <1>3, <2>3, <2>4
  <2>6. /\ DOMAIN t = DOMAIN setup[n]
        /\ \A a, l : [t EXCEPT !.at = a, !.todo = l].at = a /\ [t EXCEPT !.at = a, !.todo = l].todo = l
                     /\ [t EXCEPT !.at = a, !.todo = l].best = t.best
    BY <1>1 DEF Stable, Setups
  <2>7. ASSUME whole' PROVE OfMachine(n)'
    <3>1. CASE ~ Done(t)
      <4>1. setup'[n] = t
        BY <1>5, <2>1, <3>1
      <4> HIDE DEF s
      <4> QED BY <1>2, <2>2, <2>4, <2>5, <4>1 DEF OfMachine
    <3>2. CASE Done(t) /\ t.best = <<>>
      <4>1. setup'[n] = FallsBack(t, n)
        BY <1>5, <2>1, <3>2
      <4> DEFINE u == [t EXCEPT !.at = "fallback", !.todo = Fallback(n), !.given = Fallback(n) # <<>>]
      <4>2. u.at = "fallback" /\ u.todo = Fallback(n) /\ u.best = t.best
        BY <1>1 DEF Stable, Setups
      <4>3. setup'[n] = u
        BY <4>1 DEF FallsBack
      <4> HIDE DEF u, s
      <4>4. AsStatic(u.todo) /\ (\A k \in DOMAIN u.todo : ~ u.todo[k].raw)
            /\ \A p \in Own(n) : \E k \in DOMAIN u.todo : u.todo[k].port = p
        BY <4>2, FallbackGiven DEF AsStatic, Own
      <4>5. WillHave(n)'
        BY <4>3, <4>4 DEF WillHave
      <4> QED BY <1>2, <2>2, <2>5, <4>2, <4>3, <4>4, <4>5 DEF OfMachine
    <3>3. CASE Done(t) /\ t.best # <<>>
      <4> DEFINE u == [t EXCEPT !.at = "apply", !.todo = Assignment(t.best)]
      <4>1. setup'[n] = u
        BY <1>5, <2>1, <3>3
      <4>2. u.at = "apply" /\ u.todo = Assignment(t.best) /\ u.best = t.best
        BY <2>6
      <4> HIDE DEF u, s
      <4>3. Len(t.best) = Cardinality(Plugged)
        <5>1. Len(t.best) # 0
          BY <2>5, <3>3, ListingIs, EmptySeq
        <5> QED BY <2>1, <2>2, <2>7, <3>3, <5>1
      <4>4. /\ \A k \in DOMAIN u.todo : /\ u.todo[k].octet = Static[u.todo[k].port]
                                        /\ \E i \in DOMAIN t.best : u.todo[k].raw = t.best[i].raw
            /\ \A p \in EndPorts : \E k \in DOMAIN u.todo : u.todo[k].port = p
        BY <2>5, <4>2, <4>3, AllGiven
      <4>5. AsStatic(u.todo) /\ Applying(u)
        BY <4>2, <4>3, <4>4 DEF AsStatic, Applying
      <4>6. WillHave(n)'
        BY <4>1, <4>4 DEF WillHave, Own
      <4> QED BY <1>2, <2>2, <2>5, <4>1, <4>2, <4>5, <4>6 DEF OfMachine
    <3> QED BY <3>1, <3>2, <3>3
  <2> HIDE DEF s
  <2>8. \A m \in Node : m # n => setup'[m] = setup[m]
    BY <1>1, <2>1
  <2>9. CASE whole'
    BY <1>4, <2>2, <2>7, <2>8, <2>9
  <2>10. CASE ~ whole'
    BY <2>10 DEF Whole
  <2> QED BY <2>9, <2>10
<1>7. ASSUME Applies(n) PROVE Whole'
  <2> DEFINE s == setup[n]
             e == Head(s.todo)
             mine == \E l \in Elements(s.best) : ~l.raw /\ n \in {l.p[1], l.q[1]}
  <2>1. /\ s.at = "apply" /\ s.todo # <<>> /\ UNCHANGED <<plugged, serving, seen, cache>>
        /\ IF e.port[1] = n THEN GivesHere(e) ELSE GivesThere(e)
        /\ setup' = [setup EXCEPT ![n] =
                IF Tail(s.todo) # <<>> THEN [s EXCEPT !.todo = Tail(@)]
                ELSE IF mine THEN [s EXCEPT !.at = "file", !.todo = <<>>, !.given = TRUE]
                ELSE FallsBack(s, n)]
    BY <1>7 DEF Applies, scans, hubs
  <2>2. n = First(Node) /\ Applying(s) /\ ((\E i \in DOMAIN s.best : ~ s.best[i].raw) => WillHave(n))
    BY <2>1 DEF OfMachine
  <2>3. GivesHere(e) \/ GivesThere(e)
    BY <2>1
  <2>4. /\ \A p \in EndPorts : addr'[p] = addr[p] \/ addr'[p] = Static[p]
        /\ AsStatic(Tail(s.todo))
        /\ \A k \in DOMAIN Tail(s.todo) : \E j \in DOMAIN s.todo : Tail(s.todo)[k] = s.todo[j]
    BY <1>3, <2>1, <2>3, Giving
  <2>5. ASSUME \E i \in DOMAIN s.best : ~ s.best[i].raw
        PROVE  \A p \in Own(n) : addr'[p] = Static[p] \/ \E k \in DOMAIN Tail(s.todo) : Tail(s.todo)[k].port = p
    <3>1. \A i, j \in DOMAIN s.best : s.best[i].raw = s.best[j].raw
      <4>1. PICK b \in BOOLEAN : s.best \in Seq(Links(b))
        BY <1>3 DEF Listing
      <4>2. \A i \in DOMAIN s.best : s.best[i] \in Links(b)
        BY <4>1, ElementOfSeq
      <4> QED BY <4>2 DEF Links
    <3>2. 1 \in DOMAIN s.todo /\ e = s.todo[1]
      <4>1. s.todo \in Seq(Entry)
        BY <1>1 DEF Setups
      <4> HIDE DEF s
      <4>2. Len(s.todo) \in Nat /\ DOMAIN s.todo = 1 .. Len(s.todo) /\ Len(s.todo) # 0
        BY <2>1, <4>1, LenProperties, EmptySeq
      <4> QED BY <2>1, <4>1, <4>2, HeadTailProperties
    <3>3. PICK i \in DOMAIN s.best : s.todo[1].raw = s.best[i].raw
      BY <2>2, <3>2 DEF Applying
    <3>4. ~ e.raw
      BY <2>5, <3>1, <3>2, <3>3
    <3>5. GivesHere(e) \/ e.port[1] # n
      BY <2>1
    <3>6. WillHave(n)
      BY <2>2, <2>5
    <3> QED BY <1>3, <2>1, <2>3, <3>4, <3>5, <3>6, Giving
  <2>6. CASE Tail(s.todo) # <<>>
    <3> DEFINE t == [s EXCEPT !.todo = Tail(@)]
    <3>1. setup'[n] = t
      BY <1>5, <2>1, <2>6
    <3>2. t.at = "apply" /\ t.todo = Tail(s.todo) /\ t.best = s.best
      BY <1>1, <2>1 DEF Setups
    <3> HIDE DEF t, s
    <3>3. Applying(t)
      BY <2>2, <2>4, <3>2 DEF Applying
    <3>4. (\E i \in DOMAIN t.best : ~ t.best[i].raw) => WillHave(n)'
      BY <2>5, <3>1, <3>2 DEF WillHave
    <3>5. Within(t.best, Plugged) /\ AsStatic(t.todo)
      BY <1>3, <2>4, <3>2 DEF s
    <3>6. OfMachine(n)'
      BY <1>2, <2>1, <2>2, <3>1, <3>2, <3>3, <3>4, <3>5 DEF OfMachine
    <3>7. \A m \in Node : m # n => setup'[m] = setup[m]
      BY <1>1, <2>1
    <3> QED BY <1>4, <2>1, <2>4, <3>6, <3>7
  <2>7. CASE Tail(s.todo) = <<>> /\ mine
    <3> DEFINE t == [s EXCEPT !.at = "file", !.todo = <<>>, !.given = TRUE]
    <3>1. setup'[n] = t
      BY <1>5, <2>1, <2>7
    <3>2. t.at = "file" /\ t.todo = <<>> /\ t.best = s.best
      BY <1>1 DEF Setups
    <3>3. \E i \in DOMAIN s.best : ~ s.best[i].raw
      BY <2>7 DEF Elements
    <3> HIDE DEF t, s, mine
    <3>4. Has(n)'
      BY <2>5, <2>7, <3>3 DEF Has
    <3>5. Within(t.best, Plugged) /\ AsStatic(t.todo)
      BY <1>3, <3>2 DEF s, AsStatic
    <3>6. OfMachine(n)'
      BY <1>2, <2>1, <3>1, <3>2, <3>4, <3>5 DEF OfMachine
    <3>7. \A m \in Node : m # n => setup'[m] = setup[m]
      BY <1>1, <2>1
    <3> QED BY <1>4, <2>1, <2>4, <3>6, <3>7
  <2>8. CASE Tail(s.todo) = <<>> /\ ~ mine
    <3> DEFINE t == FallsBack(s, n)
    <3>1. setup'[n] = t
      BY <1>5, <2>1, <2>8
    <3>2. /\ t.at = "fallback" /\ t.best = s.best /\ AsStatic(t.todo)
          /\ \A p \in Own(n) : \E k \in DOMAIN t.todo : t.todo[k].port = p
          /\ \A k \in DOMAIN t.todo : ~ t.todo[k].raw
      BY <1>1, FallingBack
    <3> HIDE DEF t, s, mine
    <3>3. WillHave(n)'
      BY <3>1, <3>2 DEF WillHave
    <3>4. Within(t.best, Plugged)
      BY <1>3, <3>2 DEF s
    <3>6. OfMachine(n)'
      BY <1>2, <2>1, <3>1, <3>2, <3>3, <3>4 DEF OfMachine
    <3>7. \A m \in Node : m # n => setup'[m] = setup[m]
      BY <1>1, <2>1
    <3> QED BY <1>4, <2>1, <2>4, <3>6, <3>7
  <2> QED BY <2>6, <2>7, <2>8
<1>8. ASSUME FallbackGives(n) PROVE Whole'
  <2> DEFINE s == setup[n]
  <2>1. s.at = "fallback" /\ UNCHANGED <<plugged, serving, seen, cache>>
    BY <1>8 DEF FallbackGives, scans, hubs
  <2>2. WillHave(n) /\ \A k \in DOMAIN s.todo : ~ s.todo[k].raw
    BY <2>1 DEF OfMachine
  <2>3. CASE s.todo = <<>>
    <3> DEFINE t == [s EXCEPT !.at = "file"]
    <3>1. setup' = [setup EXCEPT ![n] = t] /\ addr' = addr
      BY <1>8, <2>3 DEF FallbackGives
    <3>2. t.at = "file" /\ t.todo = s.todo /\ t.best = s.best
      BY <1>1 DEF Setups
    <3> HIDE DEF t
    <3>3. setup'[n] = t /\ \A m \in Node : m # n => setup'[m] = setup[m]
      BY <1>5, <3>1
    <3>4. Has(n)'
      BY <2>2, <2>3, <3>1 DEF Has, WillHave
    <3>5. OfMachine(n)'
      BY <1>2, <1>3, <2>1, <3>2, <3>3, <3>4 DEF OfMachine
    <3> QED BY <1>4, <2>1, <3>1, <3>3, <3>5
  <2>4. CASE s.todo # <<>>
    <3> DEFINE t == [s EXCEPT !.todo = Tail(@)]
    <3>1. setup' = [setup EXCEPT ![n] = t] /\ GivesHere(Head(s.todo))
      BY <1>8, <2>4 DEF FallbackGives
    <3>2. t.at = "fallback" /\ t.todo = Tail(s.todo) /\ t.best = s.best
      BY <1>1, <2>1 DEF Setups
    <3> HIDE DEF t
    <3>3. setup'[n] = t /\ \A m \in Node : m # n => setup'[m] = setup[m]
      BY <1>5, <3>1
    <3>4. ~ Head(s.todo).raw
      <4>1. s.todo \in Seq(Entry)
        BY <1>1 DEF Setups
      <4> HIDE DEF s
      <4>2. Len(s.todo) \in Nat /\ DOMAIN s.todo = 1 .. Len(s.todo) /\ Len(s.todo) # 0
        BY <2>4, <4>1, LenProperties, EmptySeq
      <4>3. 1 \in DOMAIN s.todo /\ Head(s.todo) = s.todo[1]
        BY <2>4, <4>1, <4>2, HeadTailProperties
      <4> QED BY <2>2, <4>3
    <3>5. /\ \A p \in EndPorts : addr'[p] = addr[p] \/ addr'[p] = Static[p]
          /\ AsStatic(Tail(s.todo))
          /\ \A k \in DOMAIN Tail(s.todo) : \E j \in DOMAIN s.todo : Tail(s.todo)[k] = s.todo[j]
      BY <1>3, <2>4, <3>1, Giving
    <3>6. \A p \in Own(n) : addr'[p] = Static[p] \/ \E k \in DOMAIN Tail(s.todo) : Tail(s.todo)[k].port = p
      BY <1>3, <2>2, <2>4, <3>1, <3>4, Giving
    <3> HIDE DEF s
    <3>7. WillHave(n)' /\ \A k \in DOMAIN t.todo : ~ t.todo[k].raw
      <4>1. WillHave(n)'
        BY <3>2, <3>3, <3>6 DEF WillHave
      <4>2. \A k \in DOMAIN t.todo : ~ t.todo[k].raw
        BY <2>2, <3>2, <3>5
      <4> QED BY <4>1, <4>2
    <3>8. OfMachine(n)'
      BY <1>2, <1>3, <2>1, <3>2, <3>3, <3>5, <3>7 DEF OfMachine, s
    <3> QED BY <1>4, <2>1, <3>3, <3>5, <3>8
  <2> QED BY <2>3, <2>4
<1>9. ASSUME WritesAuto(n) PROVE Whole'
  <2> DEFINE t == [Idle EXCEPT !.best = setup[n].best]
  <2>1. setup' = [setup EXCEPT ![n] = t] /\ setup[n].at = "file" /\ UNCHANGED <<plugged, addr, serving, seen, cache>>
    BY <1>9 DEF WritesAuto, boxes, scans, hubs
  <2>2. t.at = "idle" /\ t.todo = <<>> /\ t.best = setup[n].best
    BY DEF Idle
  <2> HIDE DEF t
  <2>3. setup'[n] = t /\ \A m \in Node : m # n => setup'[m] = setup[m]
    BY <1>5, <2>1
  <2>4. Has(n)'
    BY <2>1 DEF OfMachine, Has
  <2>5. AsStatic(<<>>)
    BY DEF AsStatic
  <2>6. OfMachine(n)'
    BY <1>2, <1>3, <2>1, <2>2, <2>3, <2>4, <2>5 DEF OfMachine
  <2> QED BY <1>4, <2>1, <2>3, <2>6
<1>10. ASSUME SetupIsAsked(n) PROVE Whole'
  <2>1. PICK hosts \in Asked : setup' = [setup EXCEPT ![n] = Begin(n, IF hosts = <<>> THEN Listed[n] ELSE hosts)]
    BY <1>10 DEF SetupIsAsked
  <2> DEFINE list == IF hosts = <<>> THEN Listed[n] ELSE hosts
             t == Begin(n, list)
  <2>2. list \in Seq(Node) /\ Elements(list) = Node
    <3>1. Listed[n] \in Seq(Node) /\ Asked \subseteq Seq(Node)
      BY FabricAssumption
    <3>2. Elements(Listed[n]) = Node /\ (hosts # <<>> => Elements(hosts) = Node)
      BY DEF WellKept
    <3> QED BY <3>1, <3>2
  <2>3. UNCHANGED <<plugged, addr, serving, seen, cache>>
    BY <1>10 DEF SetupIsAsked, boxes, scans, hubs
  <2> HIDE DEF list
  <2>4. /\ t.best = <<>> /\ AsStatic(t.todo)
        /\ \/ t.at = "scan" /\ n = First(Node)
           \/ /\ t.at = "fallback" /\ \A p \in Own(n) : \E k \in DOMAIN t.todo : t.todo[k].port = p
              /\ \A k \in DOMAIN t.todo : ~ t.todo[k].raw
    BY <2>2, Beginning
  <2>5. setup'[n] = t /\ \A m \in Node : m # n => setup'[m] = setup[m]
    BY <1>5, <2>1 DEF list
  <2>6. OfMachine(n)'
    <3>1. Within(<<>>, Plugged)
      BY DEF Within
    <3> HIDE DEF t
    <3>2. t.at = "fallback" => WillHave(n)'
      BY <2>4, <2>5 DEF WillHave
    <3> QED BY <1>2, <2>3, <2>4, <2>5, <3>1, <3>2 DEF OfMachine
  <2> QED BY <1>4, <2>3, <2>5, <2>6
<1>11. ASSUME Checks(n) PROVE Whole'
  <2>1. UNCHANGED <<plugged, addr, serving, seen, setup, cache>>
    BY <1>11 DEF Checks, boxes, scans, hubs
  <2>2. \A m \in Node : OfMachine(m)'
    BY <1>2, <2>1, Remains
  <2> QED BY <2>1, <2>2 DEF Whole
<1> QED BY <1>6, <1>7, <1>8, <1>9, <1>10, <1>11


LEMMA HubWhole ==
  ASSUME WellKept, Sound, Whole
  PROVE  ScansTopology \/ SyncIsAsked \/ SyncClears \/ SyncWrites \/ HostfileIsAsked => Whole'
<1> SUFFICES ASSUME whole, plugged = Plugged, \A m \in Node : OfMachine(m), cache = None \/ Within(cache.links, Plugged)
             PROVE  ScansTopology \/ SyncIsAsked \/ SyncClears \/ SyncWrites \/ HostfileIsAsked => Whole'
  <2>1. CASE whole
    BY <2>1 DEF Whole
  <2>2. CASE ~ whole
    <3>1. ScansTopology \/ SyncIsAsked \/ SyncClears \/ SyncWrites \/ HostfileIsAsked => ~ whole'
      BY <2>2 DEF ScansTopology, SyncIsAsked, SyncClears, SyncWrites, HostfileIsAsked
    <3> QED BY <3>1 DEF Whole
  <2> QED BY <2>1, <2>2
<1>1. \A m \in Node : seen[m] \subseteq Sees(m, Plugged)
  BY DEF OfMachine
<1>2. ASSUME UNCHANGED <<plugged, serving, addr, setup>>, \A m \in Node : seen'[m] \subseteq Sees(m, Plugged)
      PROVE  plugged' = Plugged /\ \A m \in Node : OfMachine(m)'
  BY <1>2, Remains
<1>3. ASSUME ScansTopology PROVE Whole'
  <2>1. PICK r \in Discoveries(Hub, Listed[Hub]) : cache' = r
    BY <1>3 DEF ScansTopology
  <2>2. Hub \in Node /\ Listed[Hub] \in Seq(Node)
    BY FabricAssumption
  <2>3. seen \in [Node -> SUBSET (Port \X Port)] /\ (\A m \in Node : Sighted(m, seen[m])) /\ plugged \subseteq Cable
    BY DEF Sound, Sighting, Cabling, OneCableEach
  <2>4. (\A m \in Node : seen[m] \subseteq Sees(m, plugged)) => Within(r.links, plugged)
    BY <2>2, <2>3, DiscoveriesReport
  <2>5. UNCHANGED <<plugged, serving, addr, setup, seen>>
    BY <1>3 DEF ScansTopology, boxes, scans
  <2> QED BY <1>1, <1>2, <2>1, <2>4, <2>5 DEF Whole
<1>4. ASSUME SyncClears PROVE Whole'
  <2>1. UNCHANGED <<plugged, serving, addr, setup>> /\ cache' = None
    BY <1>4 DEF SyncClears, boxes
  <2>2. seen' = [seen EXCEPT ![Hub] = {}]
    BY <1>4 DEF SyncClears
  <2>3. \A m \in Node : seen'[m] \subseteq Sees(m, Plugged)
    BY <1>1, <2>2 DEF Sound, Sighting
  <2> QED BY <1>2, <2>1, <2>3 DEF Whole
<1>5. ASSUME SyncIsAsked \/ SyncWrites \/ HostfileIsAsked PROVE Whole'
  <2>1. UNCHANGED <<plugged, serving, addr, setup, seen, cache>>
    BY <1>5 DEF SyncIsAsked, SyncWrites, HostfileIsAsked, boxes, scans
  <2> QED BY <1>1, <1>2, <2>1 DEF Whole
<1> QED BY <1>3, <1>4, <1>5

(* Two cables have not the same place.                                     *)
LEMMA Turns ==
  ASSUME WellKept
  PROVE  /\ \A c \in Plugged : Turn(c) \in Nat
         /\ \A c, d \in Plugged : Turn(c) = Turn(d) => c = d
<1> DEFINE key == [c \in Plugged |-> KeyOf(c)]
<1>1. Plugged \in SUBSET Cable /\ IsFiniteSet(Plugged)
  <2>1. Plugged \in SUBSET Cable
    BY FabricAssumption DEF OneCableEach
  <2> QED BY <2>1, Ports, FS_Subset
<1>2. ASSUME NEW c \in Plugged PROVE KeyOf(c) \in [1 .. 3 -> Nat]
  <2>1. c[1] \in Port /\ c[2] \in Port
    BY <1>1, Ports
  <2> DEFINE u == c[1][1]
             v == c[2][1]
             w == Smaller(c[1][2], c[2][2])
  <2>2. u \in Nat /\ v \in Nat /\ w \in Nat
    BY <2>1, Ports DEF Smaller
  <2>3. KeyOf(c) = <<u, v, w>>
    BY DEF KeyOf, Key
  <2> HIDE DEF u, v, w
  <2> QED BY <2>2, <2>3
<1>3. key \in [Plugged -> [1 .. 3 -> Nat]]
  BY <1>2
<1>4. \A c, d \in Plugged : key[c] = key[d] => c = d
  BY DEF WellKept
<1>5. \A c \in Plugged : Turn(c) = Cardinality(Below(ByKey(key), Plugged, c))
  <2> SUFFICES ASSUME NEW c \in Plugged PROVE Turn(c) = Cardinality(Below(ByKey(key), Plugged, c))
    OBVIOUS
  <2>1. DOMAIN key = Plugged /\ \A d \in Plugged : key[d] = KeyOf(d)
    OBVIOUS
  <2> HIDE DEF key
  <2>2. Below(ByKey(key), Plugged, c) = {d \in Plugged : Before(KeyOf(d), KeyOf(c))}
    BY <2>1 DEF Below, ByKey
  <2> QED BY <2>2 DEF Turn
<1> HIDE DEF key
<1>6. Orders(ByKey(key), Plugged)
  BY <1>3, <1>4, BeforeOrders
<1>7. \A c \in Plugged : Cardinality(Below(ByKey(key), Plugged, c)) \in 0 .. Cardinality(Plugged) - 1
  BY <1>1, <1>6, Ranks
<1>8. \A c, d \in Plugged : Cardinality(Below(ByKey(key), Plugged, c)) = Cardinality(Below(ByKey(key), Plugged, d)) => c = d
  BY <1>1, <1>6, Ranks
<1> QED BY <1>5, <1>7, <1>8

LEMMA WholeAgrees ==
  ASSUME WellKept, Sound, Whole
  PROVE  CablesAgree
<1> SUFFICES ASSUME Settled, whole
             PROVE  /\ \A c \in plugged : Agree(c)
                    /\ \A c, d \in plugged : Subnet(addr[c[1]]) = Subnet(addr[d[1]]) => c = d
                    /\ cache # None /\ Len(cache.links) = Cardinality(plugged) =>
                          \A m \in DOMAIN BestIp(Hub) : \E p \in PortsOf(m) : addr[p] = BestIp(Hub)[m]
  BY DEF CablesAgree
<1>1. plugged = Plugged /\ (\A n \in Node : OfMachine(n)) /\ (cache = None \/ Within(cache.links, Plugged))
  BY DEF Whole
<1>2. Plugged \subseteq Cable
  BY FabricAssumption DEF OneCableEach
<1>3. \A p \in EndPorts : addr[p] = Static[p]
  <2> SUFFICES ASSUME NEW p \in EndPorts PROVE addr[p] = Static[p]
    OBVIOUS
  <2>1. p \in Port /\ p[1] \in Node
    BY <1>2, Ports DEF EndPorts
  <2>2. Has(p[1])
    BY <1>1, <2>1 DEF Settled, OfMachine
  <2>3. p \in Own(p[1])
    BY <2>1 DEF Own, PortsOf
  <2> QED BY <2>2, <2>3 DEF Has
<1>4. ASSUME NEW c \in Plugged
      PROVE  addr[c[1]] = 4 * Turn(c) + 1 /\ addr[c[2]] = 4 * Turn(c) + 2 /\ Turn(c) \in Nat
  <2>1. c[1] \in EndPorts /\ c[2] \in EndPorts
    BY DEF EndPorts
  <2>2. Static[c[1]] = 4 * Turn(c) + 1 /\ Static[c[2]] = 4 * Turn(c) + 2
    BY DEF WellKept
  <2> QED BY <1>3, <2>1, <2>2, Turns
<1>5. \A c \in Plugged : Agree(c) /\ Subnet(addr[c[1]]) = Turn(c)
  <2> SUFFICES ASSUME NEW c \in Plugged PROVE Agree(c) /\ Subnet(addr[c[1]]) = Turn(c)
    OBVIOUS
  <2>1. \A k \in Nat : (4 * k + 1) \div 4 = k /\ (4 * k + 2) \div 4 = k /\ 4 * k + 1 # 0 /\ 4 * k + 2 # 0
                       /\ 4 * k + 1 # 4 * k + 2
    OBVIOUS
  <2> QED BY <1>4, <2>1 DEF Agree, Subnet, NoAddress
<1>6. \A c, d \in Plugged : Subnet(addr[c[1]]) = Subnet(addr[d[1]]) => c = d
  BY <1>5, Turns
<1>7. ASSUME cache # None, Len(cache.links) = Cardinality(plugged), NEW m \in DOMAIN BestIp(Hub)
      PROVE  \E p \in PortsOf(m) : addr[p] = BestIp(Hub)[m]
  <2> DEFINE given == Assignment(cache.links)
             mine  == {k \in DOMAIN given : given[k].port[1] # Hub /\ Reaches(Hub, given[k].octet)
                        /\ \E j \in {k - 1, k + 1} \cap DOMAIN given :
                            Subnet(given[j].octet) = Subnet(given[k].octet) /\ given[j].port[1] = Hub}
             of == {k \in mine : given[k].port[1] = m}
             first == CHOOSE k \in mine : given[k].port[1] = m /\ \A j \in mine : given[j].port[1] = m => k <= j
  <2>1. Listing(cache.links) /\ Within(cache.links, Plugged) /\ Len(cache.links) = Cardinality(Plugged)
    BY <1>1, <1>7 DEF Sound, Cached, Reported
  <2>2. given \in Seq(Entry)
    BY <2>1, AssignmentGives
  <2>3. DOMAIN given = 1 .. Len(given) /\ Len(given) \in Nat
    BY <2>2, LenProperties
  <2>4. \A k \in DOMAIN given : given[k].port \in EndPorts /\ given[k].octet = Static[given[k].port]
    BY <2>1, AllGiven
  <2>5. DOMAIN BestIp(Hub) = {given[k].port[1] : k \in mine} /\ BestIp(Hub)[m] = given[first].octet
    BY <1>7 DEF BestIp
  <2>6. mine \subseteq DOMAIN given
    OBVIOUS
  <2> HIDE DEF given, mine
  <2>7. of # {} /\ of \subseteq Nat /\ of \subseteq mine
    BY <1>7, <2>3, <2>5, <2>6
  <2>8. PICK k \in of : \A j \in of : k <= j
    <3> HIDE DEF of
    <3> QED BY <2>7, Least
  <2>9. first \in mine /\ given[first].port[1] = m
    <3>1. \E i \in mine : given[i].port[1] = m /\ \A j \in mine : given[j].port[1] = m => i <= j
      BY <2>8
    <3> QED BY <3>1
  <2> HIDE DEF first
  <2>10. given[first].port \in EndPorts /\ BestIp(Hub)[m] = Static[given[first].port]
    BY <2>4, <2>5, <2>6, <2>9
  <2>11. given[first].port \in PortsOf(m)
    <3>1. given[first].port \in Port
      BY <1>2, <2>10, Ports DEF EndPorts
    <3> QED BY <2>9, <3>1 DEF PortsOf
  <2> QED BY <1>3, <2>10, <2>11
<1> QED BY <1>1, <1>5, <1>6, <1>7

(* CablesAgree, for any machines, cables and lists of hosts, however often *)
(* daemons and machines are stopped: provided that the settings go with    *)
(* the cables, as WellKept says.                                           *)
THEOREM CablesAlwaysAgree == WellKept /\ Spec => []CablesAgree
<1> SUFFICES ASSUME WellKept PROVE Spec => []CablesAgree
  OBVIOUS
<1>1. Init => Sound /\ Whole
  BY InitSound, InitWhole
<1>2. Sound /\ Whole /\ [Next]_vars => (Sound /\ Whole)'
  <2>1. ASSUME Sound, Whole, UNCHANGED vars PROVE (Sound /\ Whole)'
    <3>1. Sound'
      BY <2>1 DEF vars, boxes, scans, hubs, Sound, Cabling, Powered, Addressed, Sighting, SettingUp, Cached, Written
    <3>2. \A n \in Node : OfMachine(n) => OfMachine(n)'
      BY <2>1 DEF vars, boxes, scans, OfMachine, WillHave, Has
    <3>3. Whole'
      BY <2>1, <3>2 DEF vars, hubs, Whole
    <3> QED BY <3>1, <3>3
  <2>2. ASSUME Sound, Whole, Next PROVE (Sound /\ Whole)'
    <3>1. Sound'
      BY <2>2, MachineSteps, SetupSteps, HubSteps DEF Next
    <3>2. Whole'
      BY <2>2, MachinesWhole, SetupsWhole, HubWhole DEF Next
    <3> QED BY <3>1, <3>2
  <2> QED BY <2>1, <2>2
<1>3. Sound /\ Whole => CablesAgree
  BY WholeAgrees
<1> QED BY <1>1, <1>2, <1>3, PTL DEF Spec

-----------------------------------------------------------------------------
(* The watch over the peers.                                               *)

USE PeerHeartbeatAssumption

(* Two requests that overlap may leave a loop that nobody can stop.        *)
OneAtATime == \A c, d \in Handler : c = d

(* Before a new loop is spawned none runs, and until it is registered no   *)
(* handle is stored.                                                       *)
StartIsClean ==
    \A c \in Handler :
        /\ call[c].pc = "starting" => handle = NoLoop /\ \A l \in Loop : ~Running(l)
        /\ call[c].pc = "registering" => handle = NoLoop /\ call[c].loop \in Loop

(* The counters of the shared status are those of the loop that runs.      *)
CountersAgree ==
    \A l \in Loop : Running(l) =>
        /\ status.peers = loop[l].peers
        /\ status.misses = loop[l].strikes
        /\ loop[l].pc = "pinged" => DOMAIN loop[l].results = DOMAIN loop[l].peers

Watch == LoopIsStoppable /\ StatusIsTrue /\ StartIsClean /\ CountersAgree /\ ThreeStrikes
Inv == HeartbeatTypeOK /\ Watch

-----------------------------------------------------------------------------
(* A list made of another one, place by place, is as long.                 *)
LEMMA ListOfList ==
  ASSUME NEW S, NEW T, NEW s \in Seq(S), NEW f \in [DOMAIN s -> T]
  PROVE  f \in Seq(T) /\ Len(f) = Len(s) /\ DOMAIN f = DOMAIN s
<1>1. Len(s) \in Nat /\ DOMAIN s = 1 .. Len(s)
  BY LenProperties
<1>2. f \in [1 .. Len(s) -> T]
  BY <1>1
<1>3. f \in Seq(T)
  BY <1>1, <1>2, SeqDef
<1>4. Len(f) \in Nat /\ DOMAIN f = 1 .. Len(f)
  BY <1>3, LenProperties
<1>5. DOMAIN f = 1 .. Len(s)
  BY <1>2
<1>6. Len(f) = Len(s)
  BY <1>1, <1>4, <1>5
<1> QED BY <1>1, <1>3, <1>5, <1>6

LEMMA SameDomain ==
  ASSUME NEW S, NEW T, NEW s \in Seq(S), NEW t \in Seq(T), Len(s) = Len(t)
  PROVE  DOMAIN s = DOMAIN t
BY LenProperties

(* A fresh list of counters.                                               *)
LEMMA ZerosIsList ==
  ASSUME NEW s \in Seq(Peer)
  PROVE  Zeros(s) \in Seq(0 .. MissCap) /\ Len(Zeros(s)) = Len(s)
<1> DEFINE counts == 0 .. MissCap
<1>1. Zeros(s) \in [DOMAIN s -> counts]
  BY DEF Zeros, MissCap
<1> HIDE DEF counts
<1>2. Zeros(s) \in Seq(counts) /\ Len(Zeros(s)) = Len(s)
  BY <1>1, ListOfList
<1> QED BY <1>2 DEF counts

-----------------------------------------------------------------------------
(* What does not touch the watch and its requests disturbs nothing.        *)
LEMMA Untouched ==
  ASSUME Watch, UNCHANGED <<status, handle, loop, call>>
  PROVE  Watch'
BY DEF Watch, LoopIsStoppable, StatusIsTrue, StartIsClean, CountersAgree, ThreeStrikes, Running

(* Nor does a request that comes, or that ends.                            *)
LEMMA RequestsUntouched ==
  ASSUME HeartbeatTypeOK, Watch, UNCHANGED <<status, handle, loop>>, NEW c \in Handler, NEW k \in Calls,
         call' = [call EXCEPT ![c] = k],
         call[c].pc # "registering", k.pc \notin {"starting", "registering"}
  PROVE  Watch'
<1>1. /\ call'[c] = k
      /\ \A d \in Handler : d # c => call'[d] = call[d]
  BY DEF HeartbeatTypeOK
<1>2. LoopIsStoppable'
  <2> SUFFICES ASSUME NEW l \in Loop, Running(l)
               PROVE  handle = l \/ \E d \in Handler : call'[d].pc = "registering" /\ call'[d].loop = l
    BY DEF LoopIsStoppable, Running
  <2>1. handle = l \/ \E d \in Handler : call[d].pc = "registering" /\ call[d].loop = l
    BY DEF Watch, LoopIsStoppable
  <2> QED BY <1>1, <2>1
<1>3. StartIsClean'
  BY <1>1 DEF Watch, StartIsClean, Running
<1>4. StatusIsTrue' /\ CountersAgree' /\ ThreeStrikes'
  BY DEF Watch, StatusIsTrue, CountersAgree, ThreeStrikes, Running
<1> QED BY <1>2, <1>3, <1>4 DEF Watch

LEMMA AsksKeeps ==
  ASSUME Inv, NEW c \in Handler, call[c].pc = "idle",
         NEW pc \in {"stopping", "serving"}, NEW q \in Server, NEW peers \in Seq(Peer),
         NEW goal \in {"boot", "fail", "none"}, NEW dist \in BOOLEAN,
         Asks(c, pc, q, peers, goal, dist),
         UNCHANGED <<alive, status, handle, loop>>, srv' \in [Server -> Servers]
  PROVE  Inv'
<1> DEFINE k == [pc |-> pc, server |-> q, peers |-> peers, goal |-> goal,
                 dist |-> dist, loop |-> NoLoop]
<1>1. k \in Calls
  BY DEF Calls, CallPcs
<1>2. call' = [call EXCEPT ![c] = k]
  BY DEF Asks
<1>3. HeartbeatTypeOK'
  BY <1>1, <1>2 DEF Inv, HeartbeatTypeOK
<1>4. k.pc \notin {"starting", "registering"}
  OBVIOUS
<1> HIDE DEF k
<1>5. Watch'
  BY <1>1, <1>2, <1>4, RequestsUntouched DEF Inv
<1> QED BY <1>3, <1>5 DEF Inv

-----------------------------------------------------------------------------
LEMMA RequestsKeep ==
  ASSUME Inv, NEW c \in Handler,
         \/ \E q \in ServePort : ServeLoad(c, q) \/ \E f \in Hostfile : ServeLoadDistributed(c, q, f)
         \/ ShareLoad(c)
         \/ \E f \in Hostfile : ShareLoadDistributed(c, f)
         \/ \E q \in Server : ServeStop(c, q)
  PROVE  Inv'
<1> USE DEF Server
<1>1. srv \in [Server -> Servers] /\ << >> \in Seq(Peer)
  BY DEF Inv, HeartbeatTypeOK
<1>2. \A f \in Hostfile : Peers(f) \in Seq(Peer)
  BY <1>1 DEF Peers
<1>3. ASSUME NEW q \in ServePort, ServeLoad(c, q) PROVE Inv'
  BY <1>1, <1>3, AsksKeeps DEF ServeLoad
<1>4. ASSUME NEW q \in ServePort, NEW f \in Hostfile, ServeLoadDistributed(c, q, f) PROVE Inv'
  BY <1>1, <1>2, <1>4, AsksKeeps DEF ServeLoadDistributed
<1>5. CASE ShareLoad(c)
  BY <1>1, <1>5, AsksKeeps DEF ShareLoad
<1>6. ASSUME NEW f \in Hostfile, ShareLoadDistributed(c, f) PROVE Inv'
  BY <1>1, <1>2, <1>6, AsksKeeps DEF ShareLoadDistributed
<1>7. ASSUME NEW q \in Server, ServeStop(c, q) PROVE Inv'
  <2>1. srv' \in [Server -> Servers]
    BY <1>1, <1>7 DEF ServeStop, Servers
  <2> QED BY <1>1, <1>7, <2>1, AsksKeeps DEF ServeStop
<1> QED BY <1>3, <1>4, <1>5, <1>6, <1>7

(* The stop leaves no loop running: each was the stored one, for none is   *)
(* being registered.                                                       *)
LEMMA StopsKeeps ==
  ASSUME OneAtATime, Inv, NEW c \in Handler, HeartbeatStops(c)
  PROVE  Inv'
<1> USE DEF HeartbeatStops, Inv
<1>1. NotSpawned \in Loops /\ NotSpawned.pc = "none"
  <2>1. << >> \in Seq(Peer) /\ << >> \in Seq(BOOLEAN) /\ << >> \in Seq(0 .. MissCap)
    OBVIOUS
  <2> QED BY <2>1 DEF NotSpawned, Loops, LoopPcs, Server
<1>2. HeartbeatTypeOK'
  <2>1. loop' \in [Loop -> Loops] /\ handle' \in Loop \cup {NoLoop}
    BY <1>1 DEF HeartbeatTypeOK
  <2>2. call' \in [Handler -> Calls]
    <3>1. PICK pc \in CallPcs : call' = [call EXCEPT ![c] = [@ EXCEPT !.pc = pc]]
      BY DEF CallPcs
    <3>2. call \in [Handler -> Calls]
      BY DEF HeartbeatTypeOK
    <3>3. [call[c] EXCEPT !.pc = pc] \in Calls
      BY <3>2 DEF Calls
    <3> HIDE DEF Inv, HeartbeatStops
    <3> QED BY <3>1, <3>2, <3>3
  <2>3. /\ status' \in [active : BOOLEAN, peers : Seq(Peer), misses : Seq(0 .. MissCap)]
        /\ Len(status'.misses) = Len(status'.peers) /\ ~status'.active
    BY DEF HeartbeatTypeOK
  <2> QED BY <2>1, <2>2, <2>3 DEF HeartbeatTypeOK
<1>3. \A l \in Loop : loop'[l].pc = "none"
  <2> SUFFICES ASSUME NEW l \in Loop, loop[l].pc # "none" PROVE l = handle
    BY <1>1 DEF HeartbeatTypeOK
  <2> QED BY DEF OneAtATime, Watch, LoopIsStoppable, Running
<1>4. \A d \in Handler : call'[d].pc # "registering"
  BY DEF HeartbeatTypeOK, OneAtATime
<1>5. Watch'
  BY <1>2, <1>3, <1>4
  DEF Watch, LoopIsStoppable, StatusIsTrue, StartIsClean, CountersAgree, ThreeStrikes, Running, HeartbeatTypeOK
<1> QED BY <1>2, <1>5

(* A request goes on, with the loop it has in hand.                        *)
LEMMA CallMoves ==
  ASSUME call \in [Handler -> Calls], NEW c \in Handler,
         NEW pc \in CallPcs, NEW l \in Loop \cup {NoLoop},
         call' = [call EXCEPT ![c].pc = pc, ![c].loop = l]
  PROVE  call' \in [Handler -> Calls] /\ call'[c].pc = pc /\ call'[c].loop = l
<1> DEFINE k == [call[c] EXCEPT !.pc = pc, !.loop = l]
<1>1. k \in Calls /\ k.pc = pc /\ k.loop = l
  BY DEF Calls
<1>2. call' = [call EXCEPT ![c] = k]
  OBVIOUS
<1> QED BY <1>1, <1>2

(* The start has a loop run that nobody else is in the way of.             *)
LEMMA StartsKeeps ==
  ASSUME OneAtATime, Inv, NEW c \in Handler, HeartbeatStarts(c)
  PROVE  Inv'
<1> USE DEF Inv
<1>1. PICK l \in Loop :
        /\ loop[l].pc = "none"
        /\ loop' = [loop EXCEPT ![l] = Spawned(call[c].peers)]
        /\ call' = [call EXCEPT ![c].pc = "registering", ![c].loop = l]
  BY DEF HeartbeatStarts
<1>2. call[c].peers \in Seq(Peer)
  BY DEF HeartbeatTypeOK, Calls
<1>3. Zeros(call[c].peers) \in Seq(0 .. MissCap) /\ Len(Zeros(call[c].peers)) = Len(call[c].peers)
  BY <1>2, ZerosIsList
<1> DEFINE new == Spawned(call[c].peers)
<1>4. loop' = [loop EXCEPT ![l] = new] /\ new \in Loops
  <2>1. << >> \in Seq(BOOLEAN)
    OBVIOUS
  <2> HIDE DEF Inv
  <2> QED BY <1>1, <1>2, <1>3, <2>1 DEF Spawned, Loops, LoopPcs, Server
<1>5. /\ status' = [active |-> TRUE, peers |-> call[c].peers, misses |-> Zeros(call[c].peers)]
      /\ handle' = handle /\ alive' = alive /\ srv' = srv /\ call[c].pc = "starting"
  BY DEF HeartbeatStarts
<1>6. /\ call'[c].pc = "registering" /\ call'[c].loop = l
      /\ call' \in [Handler -> Calls]
  BY <1>1, CallMoves DEF HeartbeatTypeOK, CallPcs
<1>7. HeartbeatTypeOK'
  BY <1>2, <1>3, <1>4, <1>5, <1>6 DEF HeartbeatTypeOK
<1>8. /\ loop'[l] = new
      /\ \A k \in Loop : k # l => loop'[k] = loop[k] /\ loop[k].pc = "none"
      /\ handle = NoLoop
  BY <1>4, <1>5 DEF Watch, StartIsClean, Running, HeartbeatTypeOK
<1>9. \A d \in Handler : d = c
  BY DEF OneAtATime
<1>10. Watch'
  BY <1>5, <1>6, <1>8, <1>9
  DEF Watch, LoopIsStoppable, StatusIsTrue, StartIsClean, CountersAgree, ThreeStrikes, Running, Spawned
<1> QED BY <1>7, <1>10

LEMMA RegistersKeeps ==
  ASSUME OneAtATime, Inv, NEW c \in Handler, HeartbeatRegisters(c)
  PROVE  Inv'
<1> USE DEF Inv, HeartbeatRegisters
<1>1. call[c].loop \in Loop
  BY DEF Watch, StartIsClean
<1>2. call' \in [Handler -> Calls] /\ call'[c].pc = "serving"
  BY CallMoves DEF HeartbeatTypeOK, CallPcs
<1>3. HeartbeatTypeOK'
  BY <1>1, <1>2 DEF HeartbeatTypeOK
<1>4. LoopIsStoppable' /\ StartIsClean'
  BY <1>1, <1>2 DEF OneAtATime, Watch, LoopIsStoppable, StartIsClean, Running
<1>5. StatusIsTrue' /\ CountersAgree' /\ ThreeStrikes'
  BY DEF Watch, StatusIsTrue, CountersAgree, ThreeStrikes, Running
<1> QED BY <1>3, <1>4, <1>5 DEF Watch

LEMMA ServesKeeps ==
  ASSUME Inv, NEW c \in Handler, Serves(c)
  PROVE  Inv'
<1> USE DEF Inv, Serves
<1>1. NoCall \in Calls /\ NoCall.pc = "idle"
  <2>1. << >> \in Seq(Peer)
    OBVIOUS
  <2> QED BY <2>1 DEF NoCall, Calls, CallPcs, Server
<1>2. HeartbeatTypeOK'
  <2>1. srv' \in [Server -> Servers]
    <3>1. srv \in [Server -> Servers] /\ call[c] \in Calls
      BY DEF HeartbeatTypeOK
    <3>2. \A state \in {"booting", "off"} :
            [srv EXCEPT ![call[c].server] = [state |-> state, dist |-> call[c].dist]] \in [Server -> Servers]
      BY <3>1 DEF Servers, Calls
    <3> QED BY <3>1, <3>2
  <2> QED BY <1>1, <2>1 DEF HeartbeatTypeOK
<1>3. Watch'
  BY <1>1, RequestsUntouched
<1> QED BY <1>2, <1>3

-----------------------------------------------------------------------------
(* The loop that runs is the only one: it is the stored one, or the one    *)
(* that is being registered while none is stored.                          *)
LEMMA OneRuns ==
  ASSUME OneAtATime, Watch
  PROVE  \A k, l \in Loop : Running(k) /\ Running(l) => k = l
BY DEF OneAtATime, Watch, LoopIsStoppable, StartIsClean

LEMMA PingsKeeps ==
  ASSUME Inv, NEW l \in Loop, Pings(l)
  PROVE  Inv'
<1>1. PICK results \in [DOMAIN loop[l].peers -> BOOLEAN] :
        loop' = [loop EXCEPT ![l].pc = "pinged", ![l].results = results]
  BY DEF Pings
<1>2. loop[l].pc = "sleeping" /\ UNCHANGED <<alive, status, handle, call, srv>>
  BY DEF Pings
<1>3. loop \in [Loop -> Loops] /\ loop[l] \in Loops
  BY DEF Inv, HeartbeatTypeOK
<1>4. results \in Seq(BOOLEAN)
  <2>1. loop[l].peers \in Seq(Peer)
    BY <1>3 DEF Loops
  <2> QED BY <2>1, ListOfList
<1> DEFINE new == [loop[l] EXCEPT !.pc = "pinged", !.results = results]
<1>5. /\ new \in Loops /\ new.pc = "pinged" /\ new.results = results
      /\ new.peers = loop[l].peers /\ new.strikes = loop[l].strikes
  BY <1>3, <1>4 DEF Loops, LoopPcs
<1>6. loop' = [loop EXCEPT ![l] = new]
  BY <1>1, <1>3
<1> HIDE DEF new
<1>7. HeartbeatTypeOK'
  BY <1>2, <1>3, <1>5, <1>6 DEF Inv, HeartbeatTypeOK
<1>8. loop'[l] = new /\ \A k \in Loop : k # l => loop'[k] = loop[k]
  BY <1>3, <1>6
<1>9. Watch'
  BY <1>2, <1>5, <1>8
  DEF Inv, Watch, LoopIsStoppable, StatusIsTrue, StartIsClean, CountersAgree, ThreeStrikes, Running
<1> QED BY <1>7, <1>9 DEF Inv

(* The misses of the shared status become those the loop has seen, for it  *)
(* finds its own peers there.                                              *)
LEMMA CountsAlike ==
  ASSUME Inv, NEW l \in Loop, loop[l].pc = "pinged"
  PROVE  /\ Counted(l) = Struck(l)
         /\ Counted(l) \in Seq(0 .. MissCap)
         /\ Len(Counted(l)) = Len(status.peers)
         /\ Mine(l) \subseteq DOMAIN Struck(l)
<1>1. /\ loop[l].peers \in Seq(Peer) /\ loop[l].strikes \in Seq(0 .. MissCap)
      /\ loop[l].results \in Seq(BOOLEAN)
  BY DEF Inv, HeartbeatTypeOK, Loops
<1>2. /\ status.peers \in Seq(Peer) /\ status.misses \in Seq(0 .. MissCap)
      /\ Len(status.misses) = Len(status.peers)
  BY DEF Inv, HeartbeatTypeOK
<1>3. /\ status.peers = loop[l].peers /\ status.misses = loop[l].strikes
      /\ DOMAIN loop[l].results = DOMAIN loop[l].peers
  BY DEF Inv, Watch, CountersAgree, Running
<1>4. DOMAIN status.misses = DOMAIN loop[l].peers
  BY <1>2, <1>3, SameDomain
<1>5. Mine(l) = DOMAIN status.misses
  BY <1>3, <1>4 DEF Mine
<1>6. Counted(l) = Struck(l)
  BY <1>3, <1>4, <1>5 DEF Counted, Struck
<1>7. \A i \in DOMAIN status.misses : status.misses[i] \in 0 .. MissCap
  BY <1>2, ElementOfSeq, LenProperties
<1> DEFINE counts == 0 .. MissCap
<1>8. Counted(l) \in [DOMAIN status.misses -> counts]
  BY <1>7 DEF Counted, Bump, MissCap
<1> HIDE DEF counts
<1>9. status.misses \in Seq(counts)
  BY <1>2 DEF counts
<1>10. Counted(l) \in Seq(counts) /\ Len(Counted(l)) = Len(status.misses)
  BY <1>8, <1>9, ListOfList
<1> QED BY <1>2, <1>5, <1>6, <1>8, <1>10 DEF counts

LEMMA CountsKeeps ==
  ASSUME OneAtATime, Inv, NEW l \in Loop, Counts(l)
  PROVE  Inv'
<1>1. loop[l].pc = "pinged" /\ UNCHANGED <<alive, handle, call, srv>>
  BY DEF Counts
<1>2. /\ Counted(l) = Struck(l) /\ Counted(l) \in Seq(0 .. MissCap)
      /\ Len(Counted(l)) = Len(status.peers) /\ Mine(l) \subseteq DOMAIN Struck(l)
  BY <1>1, CountsAlike
<1>3. PICK pc \in {"killing", "sleeping"}, todo \in {Server, {}} :
        /\ loop' = [loop EXCEPT ![l].pc = pc, ![l].todo = todo, ![l].results = << >>,
                               ![l].strikes = Struck(l)]
        /\ pc = "killing" => AnyDead(l)
  BY DEF Counts
<1>4. loop \in [Loop -> Loops] /\ loop[l] \in Loops
  BY DEF Inv, HeartbeatTypeOK
<1> DEFINE new == [loop[l] EXCEPT !.pc = pc, !.todo = todo, !.results = << >>, !.strikes = Struck(l)]
<1>5. loop' = [loop EXCEPT ![l] = new]
  BY <1>3, <1>4
<1>6. /\ new \in Loops /\ new.pc = pc /\ new.strikes = Struck(l) /\ new.peers = loop[l].peers
  <2>1. << >> \in Seq(BOOLEAN) /\ pc \in LoopPcs /\ todo \in SUBSET Server
    BY DEF LoopPcs
  <2> QED BY <1>2, <1>4, <2>1 DEF Loops
<1> HIDE DEF new
<1>7. /\ status' = [status EXCEPT !.misses = Counted(l)]
  BY DEF Counts
<1>8. /\ status'.active = status.active /\ status'.peers = status.peers
      /\ status'.misses = Counted(l)
      /\ status' \in [active : BOOLEAN, peers : Seq(Peer), misses : Seq(0 .. MissCap)]
  BY <1>2, <1>7 DEF Inv, HeartbeatTypeOK
<1>9. HeartbeatTypeOK'
  BY <1>1, <1>2, <1>4, <1>5, <1>6, <1>8 DEF Inv, HeartbeatTypeOK
<1>10. loop'[l] = new /\ \A k \in Loop : k # l => loop'[k] = loop[k] /\ ~Running(k)
  BY <1>1, <1>4, <1>5, OneRuns DEF Inv, Running
<1>11. ThreeStrikes'
  <2>1. pc = "killing" => \E i \in DOMAIN Struck(l) : Struck(l)[i] >= Threshold
    BY <1>2, <1>3 DEF AnyDead
  <2> QED BY <1>6, <1>10, <2>1 DEF ThreeStrikes, Running
<1>12. LoopIsStoppable' /\ StatusIsTrue' /\ StartIsClean'
  BY <1>1, <1>6, <1>8, <1>10
  DEF Inv, Watch, LoopIsStoppable, StatusIsTrue, StartIsClean, CountersAgree, Running
<1>13. CountersAgree'
  BY <1>1, <1>2, <1>6, <1>8, <1>10 DEF Inv, Watch, CountersAgree, Running
<1> QED BY <1>9, <1>11, <1>12, <1>13 DEF Inv, Watch

LEMMA EmergencyStopsKeeps ==
  ASSUME Inv, NEW l \in Loop, NEW q \in Server, EmergencyStops(l, q)
  PROVE  Inv'
<1>1. loop[l].pc = "killing" /\ UNCHANGED <<alive, status, handle, call>>
  BY DEF EmergencyStops
<1>2. loop \in [Loop -> Loops] /\ loop[l] \in Loops
  BY DEF Inv, HeartbeatTypeOK
<1>3. PICK new \in Loops :
        /\ loop' = [loop EXCEPT ![l] = new]
        /\ new.pc \in {"blocked", "closing", "killing"}
        /\ new.peers = loop[l].peers /\ new.strikes = loop[l].strikes
  <2>1. CASE srv[q].state = "hung"
    <3> DEFINE new == [loop[l] EXCEPT !.pc = "blocked", !.at = q]
    <3>1. /\ new \in Loops /\ new.pc = "blocked"
          /\ new.peers = loop[l].peers /\ new.strikes = loop[l].strikes
      BY <1>2 DEF Loops, LoopPcs
    <3>2. loop' = [loop EXCEPT ![l] = new]
      BY <1>2, <2>1 DEF EmergencyStops
    <3> HIDE DEF new
    <3> QED BY <3>1, <3>2
  <2>2. CASE srv[q].state # "hung"
    <3>1. PICK pc \in {"closing", "killing"} :
            loop' = [loop EXCEPT ![l].todo = @ \ {q}, ![l].pc = pc]
      BY <2>2 DEF EmergencyStops
    <3> DEFINE new == [loop[l] EXCEPT !.todo = @ \ {q}, !.pc = pc]
    <3>2. /\ new \in Loops /\ new.pc = pc
          /\ new.peers = loop[l].peers /\ new.strikes = loop[l].strikes
      BY <1>2 DEF Loops, LoopPcs
    <3>3. loop' = [loop EXCEPT ![l] = new]
      BY <1>2, <3>1
    <3> HIDE DEF new
    <3> QED BY <3>2, <3>3
  <2> QED BY <2>1, <2>2
<1>4. srv' \in [Server -> Servers]
  <2>1. srv \in [Server -> Servers]
    BY DEF Inv, HeartbeatTypeOK
  <2>2. PICK state \in {"off", "booting", "spared", "running", "hung"} :
          srv' = srv \/ srv' = [srv EXCEPT ![q].state = state]
    BY <2>1 DEF EmergencyStops, Servers
  <2> QED BY <2>1, <2>2 DEF Servers
<1>5. HeartbeatTypeOK'
  BY <1>1, <1>2, <1>3, <1>4 DEF Inv, HeartbeatTypeOK
<1>6. loop'[l] = new /\ \A k \in Loop : k # l => loop'[k] = loop[k]
  BY <1>2, <1>3
<1>7. Watch'
  BY <1>1, <1>3, <1>6
  DEF Inv, Watch, LoopIsStoppable, StatusIsTrue, StartIsClean, CountersAgree, ThreeStrikes, Running
<1> QED BY <1>5, <1>7 DEF Inv

LEMMA ClosesKeeps ==
  ASSUME OneAtATime, Inv, NEW l \in Loop, Closes(l)
  PROVE  Inv'
<1>1. /\ loop[l].pc = "closing" /\ UNCHANGED <<alive, handle, call, srv>>
      /\ status' = [status EXCEPT !.active = FALSE]
      /\ loop' = [loop EXCEPT ![l] = NotSpawned]
  BY DEF Closes
<1>2. NotSpawned \in Loops /\ NotSpawned.pc = "none"
  <2>1. << >> \in Seq(Peer) /\ << >> \in Seq(BOOLEAN) /\ << >> \in Seq(0 .. MissCap)
    OBVIOUS
  <2> QED BY <2>1 DEF NotSpawned, Loops, LoopPcs, Server
<1>3. HeartbeatTypeOK' /\ ~status'.active
  BY <1>1, <1>2 DEF Inv, HeartbeatTypeOK
<1>4. \A k \in Loop : loop'[k].pc = "none"
  BY <1>1, <1>2, OneRuns DEF Inv, HeartbeatTypeOK, Running
<1>5. Watch'
  BY <1>1, <1>3, <1>4
  DEF Inv, Watch, LoopIsStoppable, StatusIsTrue, StartIsClean, CountersAgree, ThreeStrikes, Running
<1> QED BY <1>3, <1>5 DEF Inv

LEMMA EnvironmentKeeps ==
  ASSUME Inv,
         \/ \E p \in Peer : Dies(p) \/ Returns(p)
         \/ \E q \in Server : Settles(q) \/ Hangs(q)
  PROVE  Inv'
<1>1. UNCHANGED <<status, handle, loop, call>>
  BY DEF Dies, Returns, Settles, Hangs
<1>2. Watch'
  BY <1>1, Untouched DEF Inv
<1>3. alive' \in [Peer -> BOOLEAN] /\ srv' \in [Server -> Servers]
  <2>1. alive \in [Peer -> BOOLEAN] /\ srv \in [Server -> Servers]
    BY DEF Inv, HeartbeatTypeOK
  <2>2. alive' = alive \/ \E p \in Peer, b \in BOOLEAN : alive' = [alive EXCEPT ![p] = b]
    BY DEF Dies, Returns, Settles, Hangs
  <2>3. \/ srv' = srv
        \/ \E q \in Server, s \in {"running", "off", "hung"} : srv' = [srv EXCEPT ![q].state = s]
    BY DEF Dies, Returns, Settles, Hangs
  <2> QED BY <2>1, <2>2, <2>3 DEF Servers
<1> QED BY <1>1, <1>2, <1>3 DEF Inv, HeartbeatTypeOK

-----------------------------------------------------------------------------
LEMMA InitInv == HeartbeatInit => Inv
<1> SUFFICES ASSUME HeartbeatInit PROVE Inv
  OBVIOUS
<1>1. << >> \in Seq(Peer) /\ << >> \in Seq(BOOLEAN) /\ << >> \in Seq(0 .. MissCap) /\ Len(<< >>) = 0
  OBVIOUS
<1>2. HeartbeatTypeOK
  BY <1>1 DEF HeartbeatInit, HeartbeatTypeOK, NotSpawned, NoCall, Loops, LoopPcs, Calls, CallPcs, Servers, Server
<1>3. Watch
  BY DEF HeartbeatInit, Watch, LoopIsStoppable, StatusIsTrue, StartIsClean, CountersAgree, ThreeStrikes,
         Running, NotSpawned, NoCall
<1> QED BY <1>2, <1>3 DEF Inv

LEMMA StepsKeepInv ==
  ASSUME OneAtATime, Inv, [HeartbeatNext]_watch
  PROVE  Inv'
<1>1. CASE UNCHANGED watch
  <2>1. HeartbeatTypeOK'
    BY <1>1 DEF watch, Inv, HeartbeatTypeOK
  <2>2. Watch'
    BY <1>1, Untouched DEF watch, Inv
  <2> QED BY <2>1, <2>2 DEF Inv
<1>2. ASSUME NEW c \in Handler,
             \/ \E q \in ServePort : ServeLoad(c, q) \/ \E f \in Hostfile : ServeLoadDistributed(c, q, f)
             \/ ShareLoad(c)
             \/ \E f \in Hostfile : ShareLoadDistributed(c, f)
             \/ \E q \in Server : ServeStop(c, q)
      PROVE  Inv'
  BY <1>2, RequestsKeep
<1>3. ASSUME NEW c \in Handler, CallStep(c) PROVE Inv'
  BY <1>3, StopsKeeps, StartsKeeps, RegistersKeeps, ServesKeeps DEF CallStep
<1>4. ASSUME NEW l \in Loop, LoopStep(l) PROVE Inv'
  BY <1>4, PingsKeeps, CountsKeeps, EmergencyStopsKeeps, ClosesKeeps DEF LoopStep
<1>5. CASE \/ \E p \in Peer : Dies(p) \/ Returns(p)
           \/ \E q \in Server : Settles(q) \/ Hangs(q)
  BY <1>5, EnvironmentKeeps
<1> QED BY <1>1, <1>2, <1>3, <1>4, <1>5 DEF HeartbeatNext

(* With one request at a time the watch is what the code's comments say    *)
(* ("Stop any existing heartbeat first"): the loop that runs is the one    *)
(* that the next stop or start will abort.                                 *)
THEOREM LoopsStayStoppable ==
  ASSUME OneAtATime
  PROVE  HeartbeatSpec => []LoopIsStoppable
<1>1. Inv /\ [HeartbeatNext]_watch => Inv'
  BY StepsKeepInv
<1>2. Inv => LoopIsStoppable
  BY DEF Inv, Watch
<1> QED BY InitInv, <1>1, <1>2, PTL DEF HeartbeatSpec

(* The status that the watchdog and /watchdog/peers report is true.        *)
THEOREM StatusStaysTrue ==
  ASSUME OneAtATime
  PROVE  HeartbeatSpec => []StatusIsTrue
<1>1. Inv /\ [HeartbeatNext]_watch => Inv'
  BY StepsKeepInv
<1>2. Inv => StatusIsTrue
  BY DEF Inv, Watch
<1> QED BY InitInv, <1>1, <1>2, PTL DEF HeartbeatSpec

(* No emergency stop without three misses in a row that the loop itself    *)
(* has seen, whatever pings get lost and whichever peers come and go.      *)
THEOREM EmergenciesAreEarned ==
  ASSUME OneAtATime
  PROVE  HeartbeatSpec => []ThreeStrikes
<1>1. Inv /\ [HeartbeatNext]_watch => Inv'
  BY StepsKeepInv
<1>2. Inv => ThreeStrikes
  BY DEF Inv, Watch
<1> QED BY InitInv, <1>1, <1>2, PTL DEF HeartbeatSpec
=============================================================================
