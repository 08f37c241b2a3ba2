---------------------------- MODULE TransferProofs ----------------------------
(***************************************************************************)
(* Proofs about Transfer: its types, and that a pipeline which is done has *)
(* had its files arrive.                                                   *)
(*                                                                         *)
(* The inductive invariant Inv has a part for each of the ways in which    *)
(* nodes act upon each other: the orders of the tasks for the workers      *)
(* (Ordered), the groups the workers keep (Grouped, Probed), what is under *)
(* way in the groups (Verified) and what the receivers have taken checksums*)
(* of (Summed).                                                            *)
(***************************************************************************)
EXTENDS Transfer, SequenceTheorems, TLAPS

USE TransferAssumption

Order  == End \X Commands
Busies == [cmd : Order, step : {"probe", "handshake", "operation"}]

(* A node's worker has the orders q before it, and is at w; R are the      *)
(* orders that the node's tasks wait for. Nobody waits for two.            *)
Absent(e, q, w) == (\A i \in DOMAIN q : q[i][1] # e) /\ (w # Idle => w.cmd[1] # e)

Desk(q, w, R) ==
    /\ q \in Seq(Order) /\ w \in {Idle} \cup Busies
    /\ \A i \in DOMAIN q : q[i] \in R
    /\ \A i, j \in DOMAIN q : q[i][1] = q[j][1] => i = j
    /\ w # Idle => w.cmd \in R /\ \A i \in DOMAIN q : q[i][1] # w.cmd[1]

LEMMA IdleIsNot == Idle \notin Busies
BY DEF Idle, Busies

LEMMA DeskAppends ==
  ASSUME NEW q, NEW w, NEW R, Desk(q, w, R), NEW o \in Order, o \in R, Absent(o[1], q, w)
  PROVE  Desk(Append(q, o), w, R)
<1>1. PICK n \in Nat : n = Len(q) /\ DOMAIN q = 1..n /\ q \in Seq(Order)
  BY LenProperties DEF Desk
<1>2. PICK s : s = Append(q, o)
  OBVIOUS
<1>3. PICK N \in Nat : N = n + 1
  OBVIOUS
<1>4. s \in Seq(Order) /\ Len(s) = N /\ s[N] = o /\ \A i \in 1..n : s[i] = q[i]
  BY <1>1, <1>2, <1>3, AppendProperties
<1>5. DOMAIN s = 1..N
  BY <1>4, LenProperties
<1>6. \A i \in 1..N : i \in 1..n \/ i = N
  BY <1>3
<1>7. \A i \in 1..n : q[i] \in R /\ q[i][1] # o[1]
  BY <1>1 DEF Desk, Absent
<1>8. \A i \in 1..N : s[i] \in R
  BY <1>4, <1>6, <1>7
<1>9. \A i, j \in 1..N : s[i][1] = s[j][1] => i = j
  <2> SUFFICES ASSUME NEW i \in 1..N, NEW j \in 1..N, s[i][1] = s[j][1] PROVE i = j
    OBVIOUS
  <2>1. CASE i \in 1..n /\ j \in 1..n
    BY <1>1, <1>4, <2>1 DEF Desk
  <2>2. CASE i = N \/ j = N
    BY <1>4, <1>6, <1>7, <2>2
  <2> QED BY <1>6, <2>1, <2>2
<1>10. w # Idle => \A i \in 1..N : s[i][1] # w.cmd[1]
  BY <1>1, <1>4, <1>6 DEF Desk, Absent
<1> QED BY <1>2, <1>4, <1>5, <1>8, <1>9, <1>10 DEF Desk

LEMMA DeskTakes ==
  ASSUME NEW q, NEW R, Desk(q, Idle, R), q # << >>, NEW w \in Busies, w.cmd = Head(q)
  PROVE  Head(q) \in R /\ Head(q) \in Order /\ Desk(Tail(q), w, R)
<1>1. q \in Seq(Order)
  BY DEF Desk
<1>2. PICK n \in Nat : n = Len(q) /\ DOMAIN q = 1..n
  BY <1>1, LenProperties
<1>3. PICK s : s = Tail(q)
  OBVIOUS
<1>4. n # 0
  BY <1>1, <1>2, EmptySeq
<1>5. PICK N \in Nat : N = n - 1
  BY <1>2, <1>4
<1>6. s \in Seq(Order) /\ Len(s) = N /\ \A i \in 1..N : s[i] = q[i + 1]
  BY <1>1, <1>2, <1>3, <1>5, HeadTailProperties
<1>7. DOMAIN s = 1..N
  BY <1>6, LenProperties
<1>8. 1 \in 1..n /\ \A i \in 1..N : (i + 1) \in 1..n /\ i + 1 # 1
  BY <1>4, <1>5
<1>9. w.cmd = q[1]
  OBVIOUS
<1>10. \A i \in 1..N : s[i] \in R /\ s[i][1] # q[1][1]
  BY <1>2, <1>6, <1>8 DEF Desk
<1>11. \A i, j \in 1..N : s[i][1] = s[j][1] => i = j
  <2> SUFFICES ASSUME NEW i \in 1..N, NEW j \in 1..N, s[i][1] = s[j][1] PROVE i = j
    OBVIOUS
  <2>1. PICK k \in 1..n, l \in 1..n : k = i + 1 /\ l = j + 1
    BY <1>8
  <2>2. k = l
    BY <1>2, <1>6, <2>1 DEF Desk
  <2> QED BY <2>1, <2>2
<1>12. q[1] \in R /\ q[1] \in Order
  BY <1>1, <1>2, <1>8, ElementOfSeq DEF Desk
<1> QED BY <1>3, <1>6, <1>7, <1>9, <1>10, <1>11, <1>12 DEF Desk

LEMMA DeskLets ==
  ASSUME NEW q, NEW w, NEW R, Desk(q, w, R), w # Idle
  PROVE  Desk(q, Idle, R) /\ Absent(w.cmd[1], q, Idle)
BY DEF Desk, Absent

LEMMA DeskChanges ==
  ASSUME NEW q, NEW w, NEW R, NEW S, NEW e, Desk(q, w, R), Absent(e, q, w),
         \A x \in R : x[1] # e => x \in S
  PROVE  Desk(q, w, S)
BY DEF Desk, Absent

LEMMA DeskSteps ==
  ASSUME NEW q, NEW w, NEW R, NEW v \in Busies, Desk(q, w, R), w # Idle, v.cmd = w.cmd
  PROVE  Desk(q, v, R)
BY DEF Desk

-----------------------------------------------------------------------------
(* The orders that the tasks of node n may wait for, and where they are.   *)
Side(rq, e) == IF e[2] = 0 THEN rq[e[1]].from ELSE rq[e[1]].to

Orders(rq, a, n) ==
    {x \in Order : /\ rq[x[1][1]] # None /\ Side(rq, x[1]) = n
                   /\ IF x[2] = "init" THEN a[x[1]] \in {"init", "told", "error"}
                      ELSE a[x[1]] = x[2]}

Ordered(rq, a, q, w) == \A n \in Node : Desk(q[n], w[n], Orders(rq, a, n))

(* Whose task is at another await has no order anywhere.                   *)
LEMMA NotWaiting ==
  ASSUME NEW rq, NEW a, NEW q, NEW w, Ordered(rq, a, q, w), NEW e,
         a[e] \in {"off", "opened", "failed", "done", "dead"} \/ rq[e[1]] = None
  PROVE  \A n \in Node : Absent(e, q[n], w[n])
<1> SUFFICES ASSUME NEW n \in Node PROVE Absent(e, q[n], w[n])
  OBVIOUS
<1>1. \A x \in Orders(rq, a, n) : x[1] # e
  BY DEF Orders, Order, Commands
<1>2. Desk(q[n], w[n], Orders(rq, a, n))
  BY DEF Ordered
<1> QED BY <1>1, <1>2 DEF Desk, Absent

LEMMA OrderIsThere ==
  ASSUME NEW rq, NEW a, NEW q, NEW w, Ordered(rq, a, q, w), NEW n \in Node, w[n] # Idle
  PROVE  /\ w[n] \in Busies /\ w[n].cmd \in Orders(rq, a, n) /\ w[n].cmd \in Order
         /\ Absent(w[n].cmd[1], q[n], Idle)
         /\ \A k \in Node : k # n => Absent(w[n].cmd[1], q[k], w[k])
<1>1. \A k \in Node : Desk(q[k], w[k], Orders(rq, a, k))
  BY DEF Ordered
<1>2. w[n] \in Busies /\ w[n].cmd \in Orders(rq, a, n) /\ w[n].cmd \in Order
      /\ Absent(w[n].cmd[1], q[n], Idle)
  BY <1>1 DEF Desk, Absent, Orders
<1>3. ASSUME NEW k \in Node, k # n PROVE Absent(w[n].cmd[1], q[k], w[k])
  <2>1. \A x \in Orders(rq, a, k) : Side(rq, x[1]) # n
    BY <1>3 DEF Orders
  <2>2. Side(rq, w[n].cmd[1]) = n
    BY <1>2 DEF Orders
  <2> QED BY <1>1, <2>1, <2>2 DEF Desk, Absent
<1> QED BY <1>2, <1>3

(* The worker of n is done with an order; its side is at s from now on, and*)
(* may have another order for it.                                          *)
LEMMA Turning ==
  ASSUME NEW rq, NEW a \in [End -> Stages], NEW q \in [Node -> Seq(Order)],
         NEW w \in [Node -> {Idle} \cup Busies], Ordered(rq, a, q, w),
         NEW n \in Node, w[n] # Idle, NEW e \in End, e = w[n].cmd[1], NEW s \in Stages,
         NEW p, p = q \/ /\ s \in {"manifest", "files", "verify"}
                         /\ p = [q EXCEPT ![n] = Append(q[n], <<e, s>>)]
  PROVE  Ordered(rq, [a EXCEPT ![e] = s], p, [w EXCEPT ![n] = Idle])
<1> DEFINE b == [a EXCEPT ![e] = s]
           v == [w EXCEPT ![n] = Idle]
<1>1. /\ w[n].cmd \in Orders(rq, a, n) /\ Absent(e, q[n], Idle)
      /\ \A k \in Node : k # n => Absent(e, q[k], w[k])
  BY OrderIsThere
<1>2. \A k \in Node : \A x \in Orders(rq, a, k) : x[1] # e => x \in Orders(rq, b, k)
  BY DEF Orders, Order
<1>3. rq[e[1]] # None /\ Side(rq, e) = n /\ b[e] = s /\ v[n] = Idle
  BY <1>1 DEF Orders
<1>4. \A k \in Node : k # n => p[k] = q[k] /\ v[k] = w[k]
  OBVIOUS
<1> HIDE DEF b, v
<1>5. ASSUME NEW k \in Node, k # n PROVE Desk(p[k], v[k], Orders(rq, b, k))
  BY <1>1, <1>2, <1>4, <1>5, DeskChanges DEF Ordered
<1>6. Desk(p[n], v[n], Orders(rq, b, n))
  <2>1. Desk(q[n], Idle, Orders(rq, a, n))
    BY DeskLets DEF Ordered
  <2>2. Desk(q[n], Idle, Orders(rq, b, n))
    BY <1>1, <1>2, <2>1, DeskChanges
  <2>3. CASE p = q
    BY <1>3, <2>2, <2>3
  <2>4. CASE s \in {"manifest", "files", "verify"} /\ p = [q EXCEPT ![n] = Append(q[n], <<e, s>>)]
    <3>1. PICK o : o = <<e, s>>
      OBVIOUS
    <3>2. o \in Order /\ o \in Orders(rq, b, n) /\ o[1] = e
      BY <1>3, <2>4, <3>1 DEF Orders, Order, Commands
    <3>3. Desk(Append(q[n], o), Idle, Orders(rq, b, n))
      BY <1>1, <2>2, <3>2, DeskAppends
    <3> QED BY <1>3, <2>4, <3>1, <3>3
  <2> QED BY <2>3, <2>4
<1>7. Ordered(rq, b, p, v)
  BY <1>5, <1>6 DEF Ordered
<1> QED BY <1>7 DEF b, v

(* A task that has no order goes on to s, and may have an order now. The   *)
(* others' requests stay what they are.                                    *)
LEMMA Going ==
  ASSUME NEW rq, NEW a \in [End -> Stages], NEW q \in [Node -> Seq(Order)],
         NEW w \in [Node -> {Idle} \cup Busies], Ordered(rq, a, q, w),
         NEW e \in End, \A k \in Node : Absent(e, q[k], w[k]), NEW s \in Stages,
         NEW r, \A f \in End : f # e /\ rq[f[1]] # None => r[f[1]] = rq[f[1]],
         NEW p, p = q \/ \E n \in Node, c \in Commands :
                            /\ p = [q EXCEPT ![n] = Append(q[n], <<e, c>>)]
                            /\ r[e[1]] # None /\ Side(r, e) = n /\ s = c
  PROVE  Ordered(r, [a EXCEPT ![e] = s], p, w)
<1> DEFINE b == [a EXCEPT ![e] = s]
<1>1. \A k \in Node : \A x \in Orders(rq, a, k) : x[1] # e => x \in Orders(r, b, k)
  <2> SUFFICES ASSUME NEW k \in Node, NEW x \in Orders(rq, a, k), x[1] # e
               PROVE  x \in Orders(r, b, k)
    OBVIOUS
  <2>1. x \in Order /\ x[1] \in End
    BY DEF Orders, Order
  <2>2. r[x[1][1]] = rq[x[1][1]] /\ b[x[1]] = a[x[1]]
    BY <2>1 DEF Orders
  <2> QED BY <2>1, <2>2 DEF Orders, Side
<1>2. b[e] = s
  OBVIOUS
<1> HIDE DEF b
<1>3. \A k \in Node : Desk(q[k], w[k], Orders(r, b, k))
  BY <1>1, DeskChanges DEF Ordered
<1>4. ASSUME NEW n \in Node, NEW c \in Commands, p = [q EXCEPT ![n] = Append(q[n], <<e, c>>)],
             r[e[1]] # None, Side(r, e) = n, s = c
      PROVE  Ordered(r, b, p, w)
  <2>1. PICK o : o = <<e, c>>
    OBVIOUS
  <2>2. o \in Order /\ o \in Orders(r, b, n) /\ o[1] = e
    BY <1>2, <1>4, <2>1 DEF Orders, Order
  <2>3. Desk(Append(q[n], o), w[n], Orders(r, b, n))
    BY <1>3, <2>2, DeskAppends
  <2>4. \A k \in Node : Desk(p[k], w[k], Orders(r, b, k))
    BY <1>3, <1>4, <2>1, <2>3
  <2> QED BY <2>4 DEF Ordered
<1>5. Ordered(r, b, p, w)
  BY <1>3, <1>4 DEF Ordered
<1> QED BY <1>5 DEF b

(* A task that has the order of the handshake goes on without its worker.  *)
LEMMA GoingAhead ==
  ASSUME NEW rq, NEW a \in [End -> Stages], NEW q, NEW w, Ordered(rq, a, q, w),
         NEW e \in End, a[e] = "init", NEW s \in {"told", "error"}
  PROVE  Ordered(rq, [a EXCEPT ![e] = s], q, w)
<1> DEFINE b == [a EXCEPT ![e] = s]
<1>1. \A k \in Node : Orders(rq, a, k) \subseteq Orders(rq, b, k)
  BY DEF Orders, Order, Commands
<1> HIDE DEF b
<1>2. \A k \in Node : Desk(q[k], w[k], Orders(rq, b, k))
  BY <1>1 DEF Desk, Ordered
<1>3. Ordered(rq, b, q, w)
  BY <1>2 DEF Ordered
<1> QED BY <1>3 DEF b

(* The worker of n, which has been idle, takes its first order.            *)
LEMMA TakingUp ==
  ASSUME NEW rq, NEW a, NEW q \in [Node -> Seq(Order)],
         NEW w \in [Node -> {Idle} \cup Busies], Ordered(rq, a, q, w),
         NEW n \in Node, w[n] = Idle, q[n] # << >>, NEW v \in Busies, v.cmd = Head(q[n])
  PROVE  /\ Head(q[n]) \in Orders(rq, a, n) /\ Head(q[n]) \in Order
         /\ [q EXCEPT ![n] = Tail(q[n])] \in [Node -> Seq(Order)]
         /\ Ordered(rq, a, [q EXCEPT ![n] = Tail(q[n])], [w EXCEPT ![n] = v])
<1>1. Desk(q[n], Idle, Orders(rq, a, n))
  BY DEF Ordered
<1>2. /\ Head(q[n]) \in Orders(rq, a, n) /\ Head(q[n]) \in Order
      /\ Desk(Tail(q[n]), v, Orders(rq, a, n))
  BY <1>1, DeskTakes
<1>3. Tail(q[n]) \in Seq(Order)
  BY <1>2 DEF Desk
<1>4. PICK p : p = [q EXCEPT ![n] = Tail(q[n])]
  OBVIOUS
<1>5. PICK u : u = [w EXCEPT ![n] = v]
  OBVIOUS
<1>6. p[n] = Tail(q[n]) /\ u[n] = v /\ \A k \in Node : k # n => p[k] = q[k] /\ u[k] = w[k]
  BY <1>4, <1>5
<1>7. Ordered(rq, a, p, u)
  BY <1>2, <1>6 DEF Ordered
<1> QED BY <1>2, <1>3, <1>4, <1>5, <1>7

LEMMA SteppingOn ==
  ASSUME NEW rq, NEW a, NEW q, NEW w \in [Node -> {Idle} \cup Busies], Ordered(rq, a, q, w),
         NEW n \in Node, w[n] # Idle, NEW v \in Busies, v.cmd = w[n].cmd
  PROVE  Ordered(rq, a, q, [w EXCEPT ![n] = v])
<1>1. PICK u : u = [w EXCEPT ![n] = v]
  OBVIOUS
<1>2. u[n] = v /\ \A k \in Node : k # n => u[k] = w[k]
  BY <1>1
<1>3. Ordered(rq, a, q, u)
  BY <1>2, DeskSteps DEF Ordered
<1> QED BY <1>1, <1>3

-----------------------------------------------------------------------------
(* The groups G that the workers keep: a group that a rank 0 holds for a   *)
(* peer was made for a transfer of that peer's; one that a rank 1 holds for*)
(* a model was made here for that model. Who probes has a group to probe.  *)
KeyIn(rq, e) == IF e[2] = 0 THEN rq[e[1]].to ELSE <<"accept", rq[e[1]].model>>

Grouped(rq, G) ==
    /\ G \in [Node -> [Key -> Transfer \cup {None}]]
    /\ \A n, k \in Node : G[n][k] # None =>
           rq[G[n][k]] # None /\ rq[G[n][k]].from = n /\ rq[G[n][k]].to = k
    /\ \A n \in Node, m \in Model : G[n][<<"accept", m>>] # None =>
           /\ rq[G[n][<<"accept", m>>]] # None /\ rq[G[n][<<"accept", m>>]].to = n
           /\ rq[G[n][<<"accept", m>>]].model = m

Probed(rq, G, w) ==
    \A n \in Node : w[n] # Idle /\ w[n].step = "probe" => G[n][KeyIn(rq, w[n].cmd[1])] # None

LEMMA AskTypes ==
  ASSUME NEW q \in Asks
  PROVE  /\ q \in Request /\ q # None /\ q.from \in Node /\ q.to \in Node /\ q.from # q.to
         /\ q.model \in Model /\ q.direction \in {"send", "recv"}
BY DEF TransferAssumption, Request

LEMMA KeyTypes ==
  ASSUME NEW rq \in [Transfer -> Asks \cup {None}], NEW e \in End, rq[e[1]] # None
  PROVE  /\ e[1] \in Transfer /\ e[2] \in Rank /\ e = <<e[1], e[2]>> /\ rq[e[1]] \in Asks
         /\ Side(rq, e) \in Node /\ KeyIn(rq, e) \in Key
BY AskTypes DEF End, Rank, Side, KeyIn, Key

LEMMA Regrouping ==
  ASSUME NEW rq \in [Transfer -> Asks \cup {None}], NEW G, Grouped(rq, G),
         NEW e \in End, rq[e[1]] # None, NEW v \in {None, e[1]}
  PROVE  Grouped(rq, [G EXCEPT ![Side(rq, e)][KeyIn(rq, e)] = v])
<1>1. PICK n \in Node : n = Side(rq, e)
  BY KeyTypes
<1>2. PICK k \in Key : k = KeyIn(rq, e)
  BY KeyTypes
<1>3. PICK H : H = [G EXCEPT ![n][k] = v]
  OBVIOUS
<1>4. v \in Transfer \cup {None}
  BY KeyTypes
<1>5. /\ H \in [Node -> [Key -> Transfer \cup {None}]] /\ H[n][k] = v
      /\ \A x \in Node, y \in Key : x # n \/ y # k => H[x][y] = G[x][y]
  BY <1>3, <1>4 DEF Grouped
<1>6. ASSUME NEW x \in Node, NEW y \in Node, H[x][y] # None
      PROVE  rq[H[x][y]] # None /\ rq[H[x][y]].from = x /\ rq[H[x][y]].to = y
  <2>1. CASE x = n /\ y = k
    <3>1. e[2] = 0
      BY <1>2, <2>1, KeyTypes, AskTypes DEF KeyIn
    <3> QED BY <1>1, <1>2, <1>5, <1>6, <2>1, <3>1 DEF KeyIn, Side
  <2>2. CASE x # n \/ y # k
    BY <1>5, <1>6, <2>2 DEF Grouped, Key
  <2> QED BY <2>1, <2>2
<1>7. ASSUME NEW x \in Node, NEW m \in Model, H[x][<<"accept", m>>] # None
      PROVE  /\ rq[H[x][<<"accept", m>>]] # None /\ rq[H[x][<<"accept", m>>]].to = x
             /\ rq[H[x][<<"accept", m>>]].model = m
  <2>1. CASE x = n /\ <<"accept", m>> = k
    <3>1. k \notin Node
      BY <2>1
    <3>2. e[2] # 0
      BY <1>2, <3>1, KeyTypes, AskTypes DEF KeyIn
    <3> QED BY <1>1, <1>2, <1>5, <1>7, <2>1, <3>2 DEF KeyIn, Side
  <2>2. CASE x # n \/ <<"accept", m>> # k
    BY <1>5, <1>7, <2>2 DEF Grouped, Key
  <2> QED BY <2>1, <2>2
<1>8. Grouped(rq, H)
  BY <1>5, <1>6, <1>7 DEF Grouped
<1> QED BY <1>1, <1>2, <1>3, <1>8

-----------------------------------------------------------------------------
(* What is under way on the wires W: the checksums that go to a rank 0 were*)
(* taken of the directory for which its group was made.                    *)
True(rq, g, m, H) == rq[g] # None /\ <<rq[g].to, rq[g].model, m.dir>> \in H

Verified(rq, W, H) ==
    /\ W \in [End -> Seq(Message)]
    /\ \A g \in Transfer : \A i \in DOMAIN W[<<g, 0>>] :
           W[<<g, 0>>][i].kind = "verify" => True(rq, g, W[<<g, 0>>][i], H)

LEMMA WireTails ==
  ASSUME NEW rq, NEW W, NEW H, Verified(rq, W, H), NEW x \in End, W[x] # << >>
  PROVE  Verified(rq, [W EXCEPT ![x] = Tail(W[x])], H)
<1>1. W[x] \in Seq(Message)
  BY DEF Verified
<1>2. PICK s : s = Tail(W[x])
  OBVIOUS
<1>3. PICK n \in Nat : n = Len(W[x]) /\ DOMAIN W[x] = 1..n
  BY <1>1, LenProperties
<1>4. n # 0
  BY <1>1, <1>3, EmptySeq
<1>5. PICK N \in Nat : N = n - 1
  BY <1>4
<1>6. s \in Seq(Message) /\ Len(s) = N /\ \A i \in 1..N : s[i] = W[x][i + 1]
  BY <1>1, <1>2, <1>3, <1>5, HeadTailProperties
<1>7. DOMAIN s = 1..N /\ \A i \in 1..N : (i + 1) \in 1..n
  BY <1>5, <1>6, LenProperties
<1>8. PICK V : V = [W EXCEPT ![x] = s]
  OBVIOUS
<1>9. V \in [End -> Seq(Message)] /\ V[x] = s /\ \A y \in End : y # x => V[y] = W[y]
  BY <1>6, <1>8 DEF Verified
<1>10. ASSUME NEW g \in Transfer, NEW i \in DOMAIN V[<<g, 0>>], V[<<g, 0>>][i].kind = "verify"
       PROVE  True(rq, g, V[<<g, 0>>][i], H)
  <2>1. <<g, 0>> \in End
    BY DEF End, Rank
  <2>2. CASE <<g, 0>> = x
    <3>1. i \in 1..N /\ V[<<g, 0>>][i] = W[x][i + 1] /\ (i + 1) \in 1..n
      BY <1>6, <1>7, <1>9, <1>10, <2>2
    <3> QED BY <1>3, <1>10, <2>2, <3>1 DEF Verified
  <2>3. CASE <<g, 0>> # x
    BY <1>9, <1>10, <2>1, <2>3 DEF Verified
  <2> QED BY <2>2, <2>3
<1>11. Verified(rq, V, H)
  BY <1>9, <1>10 DEF Verified
<1> QED BY <1>2, <1>8, <1>11

LEMMA WireAppends ==
  ASSUME NEW rq, NEW W, NEW H, Verified(rq, W, H), NEW x \in End, NEW m \in Message,
         x[2] = 0 /\ m.kind = "verify" => True(rq, x[1], m, H)
  PROVE  Verified(rq, [W EXCEPT ![x] = Append(W[x], m)], H)
<1>1. W[x] \in Seq(Message)
  BY DEF Verified
<1>2. PICK s : s = Append(W[x], m)
  OBVIOUS
<1>3. PICK n \in Nat : n = Len(W[x]) /\ DOMAIN W[x] = 1..n
  BY <1>1, LenProperties
<1>5. PICK N \in Nat : N = n + 1
  OBVIOUS
<1>6. s \in Seq(Message) /\ Len(s) = N /\ s[N] = m /\ \A i \in 1..n : s[i] = W[x][i]
  BY <1>1, <1>2, <1>3, <1>5, AppendProperties
<1>7. DOMAIN s = 1..N /\ \A i \in 1..N : i \in 1..n \/ i = N
  BY <1>5, <1>6, LenProperties
<1>8. PICK V : V = [W EXCEPT ![x] = s]
  OBVIOUS
<1>9. V \in [End -> Seq(Message)] /\ V[x] = s /\ \A y \in End : y # x => V[y] = W[y]
  BY <1>6, <1>8 DEF Verified
<1>10. ASSUME NEW g \in Transfer, NEW i \in DOMAIN V[<<g, 0>>], V[<<g, 0>>][i].kind = "verify"
       PROVE  True(rq, g, V[<<g, 0>>][i], H)
  <2>1. <<g, 0>> \in End
    BY DEF End, Rank
  <2>2. CASE <<g, 0>> = x /\ i = N
    <3>1. x[1] = g /\ x[2] = 0
      BY <2>2
    <3> QED BY <1>6, <1>9, <1>10, <2>2, <3>1
  <2>3. CASE <<g, 0>> = x /\ i # N
    <3>1. i \in 1..n /\ V[<<g, 0>>][i] = W[x][i]
      BY <1>6, <1>7, <1>9, <1>10, <2>3
    <3> QED BY <1>3, <1>10, <2>3, <3>1 DEF Verified
  <2>4. CASE <<g, 0>> # x
    BY <1>9, <1>10, <2>1, <2>4 DEF Verified
  <2> QED BY <2>2, <2>3, <2>4
<1>11. Verified(rq, V, H)
  BY <1>9, <1>10 DEF Verified
<1> QED BY <1>2, <1>8, <1>11

LEMMA HashedGrows ==
  ASSUME NEW rq, NEW W, NEW H, Verified(rq, W, H), NEW K, H \subseteq K
  PROVE  Verified(rq, W, K)
BY DEF Verified, True

-----------------------------------------------------------------------------
(* The invariant.                                                          *)
Control ==
    /\ req \in [Transfer -> Asks \cup {None}]
    /\ at \in [End -> Stages]
    /\ queue \in [Node -> Seq(Order)]
    /\ work \in [Node -> {Idle} \cup Busies]
    /\ Ordered(req, at, queue, work)
    /\ \A e \in End : at[e] # "off" => req[e[1]] # None
    /\ \A e \in End : e[2] = 0 /\ at[e] \in {"files", "verify", "done"} => IsSender(e)

Files_ ==
    /\ disk \in [Node -> [Model -> Directory]]
    /\ mem \in [End -> Directory]
    /\ hashed \subseteq Node \X Model \X Directory

(* A receiver that answers with checksums has taken them.                  *)
Summed ==
    \A e \in End : at[e] = "verify" /\ ~IsSender(e)
                   => <<Side(req, e), req[e[1]].model, mem[e]>> \in hashed

Inv ==
    /\ Control /\ Grouped(req, groups) /\ Probed(req, groups, work)
    /\ Verified(req, wire, hashed) /\ ghosts \in [End -> Nat] /\ lingers \subseteq End
    /\ Files_ /\ Summed

(* A worker at an order: whose, and with which group.                      *)
LEMMA AtWork ==
  ASSUME Inv, NEW n \in Node, work[n] # Idle, NEW e, NEW c,
         e = work[n].cmd[1], c = work[n].cmd[2]
  PROVE  /\ e \in End /\ c \in Commands /\ e[1] \in Transfer /\ e[2] \in {0, 1}
         /\ req[e[1]] \in Asks /\ req[e[1]] # None
         /\ NodeOf(e) = n /\ Side(req, e) = n /\ KeyOf(e) \in Key /\ KeyOf(e) = KeyIn(req, e)
         /\ c = "init" => at[e] \in {"init", "told", "error"}
         /\ c # "init" => at[e] = c
         /\ groups[n][KeyOf(e)] \in Transfer \cup {None}
<1>1. work[n].cmd \in Orders(req, at, n) /\ work[n].cmd \in Order
  BY OrderIsThere DEF Inv, Control
<1>2. e \in End /\ c \in Commands /\ req[e[1]] # None /\ Side(req, e) = n
      /\ IF c = "init" THEN at[e] \in {"init", "told", "error"} ELSE at[e] = c
  BY <1>1 DEF Orders, Order
<1>3. /\ e[1] \in Transfer /\ e[2] \in Rank /\ req[e[1]] \in Asks /\ KeyIn(req, e) \in Key
  BY <1>2, KeyTypes DEF Inv, Control
<1>4. NodeOf(e) = n /\ KeyOf(e) = KeyIn(req, e)
  BY <1>2 DEF NodeOf, KeyOf, Side, KeyIn
<1>5. groups[n][KeyOf(e)] \in Transfer \cup {None}
  BY <1>3, <1>4 DEF Inv, Grouped
<1> QED BY <1>2, <1>3, <1>4, <1>5 DEF Rank

(* The group that a side holds is one of its own node's.                   *)
Holds(n, e, g) ==
    work[n] # Idle /\ e = work[n].cmd[1] /\ g = groups[n][KeyOf(e)] /\ g # None

LEMMA HeldGroup ==
  ASSUME Inv, NEW n \in Node, NEW e, NEW g, Holds(n, e, g)
  PROVE  g \in Transfer /\ Held(e) \in End /\ <<g, 0>> \in End
<1>1. /\ e \in End /\ e[2] \in {0, 1} /\ NodeOf(e) = n
      /\ g \in Transfer /\ g = groups[n][KeyOf(e)]
  BY AtWork DEF Holds
<1> QED BY <1>1 DEF Held, End, Rank

LEMMA HeldByAsker ==
  ASSUME Inv, NEW n \in Node, NEW e, NEW g, Holds(n, e, g), e[2] = 0
  PROVE  req[g] # None /\ req[g].from = n /\ req[g].to = req[e[1]].to
<1>1. req[e[1]] \in Asks /\ g = groups[n][KeyOf(e)] /\ g # None
  BY AtWork DEF Holds
<1>2. PICK k \in Node : k = req[e[1]].to
  BY <1>1, AskTypes
<1>3. KeyOf(e) = k
  BY <1>2 DEF KeyOf
<1> QED BY <1>1, <1>2, <1>3 DEF Inv, Grouped

LEMMA HeldByAccepter ==
  ASSUME Inv, NEW n \in Node, NEW e, NEW g, Holds(n, e, g), e[2] = 1
  PROVE  req[g] # None /\ req[g].to = n /\ req[g].model = req[e[1]].model
<1>1. req[e[1]] \in Asks /\ g = groups[n][KeyOf(e)] /\ g # None
  BY AtWork DEF Holds
<1>2. PICK m \in Model : m = req[e[1]].model
  BY <1>1, AskTypes
<1>3. KeyOf(e) = <<"accept", m>>
  BY <1>2 DEF KeyOf
<1> QED BY <1>1, <1>2, <1>3 DEF Inv, Grouped

(* An order is done with: the side is at s.                                *)
Turned(n, e, s) ==
    /\ work' = [work EXCEPT ![n] = Idle] /\ at' = [at EXCEPT ![e] = s]
    /\ queue' = queue \/ /\ s \in {"manifest", "files", "verify"}
                         /\ queue' = [queue EXCEPT ![n] = Append(queue[n], <<e, s>>)]
    /\ UNCHANGED req

LEMMA TurnControl ==
  ASSUME Inv, NEW n \in Node, work[n] # Idle, NEW e, e = work[n].cmd[1], NEW s \in Stages,
         Turned(n, e, s), e[2] = 0 /\ s \in {"files", "verify", "done"} => IsSender(e)
  PROVE  Control'
<1>1. e \in End /\ req[e[1]] # None
  BY AtWork
<1>2. Ordered(req, at, queue, work)' /\ req' = req
  <2>1. PICK p : p = queue'
    OBVIOUS
  <2>2. p = queue \/ /\ s \in {"manifest", "files", "verify"}
                     /\ p = [queue EXCEPT ![n] = Append(queue[n], <<e, s>>)]
    BY <2>1 DEF Turned
  <2>3. Ordered(req, [at EXCEPT ![e] = s], p, [work EXCEPT ![n] = Idle])
    BY <1>1, <2>2, Turning DEF Inv, Control
  <2> QED BY <2>1, <2>3 DEF Turned
<1>3. at' \in [End -> Stages] /\ work' \in [Node -> {Idle} \cup Busies]
  BY <1>1 DEF Turned, Inv, Control
<1>4. queue' \in [Node -> Seq(Order)]
  <2>1. CASE queue' = queue
    BY <2>1 DEF Inv, Control
  <2>2. CASE s \in {"manifest", "files", "verify"}
             /\ queue' = [queue EXCEPT ![n] = Append(queue[n], <<e, s>>)]
    <3>1. <<e, s>> \in Order /\ queue[n] \in Seq(Order)
      BY <1>1, <2>2 DEF Order, Commands, Inv, Control
    <3>2. Append(queue[n], <<e, s>>) \in Seq(Order)
      BY <3>1, AppendProperties
    <3> QED BY <2>2, <3>2 DEF Inv, Control
  <2> QED BY <2>1, <2>2 DEF Turned
<1>5. \A f \in End : f # e => at'[f] = at[f]
  BY <1>1 DEF Turned, Inv, Control
<1>6. at'[e] = s
  BY <1>1 DEF Turned, Inv, Control
<1>7. (\A f \in End : at[f] # "off" => req[f[1]] # None)'
  BY <1>1, <1>2, <1>5 DEF Inv, Control
<1>8. (\A f \in End : f[2] = 0 /\ at[f] \in {"files", "verify", "done"} => IsSender(f))'
  <2> SUFFICES ASSUME NEW f \in End, f[2] = 0, at'[f] \in {"files", "verify", "done"}
               PROVE  IsSender(f)'
    OBVIOUS
  <2>1. IsSender(f)' = IsSender(f)
    BY <1>2 DEF IsSender
  <2> QED BY <1>5, <1>6, <2>1 DEF Inv, Control
<1> QED BY <1>2, <1>3, <1>4, <1>7, <1>8 DEF Inv, Control

LEMMA TurnKeeps ==
  ASSUME Inv, NEW n \in Node, work[n] # Idle, NEW e, e = work[n].cmd[1], NEW s \in Stages,
         Turned(n, e, s), e[2] = 0 /\ s \in {"files", "verify", "done"} => IsSender(e),
         Grouped(req, groups'), \A k \in Node : k # n => groups'[k] = groups[k],
         Verified(req, wire', hashed'), ghosts' \in [End -> Nat], lingers' \subseteq End,
         Files_', hashed \subseteq hashed', \A f \in End : f # e => mem'[f] = mem[f],
         s = "verify" /\ ~IsSender(e) => <<n, req[e[1]].model, mem'[e]>> \in hashed'
  PROVE  Inv'
<1>1. e \in End /\ Side(req, e) = n
  BY AtWork
<1>2. req' = req /\ at'[e] = s /\ \A f \in End : f # e => at'[f] = at[f]
  BY <1>1 DEF Turned, Inv, Control
<1>3. Control'
  BY TurnControl
<1>4. Grouped(req, groups)' /\ Verified(req, wire, hashed)'
  BY <1>2
<1>5. Probed(req, groups, work)'
  <2>1. work'[n] = Idle /\ \A k \in Node : k # n => work'[k] = work[k]
    BY DEF Turned, Inv, Control
  <2> QED BY <1>2, <2>1 DEF Probed, Inv
<1>6. Summed'
  <2> SUFFICES ASSUME NEW f \in End, at'[f] = "verify", ~IsSender(f)'
               PROVE  <<Side(req', f), req'[f[1]].model, mem'[f]>> \in hashed'
    BY DEF Summed
  <2>1. ~IsSender(f)
    BY <1>2 DEF IsSender
  <2> QED BY <1>1, <1>2, <2>1 DEF Inv, Summed
<1> QED BY <1>3, <1>4, <1>5, <1>6 DEF Inv

-----------------------------------------------------------------------------
(* The steps of a worker that is at the order c of the side e.             *)
LEMMA BusyIs ==
  ASSUME Inv, NEW n \in Node, NEW e, NEW c, NEW st, Busy(n, e, c, st), st # "idle"
  PROVE  work[n] # Idle /\ e = work[n].cmd[1] /\ c = work[n].cmd[2] /\ work[n].step = st
BY DEF Busy, Idle

LEMMA RepliesTurn ==
  ASSUME Inv, NEW n \in Node, NEW e, NEW st, Busy(n, e, "init", st), st # "idle",
         NEW ok \in BOOLEAN, Replies(n, e, ok), UNCHANGED req
  PROVE  \E s \in {"init", "told", "error", "opened", "failed", "manifest"} :
            Turned(n, e, s)
<1>1. e \in End /\ at[e] \in {"init", "told", "error"} /\ e[2] \in {0, 1}
  BY BusyIs, AtWork
<1>2. PICK s : s = Opened(e, ok)
  OBVIOUS
<1>3. s \in {"init", "told", "error", "opened", "failed", "manifest"}
  BY <1>1, <1>2 DEF Opened
<1>4. Turned(n, e, s)
  BY <1>2 DEF Turned, Replies, Leaves, Moves
<1> QED BY <1>3, <1>4

(* Steps at which nothing is learnt of files.                              *)
LEMMA QuietTurn ==
  ASSUME Inv, NEW n \in Node, work[n] # Idle, NEW e, e = work[n].cmd[1],
         NEW s \in {"init", "told", "error", "opened", "failed", "manifest", "dead"},
         Turned(n, e, s), Grouped(req, groups'), \A k \in Node : k # n => groups'[k] = groups[k],
         Verified(req, wire', hashed), ghosts' \in [End -> Nat], lingers' \subseteq End,
         UNCHANGED <<disk, mem, hashed>>
  PROVE  Inv'
<1>1. s \in Stages /\ s \notin {"files", "verify", "done"}
  BY DEF Stages
<1>2. Files_'
  BY DEF Inv, Files_
<1> QED BY <1>1, <1>2, TurnKeeps

LEMMA Handshaking ==
  ASSUME Inv, NEW n \in Node, NEW e,
         ProbeSucceeds(n, e) \/ MeetsNobody(n, e) \/ HandshakeFails(n, e)
  PROVE  Inv'
<1>1. CASE ProbeSucceeds(n, e)
  <2>1. /\ work[n] # Idle /\ e = work[n].cmd[1] /\ e \in End /\ NodeOf(e) = n /\ e[2] \in {0, 1}
        /\ "init" = work[n].cmd[2] /\ work[n].step = "probe" /\ KeyOf(e) = KeyIn(req, e)
    BY <1>1, BusyIs, AtWork DEF ProbeSucceeds
  <2>2. PICK s \in {"init", "told", "error", "opened", "failed", "manifest"} : Turned(n, e, s)
    BY <1>1, RepliesTurn DEF ProbeSucceeds
  <2>3. PICK g : g = groups[n][KeyOf(e)]
    OBVIOUS
  <2>4. g # None
    BY <2>1, <2>3 DEF Inv, Probed
  <2>5. Held(e) \in End /\ Held(e)[1] = g /\ <<g, 0>> \in End
    <3>1. Inv /\ n \in Node /\ Holds(n, e, g)
      BY <2>1, <2>3, <2>4 DEF Holds
    <3>2. Held(e) \in End
      BY ONLY <3>1, HeldGroup, Zenon
    <3>3. Held(e)[1] = g
      BY <2>1, <2>3 DEF Held
    <3>4. <<g, 0>> \in End
      BY ONLY <3>1, HeldGroup, Zenon
    <3> QED BY <3>2, <3>3, <3>4
  <2>6. wire[Held(e)] # << >>
    BY <1>1 DEF ProbeSucceeds, Heard
  <2>7. PICK W : W = [wire EXCEPT ![Held(e)] = Tail(wire[Held(e)])]
    OBVIOUS
  <2>8. Verified(req, W, hashed)
    BY <2>5, <2>6, <2>7, WireTails DEF Inv
  <2>9. PICK m : m = [kind |-> "probe", dir |-> Empty]
    OBVIOUS
  <2>10. m \in Message /\ m.kind # "verify"
    BY <2>9 DEF Message, Empty, Directory, Broken, TransferAssumption
  <2>11. wire' = W \/ wire' = [W EXCEPT ![<<g, 0>>] = Append(W[<<g, 0>>], m)]
    BY <1>1, <2>5, <2>7, <2>9 DEF ProbeSucceeds
  <2>12. Verified(req, wire', hashed)
    BY <2>5, <2>8, <2>10, <2>11, WireAppends
  <2>13. UNCHANGED <<groups, ghosts, lingers, disk, mem, hashed>>
    BY <1>1 DEF ProbeSucceeds
  <2> QED BY <2>1, <2>2, <2>12, <2>13, QuietTurn DEF Inv
<1>2. CASE MeetsNobody(n, e)
  <2>1. /\ work[n] # Idle /\ e = work[n].cmd[1] /\ e \in End /\ NodeOf(e) = n /\ Side(req, e) = n
        /\ KeyOf(e) = KeyIn(req, e) /\ req[e[1]] # None
    BY <1>2, BusyIs, AtWork DEF MeetsNobody
  <2>2. PICK s \in {"init", "told", "error", "opened", "failed", "manifest"} : Turned(n, e, s)
    BY <1>2, RepliesTurn DEF MeetsNobody
  <2>3. groups' = [groups EXCEPT ![n][KeyIn(req, e)] = e[1]] /\ lingers' \subseteq End
    BY <1>2, <2>1 DEF MeetsNobody, Inv
  <2>4. Grouped(req, groups')
    BY <2>1, <2>3, Regrouping DEF Inv, Control
  <2>5. \A k \in Node : k # n => groups'[k] = groups[k]
    BY <2>3 DEF Inv, Grouped
  <2>6. UNCHANGED <<wire, ghosts, disk, mem, hashed>>
    BY <1>2 DEF MeetsNobody
  <2>7. Verified(req, wire', hashed) /\ ghosts' \in [End -> Nat] /\ UNCHANGED <<disk, mem, hashed>>
    BY <2>6 DEF Inv
  <2>8. Inv /\ n \in Node /\ work[n] # Idle /\ e = work[n].cmd[1] /\ Turned(n, e, s)
        /\ lingers' \subseteq End
    BY <2>1, <2>2, <2>3
  <2> QED BY ONLY <2>2, <2>4, <2>5, <2>7, <2>8, QuietTurn, Zenon
<1>3. CASE HandshakeFails(n, e)
  <2>1. work[n] # Idle /\ e = work[n].cmd[1] /\ e \in End
    BY <1>3, BusyIs, AtWork DEF HandshakeFails
  <2>2. PICK s \in {"init", "told", "error", "opened", "failed", "manifest"} : Turned(n, e, s)
    BY <1>3, RepliesTurn DEF HandshakeFails
  <2>3. lingers' \subseteq End /\ UNCHANGED <<groups, wire, ghosts, disk, mem, hashed>>
    BY <1>3, <2>1 DEF HandshakeFails, Inv
  <2>4. Verified(req, wire', hashed) /\ Grouped(req, groups')
    BY <2>3 DEF Inv
  <2> QED BY <2>1, <2>2, <2>3, <2>4, QuietTurn DEF Inv
<1> QED BY <1>1, <1>2, <1>3

LEMMA GhostsCount ==
  ASSUME Inv, NEW h, ghosts' = [ghosts EXCEPT ![h] = @ + 1]
  PROVE  ghosts' \in [End -> Nat]
<1>1. ghosts \in [End -> Nat]
  BY DEF Inv
<1>2. \A x \in End : ghosts[x] \in Nat /\ ghosts[x] + 1 \in Nat
  BY <1>1
<1> QED BY <1>1, <1>2

(* A probe in vain drops the group and goes over to the handshake.         *)
LEMMA Reprobing ==
  ASSUME Inv, NEW n \in Node, NEW e, ProbeFails(n, e)
  PROVE  Inv'
<1>1. /\ work[n] # Idle /\ e = work[n].cmd[1] /\ e \in End /\ NodeOf(e) = n /\ Side(req, e) = n
      /\ KeyOf(e) = KeyIn(req, e) /\ req[e[1]] # None /\ work[n].step = "probe"
  BY BusyIs, AtWork DEF ProbeFails
<1>2. PICK v : v = [work[n] EXCEPT !.step = "handshake"]
  OBVIOUS
<1>3. work' = [work EXCEPT ![n] = v]
  BY <1>2 DEF ProbeFails, Steps
<1>4. work[n] \in Busies
  BY <1>1 DEF Inv, Control
<1>5. v \in Busies /\ v.cmd = work[n].cmd /\ v.step = "handshake" /\ v # Idle
  BY <1>2, <1>4, IdleIsNot DEF Busies
<1>6. Ordered(req, at, queue, work')
  BY <1>1, <1>3, <1>5, SteppingOn DEF Inv, Control
<1>7. Control'
  <2>1. UNCHANGED <<req, at, queue>>
    BY DEF ProbeFails
  <2>2. work' \in [Node -> {Idle} \cup Busies]
    BY <1>3, <1>5 DEF Inv, Control
  <2>3. \A f : IsSender(f)' = IsSender(f)
    BY <2>1 DEF IsSender
  <2> QED BY <1>6, <2>1, <2>2, <2>3 DEF Inv, Control
<1>8. groups' = [groups EXCEPT ![n][KeyIn(req, e)] = None]
  BY <1>1 DEF ProbeFails
<1>9. Grouped(req, groups')
  BY <1>1, <1>8, Regrouping DEF Inv, Control
<1>10. Probed(req, groups', work')
  <2>1. \A k \in Node : k # n => groups'[k] = groups[k] /\ work'[k] = work[k]
    BY <1>3, <1>8 DEF Inv, Grouped, Control
  <2>2. work'[n] = v
    BY <1>3 DEF Inv, Control
  <2> QED BY <1>5, <2>1, <2>2 DEF Inv, Probed
<1>11. ghosts' \in [End -> Nat]
  BY GhostsCount DEF ProbeFails
<1>12. UNCHANGED <<req, at, wire, lingers, disk, mem, hashed>>
  BY DEF ProbeFails
<1>13. Summed' /\ Files_'
  BY <1>12 DEF Inv, Summed, Files_, IsSender
<1> QED BY <1>7, <1>9, <1>10, <1>11, <1>12, <1>13 DEF Inv

-----------------------------------------------------------------------------
(* The operations.                                                         *)
Operations == {"manifest", "files", "verify"}

LEMMA OperationIs ==
  ASSUME Inv, NEW n \in Node, NEW e, NEW c \in Operations, Busy(n, e, c, "operation")
  PROVE  /\ work[n] # Idle /\ e = work[n].cmd[1] /\ e \in End /\ e[2] \in {0, 1}
         /\ NodeOf(e) = n /\ Side(req, e) = n /\ at[e] = c /\ req[e[1]] # None
         /\ req[e[1]] \in Asks /\ req[e[1]].model \in Model
         /\ Dir(e) \in Directory /\ mem[e] \in Directory
         /\ Held(e)[1] = groups[n][KeyOf(e)] /\ Held(e)[2] = e[2]
<1>1. work[n] # Idle /\ e = work[n].cmd[1] /\ c = work[n].cmd[2] /\ c # "init"
  BY BusyIs DEF Operations
<1>2. /\ e \in End /\ e[2] \in {0, 1} /\ NodeOf(e) = n /\ Side(req, e) = n /\ at[e] = c
      /\ req[e[1]] # None /\ req[e[1]] \in Asks
  BY <1>1, AtWork
<1>3. req[e[1]].model \in Model
  BY <1>2, AskTypes
<1>4. Dir(e) \in Directory /\ mem[e] \in Directory
  BY <1>2, <1>3 DEF Inv, Files_, Dir
<1>5. Held(e)[1] = groups[n][KeyOf(e)] /\ Held(e)[2] = e[2]
  BY <1>2 DEF Held
<1> QED BY <1>1, <1>2, <1>3, <1>4, <1>5

LEMMA HoldsGroup ==
  ASSUME Inv, NEW n \in Node, NEW e, NEW c \in Operations, Busy(n, e, c, "operation"),
         Held(e)[1] # None
  PROVE  \E g \in Transfer :
            /\ Holds(n, e, g) /\ Held(e)[1] = g /\ Held(e) \in End /\ Other(Held(e)) \in End
            /\ Other(Held(e))[1] = g /\ Other(Held(e))[2] = 1 - e[2]
<1>1. /\ work[n] # Idle /\ e = work[n].cmd[1] /\ Held(e)[1] = groups[n][KeyOf(e)]
      /\ Held(e)[2] = e[2] /\ e[2] \in {0, 1}
  BY OperationIs
<1>2. PICK g : g = groups[n][KeyOf(e)]
  OBVIOUS
<1>3. Holds(n, e, g)
  BY <1>1, <1>2 DEF Holds
<1>4. g \in Transfer
  BY <1>3, HeldGroup, Zenon
<1>5. Held(e) \in End
  BY <1>3, HeldGroup, Zenon
<1>6. /\ Other(Held(e))[1] = g /\ Other(Held(e))[2] = 1 - e[2] /\ Other(Held(e)) \in End
  BY <1>1, <1>2, <1>4 DEF Other, End, Rank
<1> QED BY <1>1, <1>2, <1>3, <1>4, <1>5, <1>6

LEMMA GoesOnTurn ==
  ASSUME NEW n, NEW e, NEW c \in Operations, GoesOn(n, e, c), UNCHANGED req
  PROVE  Turned(n, e, After(c)) /\ After(c) \in Stages /\ After(c) \in {"files", "verify", "done"}
         /\ (After(c) = "verify" <=> c = "files")
BY DEF Turned, GoesOn, After, Leaves, Moves, Operations, Stages

LEMMA EndsTurn ==
  ASSUME NEW n, NEW e, NEW how, Ends(n, e, how), UNCHANGED req
  PROVE  Turned(n, e, how)
BY DEF Turned, Ends, Leaves, Moves

(* Who gives up has learnt nothing that the others could go by.            *)
LEMMA GivingUp ==
  ASSUME Inv, NEW n \in Node, NEW e, NEW c \in Operations, Busy(n, e, c, "operation"),
         Ends(n, e, "error") \/ Ends(n, e, "dead"), UNCHANGED <<req, groups, lingers, hashed>>,
         Verified(req, wire', hashed), ghosts' \in [End -> Nat], Files_',
         \A f \in End : f # e => mem'[f] = mem[f]
  PROVE  Inv'
<1>1. work[n] # Idle /\ e = work[n].cmd[1]
  BY OperationIs
<1>2. PICK s \in {"error", "dead"} : Turned(n, e, s)
  BY EndsTurn
<1>3. s \in Stages /\ s \notin {"files", "verify", "done"}
  BY DEF Stages
<1>4. Grouped(req, groups') /\ lingers' \subseteq End /\ hashed \subseteq hashed'
      /\ Verified(req, wire', hashed') /\ \A k \in Node : k # n => groups'[k] = groups[k]
  BY DEF Inv
<1> QED BY <1>1, <1>2, <1>3, <1>4, TurnKeeps

LEMMA FilesKept ==
  ASSUME Inv, UNCHANGED <<disk, mem, hashed>>
  PROVE  Files_' /\ \A f : mem'[f] = mem[f]
BY DEF Inv, Files_

LEMMA Remembering ==
  ASSUME Inv, NEW e \in End, NEW d \in Directory, Remembers(e, d), UNCHANGED <<disk, hashed>>
  PROVE  Files_' /\ mem'[e] = d /\ \A f \in End : f # e => mem'[f] = mem[f]
BY DEF Inv, Files_, Remembers

LEMMA NoGroup ==
  ASSUME Inv, NEW n \in Node, NEW e, NEW c \in Operations, FindsNoGroup(n, e, c)
  PROVE  Inv'
<1>1. /\ Busy(n, e, c, "operation") /\ Ends(n, e, "error")
      /\ UNCHANGED <<req, groups, wire, ghosts, lingers, disk, mem, hashed>>
  BY DEF FindsNoGroup, GivesUp
<1>2. Files_' /\ \A f : mem'[f] = mem[f]
  BY <1>1, FilesKept
<1>3. Verified(req, wire', hashed) /\ ghosts' \in [End -> Nat]
  BY <1>1 DEF Inv
<1> QED BY <1>1, <1>2, <1>3, GivingUp

LEMMA TimingOut ==
  ASSUME Inv, NEW n \in Node, NEW e, NEW c \in Operations, TimesOut(n, e, c)
  PROVE  Inv'
<1>1. /\ Busy(n, e, c, "operation") /\ Ends(n, e, "error")
      /\ UNCHANGED <<req, groups, wire, lingers, disk, mem, hashed>>
  BY DEF TimesOut, GivesUp
<1>2. Files_' /\ \A f : mem'[f] = mem[f]
  BY <1>1, FilesKept
<1>3. Verified(req, wire', hashed)
  BY <1>1 DEF Inv
<1>4. ghosts' \in [End -> Nat]
  BY GhostsCount DEF TimesOut
<1> QED BY <1>1, <1>2, <1>3, <1>4, GivingUp

LEMMA Saying ==
  ASSUME Inv, NEW e, NEW c \in Operations, Dir(e) \in Directory, mem[e] \in Directory,
         NEW d \in Contents(e, c)
  PROVE  d \in Directory /\ (c = "verify" => d = mem[e])
<1>1. CASE c \in {"manifest", "verify"}
  BY <1>1 DEF Contents
<1>2. CASE c = "files"
  <2>1. PICK v \in {Broken} \cup {Dir(e)[m] : m \in Model} :
           d = [m \in Model |-> IF Dir(e)[m] = mem[e][m] THEN mem[e][m] ELSE v]
    BY <1>2 DEF Contents
  <2>2. Broken \in 0..Broken
    BY DEF Broken, TransferAssumption
  <2>3. \A m \in Model : Dir(e)[m] \in 0..Broken /\ mem[e][m] \in 0..Broken
    BY DEF Directory
  <2>4. v \in 0..Broken
    BY <2>2, <2>3
  <2> QED BY <1>2, <2>1, <2>3, <2>4 DEF Directory
<1> QED BY <1>1, <1>2 DEF Operations

LEMMA Speaking ==
  ASSUME Inv, NEW n \in Node, NEW e, NEW c \in Operations, Speak(n, e, c)
  PROVE  Inv'
<1>1. /\ Busy(n, e, c, "operation") /\ Speaks(e, c) /\ Held(e)[1] # None
      /\ UNCHANGED <<req, groups, ghosts, lingers, disk, hashed>>
  BY DEF Speak
<1>2. /\ work[n] # Idle /\ e = work[n].cmd[1] /\ e \in End /\ e[2] \in {0, 1}
      /\ NodeOf(e) = n /\ Side(req, e) = n /\ at[e] = c
      /\ Dir(e) \in Directory /\ mem[e] \in Directory
  BY <1>1, OperationIs
<1>3. PICK g \in Transfer :
         /\ Holds(n, e, g) /\ Other(Held(e)) \in End /\ Other(Held(e))[1] = g
         /\ Other(Held(e))[2] = 1 - e[2]
  BY <1>1, HoldsGroup
<1>4. PICK d \in Contents(e, c) :
         \/ Puts(Other(Held(e)), c, d) /\ GoesOn(n, e, c)
         \/ Puts(Other(Held(e)), c, d) /\ GivesUp(n, e)
         \/ UNCHANGED wire /\ GivesUp(n, e)
  BY DEF Speak
<1>5. d \in Directory /\ (c = "verify" => d = mem[e])
  BY <1>2, Saying
<1>6. PICK m : m = [kind |-> c, dir |-> d]
  OBVIOUS
<1>7. m \in Message /\ m.kind = c /\ m.dir = d
  BY <1>5, <1>6 DEF Message, Operations, Commands
<1>8. Other(Held(e))[2] = 0 /\ m.kind = "verify" => True(req, g, m, hashed)
  <2> SUFFICES ASSUME Other(Held(e))[2] = 0, c = "verify" PROVE True(req, g, m, hashed)
    BY <1>7
  <2>1. e[2] = 1
    BY <1>2, <1>3
  <2>2. req[g] # None /\ req[g].to = n /\ req[g].model = req[e[1]].model
    BY <1>3, <2>1, HeldByAccepter
  <2>3. ~IsSender(e)
    BY <1>1 DEF Speaks
  <2>4. <<n, req[e[1]].model, mem[e]>> \in hashed
    BY <1>2, <2>3 DEF Inv, Summed
  <2> QED BY <1>5, <1>7, <2>2, <2>4 DEF True
<1>9. Verified(req, wire', hashed)
  <2>1. CASE wire' = wire
    BY <2>1 DEF Inv
  <2>2. CASE Puts(Other(Held(e)), c, d)
    <3>1. wire' = [wire EXCEPT ![Other(Held(e))] = Append(wire[Other(Held(e))], m)]
      BY <1>6, <2>2 DEF Puts
    <3>2. PICK x \in End : x = Other(Held(e)) /\ (x[2] = 0 /\ m.kind = "verify" => True(req, x[1], m, hashed))
      BY <1>3, <1>8
    <3> QED BY <1>7, <3>1, <3>2, WireAppends DEF Inv
  <2> QED BY <1>4, <2>1, <2>2
<1>10. Files_' /\ \A f \in End : f # e => mem'[f] = mem[f]
  <2>1. CASE c = "verify"
    BY <1>1, <2>1, FilesKept DEF Speak
  <2>2. CASE c # "verify"
    BY <1>1, <1>2, <2>2, Remembering DEF Speak
  <2> QED BY <2>1, <2>2
<1>11. ghosts' \in [End -> Nat] /\ lingers' \subseteq End /\ Grouped(req, groups')
       /\ hashed \subseteq hashed' /\ Verified(req, wire', hashed')
       /\ \A k \in Node : k # n => groups'[k] = groups[k]
  BY <1>1, <1>9 DEF Inv
<1>12. CASE GivesUp(n, e)
  BY <1>1, <1>9, <1>10, <1>11, <1>12, GivingUp DEF GivesUp
<1>13. CASE GoesOn(n, e, c)
  <2>1. PICK s \in Stages : s = After(c) /\ Turned(n, e, s) /\ (s = "verify" <=> c = "files")
    BY <1>1, <1>13, GoesOnTurn
  <2>2. IsSender(e) \/ (c = "verify" /\ e[2] = 1)
    BY <1>1, <1>2 DEF Speaks, Inv, Control
  <2>3. e[2] = 0 /\ s \in {"files", "verify", "done"} => IsSender(e)
    BY <2>2
  <2>4. ~(s = "verify" /\ ~IsSender(e))
    BY <2>1, <2>2
  <2> QED BY <1>2, <1>10, <1>11, <2>1, <2>3, <2>4, TurnKeeps
<1> QED BY <1>4, <1>12, <1>13

(* What a receive takes off the wire.                                      *)
LEMMA Hearing ==
  ASSUME Inv, NEW n \in Node, NEW e, NEW c \in Operations, Hears(n, e, c)
  PROVE  /\ Verified(req, wire', hashed) /\ wire[Held(e)] # << >> /\ Held(e) \in End
         /\ Head(wire[Held(e)]).dir \in Directory
         /\ Head(wire[Held(e)]) = wire[Held(e)][1] /\ 1 \in DOMAIN wire[Held(e)]
         /\ UNCHANGED <<req, groups, ghosts, lingers>>
         /\ e[2] = 0 => IsSender(e)
         /\ IsSender(e) <=> c = "verify"
         /\ Busy(n, e, c, "operation")
<1>1. /\ Busy(n, e, c, "operation") /\ ~Speaks(e, c) /\ Held(e)[1] # None
      /\ e[2] = 0 => IsSender(e)
      /\ wire[Held(e)] # << >> /\ wire' = [wire EXCEPT ![Held(e)] = Tail(wire[Held(e)])]
      /\ UNCHANGED <<req, groups, ghosts, lingers>>
  BY DEF Hears, Takes
<1>2. Held(e) \in End
  BY <1>1, HoldsGroup
<1>3. PICK x \in End : x = Held(e)
  BY <1>2
<1>4. Verified(req, wire', hashed)
  BY <1>1, <1>3, WireTails DEF Inv
<1>5. wire[x] \in Seq(Message) /\ wire[x] # << >>
  BY <1>1, <1>3 DEF Inv, Verified
<1>6. PICK w \in Seq(Message) : w = wire[x] /\ w # << >>
  BY <1>5
<1>7. PICK l \in Nat : l = Len(w) /\ DOMAIN w = 1..l
  BY LenProperties
<1>8. l # 0
  BY <1>6, <1>7, EmptySeq
<1>9. 1 \in DOMAIN w
  BY <1>7, <1>8
<1>10. Head(w) = w[1] /\ w[1] \in Message
  BY <1>6, <1>9, HeadTailProperties, ElementOfSeq
<1>11. w[1].dir \in Directory
  BY <1>10 DEF Message
<1>12. IsSender(e) <=> c = "verify"
  BY <1>1 DEF Speaks, IsSender
<1> QED BY <1>1, <1>2, <1>3, <1>4, <1>6, <1>9, <1>10, <1>11, <1>12

(* A receive goes on: what the side keeps has been hashed, if it is files. *)
LEMMA GoingOn ==
  ASSUME Inv, NEW n \in Node, NEW e, NEW c \in Operations, Hears(n, e, c), GoesOn(n, e, c),
         Files_', \A f \in End : f # e => mem'[f] = mem[f], hashed \subseteq hashed',
         c = "files" => <<n, req[e[1]].model, mem'[e]>> \in hashed'
  PROVE  Inv'
<1>1. /\ Busy(n, e, c, "operation") /\ Verified(req, wire', hashed)
      /\ UNCHANGED <<req, groups, ghosts, lingers>> /\ (e[2] = 0 => IsSender(e))
  BY Hearing
<1>2. work[n] # Idle /\ e = work[n].cmd[1]
  BY <1>1, OperationIs
<1>3. PICK s \in Stages : s = After(c) /\ Turned(n, e, s) /\ (s = "verify" <=> c = "files")
  BY <1>1, GoesOnTurn
<1>4. ghosts' \in [End -> Nat] /\ lingers' \subseteq End /\ Grouped(req, groups')
      /\ \A k \in Node : k # n => groups'[k] = groups[k]
  BY <1>1 DEF Inv
<1>5. Verified(req, wire', hashed')
  BY <1>1, HashedGrows
<1>6. s = "verify" /\ ~IsSender(e) => <<n, req[e[1]].model, mem'[e]>> \in hashed'
  BY <1>3
<1> QED BY <1>1, <1>2, <1>3, <1>4, <1>5, <1>6, TurnKeeps

LEMMA HearingOver ==
  ASSUME Inv, NEW n \in Node, NEW e, NEW c \in Operations, Hears(n, e, c),
         Ends(n, e, "error") \/ Ends(n, e, "dead"), UNCHANGED <<disk, mem, hashed>>
  PROVE  Inv'
<1>1. /\ Busy(n, e, c, "operation") /\ Verified(req, wire', hashed)
      /\ UNCHANGED <<req, groups, ghosts, lingers>>
  BY Hearing
<1>2. Files_' /\ \A f : mem'[f] = mem[f]
  BY FilesKept
<1>3. ghosts' \in [End -> Nat]
  BY <1>1 DEF Inv
<1> QED BY <1>1, <1>2, <1>3, GivingUp

LEMMA HearingManifest ==
  ASSUME Inv, NEW n \in Node, NEW e, HearsManifest(n, e)
  PROVE  Inv'
<1>1. PICK d : d = Head(wire[Held(e)]).dir
  OBVIOUS
<1>2. PICK c \in Operations : c = "manifest"
  BY DEF Operations
<1>3. /\ Hears(n, e, c) /\ Remembers(e, d) /\ GoesOn(n, e, c) /\ UNCHANGED <<disk, hashed>>
  BY <1>1, <1>2 DEF HearsManifest
<1>4. d \in Directory /\ Busy(n, e, c, "operation")
  BY <1>1, <1>3, Hearing
<1>5. e \in End
  BY <1>4, OperationIs
<1>6. Files_' /\ \A f \in End : f # e => mem'[f] = mem[f]
  BY <1>3, <1>4, <1>5, Remembering
<1> QED BY <1>2, <1>3, <1>6, GoingOn

LEMMA HearingSums ==
  ASSUME Inv, NEW n \in Node, NEW e, HearsSums(n, e)
  PROVE  Inv'
<1>1. PICK c \in Operations : c = "verify"
  BY DEF Operations
<1>2. GoesOn(n, e, c) \/ GivesUp(n, e)
  BY <1>1 DEF HearsSums
<1>3. Hears(n, e, c) /\ UNCHANGED <<disk, mem, hashed>>
  BY <1>1 DEF HearsSums
<1>4. CASE GivesUp(n, e)
  BY <1>3, <1>4, HearingOver DEF GivesUp
<1>5. CASE GoesOn(n, e, c)
  <2>1. Files_' /\ \A f : mem'[f] = mem[f]
    BY <1>3, FilesKept
  <2> QED BY <1>1, <1>3, <1>5, <2>1, GoingOn
<1> QED BY <1>2, <1>4, <1>5

(* Directories that files are written into.                                *)
LEMMA Writing ==
  ASSUME Inv, NEW n \in Node, NEW e, NodeOf(e) = n, NEW m \in Model, m = req[e[1]].model,
         NEW files \in [Model -> 0..Broken]
  PROVE  /\ Writes(e, files) \in [Node -> [Model -> Directory]]
         /\ Writes(e, files)[n][m] \in Directory
<1>1. disk \in [Node -> [Model -> Directory]]
  BY DEF Inv, Files_
<1>2. PICK d : d = [x \in Model |-> IF files[x] # 0 THEN files[x] ELSE disk[n][m][x]]
  OBVIOUS
<1>3. d \in Directory
  BY <1>1, <1>2 DEF Directory
<1>4. Writes(e, files) = [disk EXCEPT ![n][m] = d]
  BY <1>2 DEF Writes
<1> QED BY <1>1, <1>3, <1>4

LEMMA HearingFiles ==
  ASSUME Inv, NEW n \in Node, NEW e, HearsFiles(n, e)
  PROVE  Inv'
<1>1. PICK c \in Operations : c = "files"
  BY DEF Operations
<1>2. PICK files : files = Head(wire[Held(e)]).dir
  OBVIOUS
<1>3. Hears(n, e, c)
  BY <1>1 DEF HearsFiles
<1>4. Busy(n, e, c, "operation") /\ files \in Directory
  BY <1>2, <1>3, Hearing
<1>5. e \in End /\ NodeOf(e) = n
  BY <1>4, OperationIs
<1>6. PICK m \in Model : m = req[e[1]].model
  BY <1>4, OperationIs
<1>7. CASE GivesUp(n, e) /\ UNCHANGED <<disk, mem, hashed>>
  BY <1>3, <1>7, HearingOver DEF GivesUp
<1>8. CASE /\ disk' = Writes(e, files) /\ Remembers(e, disk'[n][m])
           /\ hashed' = hashed \cup {<<n, m, disk'[n][m]>>} /\ GoesOn(n, e, c)
  <2>1. disk' \in [Node -> [Model -> Directory]] /\ disk'[n][m] \in Directory
    BY <1>4, <1>5, <1>6, <1>8, Writing DEF Directory
  <2>2. mem' \in [End -> Directory] /\ mem'[e] = disk'[n][m]
        /\ \A f \in End : f # e => mem'[f] = mem[f]
    BY <1>5, <1>8, <2>1 DEF Remembers, Inv, Files_
  <2>3. hashed' \subseteq Node \X Model \X Directory
    BY <1>8, <2>1 DEF Inv, Files_
  <2>4. Files_' /\ hashed \subseteq hashed' /\ <<n, req[e[1]].model, mem'[e]>> \in hashed'
    BY <1>6, <1>8, <2>1, <2>2, <2>3 DEF Files_
  <2> QED BY <1>3, <1>8, <2>2, <2>4, GoingOn
<1> QED BY <1>1, <1>2, <1>6, <1>7, <1>8 DEF HearsFiles

LEMMA HearingGarbage ==
  ASSUME Inv, NEW n \in Node, NEW e, NEW c \in Operations, HearsGarbage(n, e, c)
  PROVE  Inv'
<1>1. Hears(n, e, c) /\ UNCHANGED disk
  BY DEF HearsGarbage
<1>2. Busy(n, e, c, "operation")
  BY <1>1, Hearing
<1>3. e \in End /\ Dir(e) \in Directory /\ req[e[1]].model \in Model
  BY <1>2, OperationIs
<1>4. CASE GivesUp(n, e) /\ UNCHANGED <<mem, hashed>>
  BY <1>1, <1>4, HearingOver DEF GivesUp
<1>5. CASE Ends(n, e, "dead") /\ UNCHANGED <<mem, hashed>>
  BY <1>1, <1>5, HearingOver
<1>6. CASE /\ GoesOn(n, e, c) /\ Remembers(e, Dir(e))
           /\ hashed' = hashed \cup {<<n, req[e[1]].model, Dir(e)>>}
  <2>1. mem' \in [End -> Directory] /\ mem'[e] = Dir(e)
        /\ \A f \in End : f # e => mem'[f] = mem[f]
    BY <1>3, <1>6 DEF Remembers, Inv, Files_
  <2>2. Files_' /\ hashed \subseteq hashed' /\ <<n, req[e[1]].model, mem'[e]>> \in hashed'
    BY <1>1, <1>3, <1>6, <2>1 DEF Inv, Files_
  <2> QED BY <1>1, <1>6, <2>1, <2>2, GoingOn
<1> QED BY <1>4, <1>5, <1>6 DEF HearsGarbage

-----------------------------------------------------------------------------
(* The steps of the tasks. A side goes on, with or without its worker.     *)
LEMMA Moving ==
  ASSUME Inv, NEW e \in End, req[e[1]] # None, NEW s \in Stages \ {"files", "verify", "done"},
         at' = [at EXCEPT ![e] = s], queue' \in [Node -> Seq(Order)],
         Ordered(req, at', queue', work),
         UNCHANGED <<req, work, groups, wire, ghosts, lingers, disk, mem, hashed>>
  PROVE  Inv'
<1>1. at' \in [End -> Stages] /\ at'[e] = s /\ \A f \in End : f # e => at'[f] = at[f]
  BY DEF Inv, Control
<1>2. \A f : IsSender(f)' = IsSender(f)
  BY DEF IsSender
<1>3. Control'
  BY <1>1, <1>2 DEF Inv, Control
<1>4. Summed'
  BY <1>1, <1>2 DEF Inv, Summed
<1>5. Files_'
  BY DEF Inv, Files_
<1> QED BY <1>3, <1>4, <1>5 DEF Inv

LEMMA Queueing ==
  ASSUME Inv, NEW n \in Node, NEW o \in Order
  PROVE  [queue EXCEPT ![n] = Append(queue[n], o)] \in [Node -> Seq(Order)]
<1>1. queue \in [Node -> Seq(Order)]
  BY DEF Inv, Control
<1>2. Append(queue[n], o) \in Seq(Order)
  BY <1>1, AppendProperties
<1> QED BY <1>1, <1>2

LEMMA SidesOf ==
  ASSUME NEW t \in Transfer, NEW i \in Rank
  PROVE  \E e \in End : e = <<t, i>> /\ e[1] = t /\ e[2] = i
<1>1. <<t, i>> \in End /\ <<t, i>>[1] = t /\ <<t, i>>[2] = i
  BY DEF End
<1> QED BY <1>1

LEMMA Notifying ==
  ASSUME Inv, NEW t \in Transfer, Notifies(t)
  PROVE  Inv'
<1>1. PICK e \in End : e = <<t, 1>> /\ e[1] = t /\ e[2] = 1
  BY SidesOf DEF Rank
<1>2. <<t, 0>> \in End
  BY DEF End, Rank
<1>3. req[t] # None
  BY <1>2 DEF Inv, Control, Notifies
<1>4. PICK n \in Node : n = Side(req, e) /\ NodeOf(e) = n
  BY <1>1, <1>3, KeyTypes DEF Inv, Control, Side, NodeOf
<1>5. /\ at[e] = "off" /\ at' = [at EXCEPT ![e] = "init"]
      /\ queue' = [queue EXCEPT ![n] = Append(queue[n], <<e, "init">>)]
      /\ UNCHANGED <<req, work, groups, wire, ghosts, lingers, disk, mem, hashed>>
  BY <1>1, <1>4 DEF Notifies, Moves, Sends
<1>6. <<e, "init">> \in Order /\ "init" \in Stages \ {"files", "verify", "done"} /\ "init" \in Commands
  BY DEF Order, Commands, Stages
<1>7. queue' \in [Node -> Seq(Order)]
  BY <1>5, <1>6, Queueing
<1>8. \A k \in Node : Absent(e, queue[k], work[k])
  BY <1>5, NotWaiting DEF Inv, Control
<1>9. PICK p : p = queue'
  OBVIOUS
<1>10. Ordered(req, [at EXCEPT ![e] = "init"], p, work)
  <2>1. /\ at \in [End -> Stages] /\ queue \in [Node -> Seq(Order)]
        /\ work \in [Node -> {Idle} \cup Busies] /\ Ordered(req, at, queue, work)
    BY DEF Inv, Control
  <2>2. \E k \in Node, c \in Commands :
           /\ p = [queue EXCEPT ![k] = Append(queue[k], <<e, c>>)]
           /\ req[e[1]] # None /\ Side(req, e) = k /\ "init" = c
    BY <1>1, <1>3, <1>4, <1>5, <1>6, <1>9
  <2> QED BY <1>6, <1>8, <2>1, <2>2, Going
<1> QED BY <1>1, <1>3, <1>5, <1>6, <1>7, <1>9, <1>10, Moving

LEMMA BeingTold ==
  ASSUME Inv, NEW t \in Transfer, IsTold(t)
  PROVE  Inv'
<1>1. PICK e \in End : e = <<t, 0>> /\ e[1] = t /\ e[2] = 0
  BY SidesOf DEF Rank
<1>2. at[e] \in {"init", "opened", "failed"}
  BY <1>1 DEF IsTold
<1>3. req[t] # None
  BY <1>1, <1>2 DEF Inv, Control
<1>4. PICK n \in Node : n = Side(req, e) /\ NodeOf(e) = n
  BY <1>1, <1>3, KeyTypes DEF Inv, Control, Side, NodeOf
<1>5. UNCHANGED <<req, work, groups, wire, ghosts, lingers, disk, mem, hashed>>
  BY DEF IsTold
<1>6. /\ at \in [End -> Stages] /\ queue \in [Node -> Seq(Order)]
      /\ work \in [Node -> {Idle} \cup Busies] /\ Ordered(req, at, queue, work)
  BY DEF Inv, Control
<1>7. at[e] # "init" => \A k \in Node : Absent(e, queue[k], work[k])
  BY <1>2, <1>6, NotWaiting
<1>8. CASE at[e] = "opened" /\ Moves(e, "manifest") /\ Sends(e, "manifest")
  <2>1. PICK s \in Stages \ {"files", "verify", "done"} : s = "manifest" /\ s \in Commands
    BY DEF Stages, Commands
  <2>2. at' = [at EXCEPT ![e] = s] /\ queue' = [queue EXCEPT ![n] = Append(queue[n], <<e, s>>)]
    BY <1>4, <1>8, <2>1 DEF Moves, Sends
  <2>3. <<e, s>> \in Order
    BY <2>1 DEF Order
  <2>4. queue' \in [Node -> Seq(Order)]
    BY <2>2, <2>3, Queueing
  <2>5. PICK p : p = queue'
    OBVIOUS
  <2>6. \E k \in Node, c \in Commands :
           /\ p = [queue EXCEPT ![k] = Append(queue[k], <<e, c>>)]
           /\ req[e[1]] # None /\ Side(req, e) = k /\ s = c
    BY <1>1, <1>3, <1>4, <2>1, <2>2, <2>5
  <2>7. \A k \in Node : Absent(e, queue[k], work[k])
    BY <1>7, <1>8
  <2>8. Ordered(req, [at EXCEPT ![e] = s], p, work)
    BY <1>6, <2>1, <2>6, <2>7, Going
  <2> QED BY <1>1, <1>3, <1>5, <2>2, <2>4, <2>5, <2>8, Moving
<1>9. CASE UNCHANGED queue /\ \E s \in {"told", "error"} : Moves(e, s) /\ (at[e] = "init" \/ s = "error")
  <2>1. PICK s \in {"told", "error"} : at' = [at EXCEPT ![e] = s] /\ (at[e] = "init" \/ s = "error")
    BY <1>9 DEF Moves
  <2>2. s \in Stages \ {"files", "verify", "done"}
    BY DEF Stages
  <2>3. Ordered(req, [at EXCEPT ![e] = s], queue, work)
    <3>1. CASE at[e] = "init"
      BY <1>6, <3>1, GoingAhead
    <3>2. CASE at[e] # "init"
      BY <1>6, <1>7, <2>2, <3>2, Going
    <3> QED BY <3>1, <3>2
  <2>4. queue' = queue
    BY <1>9
  <2> QED BY <1>1, <1>3, <1>5, <1>6, <2>1, <2>2, <2>3, <2>4, Moving
<1>10. \/ at[e] = "opened" /\ Moves(e, "manifest") /\ Sends(e, "manifest")
       \/ UNCHANGED queue /\ \E s \in {"told", "error"} : Moves(e, s) /\ (at[e] = "init" \/ s = "error")
  <2>1. \/ at[e] = "opened" /\ Moves(e, "manifest") /\ Sends(e, "manifest")
        \/ at[e] = "init" /\ Moves(e, "told") /\ UNCHANGED queue
        \/ Moves(e, "error") /\ UNCHANGED queue
    BY <1>1, <1>2 DEF IsTold
  <2> QED BY <2>1
<1> QED BY <1>8, <1>9, <1>10

(* A new request changes nothing for the others.                           *)
LEMMA Asking ==
  ASSUME Inv, NEW t \in Transfer, NEW q \in Asks, Starts(t, q)
  PROVE  Inv'
<1>1. /\ req[t] = None /\ req' = [req EXCEPT ![t] = q]
      /\ UNCHANGED <<work, groups, wire, ghosts, lingers, disk, mem, hashed>>
  BY DEF Starts
<1>2. PICK r : r = req'
  OBVIOUS
<1>3. /\ r \in [Transfer -> Asks \cup {None}] /\ r[t] = q /\ q # None /\ q.from \in Node
      /\ \A x \in Transfer : req[x] # None => r[x] = req[x]
  BY <1>1, <1>2, AskTypes DEF Inv, Control
<1>4. PICK e \in End : e = <<t, 0>> /\ e[1] = t /\ e[2] = 0
  BY SidesOf DEF Rank
<1>5. \A f \in End : /\ f[1] \in Transfer /\ (f[1] = t => at[f] = "off") /\ (f[2] = 0 /\ f # e => f[1] # t)
  BY <1>1, <1>4 DEF Inv, Control, End
<1>6. /\ at \in [End -> Stages] /\ queue \in [Node -> Seq(Order)]
      /\ work \in [Node -> {Idle} \cup Busies] /\ Ordered(req, at, queue, work)
  BY DEF Inv, Control
<1>7. PICK s \in {"init", "error"} :
         /\ at' = [at EXCEPT ![e] = s]
         /\ \/ queue' = queue
            \/ s = "init" /\ queue' = [queue EXCEPT ![q.from] = Append(queue[q.from], <<e, "init">>)]
  BY <1>4 DEF Starts, Moves
<1>8. PICK p : p = queue'
  OBVIOUS
<1>9. s \in Stages /\ s \notin {"files", "verify", "done"} /\ <<e, "init">> \in Order /\ "init" \in Commands
  BY DEF Stages, Order, Commands
<1>10. queue' \in [Node -> Seq(Order)]
  <2>1. [queue EXCEPT ![q.from] = Append(queue[q.from], <<e, "init">>)] \in [Node -> Seq(Order)]
    BY <1>3, <1>9, Queueing
  <2> QED BY <1>6, <1>7, <2>1
<1>11. \A k \in Node : Absent(e, queue[k], work[k])
  BY <1>1, <1>4, <1>6, NotWaiting
<1>12. Ordered(r, [at EXCEPT ![e] = s], p, work)
  <2>1. \A f \in End : f # e /\ req[f[1]] # None => r[f[1]] = req[f[1]]
    BY <1>3, <1>5
  <2>2. p = queue \/ \E k \in Node, c \in Commands :
           /\ p = [queue EXCEPT ![k] = Append(queue[k], <<e, c>>)]
           /\ r[e[1]] # None /\ Side(r, e) = k /\ s = c
    BY <1>3, <1>4, <1>7, <1>8, <1>9 DEF Side
  <2> QED BY <1>6, <1>9, <1>11, <2>1, <2>2, Going
<1>13. at' \in [End -> Stages] /\ at'[e] = s /\ \A f \in End : f # e => at'[f] = at[f]
  BY <1>6, <1>7, <1>9
<1>14. (\A f \in End : at[f] # "off" => req[f[1]] # None)'
  BY <1>2, <1>3, <1>4, <1>5, <1>13 DEF Inv, Control
<1>15. (\A f \in End : f[2] = 0 /\ at[f] \in {"files", "verify", "done"} => IsSender(f))'
  <2> SUFFICES ASSUME NEW f \in End, f[2] = 0, at'[f] \in {"files", "verify", "done"}
               PROVE  IsSender(f)'
    OBVIOUS
  <2>1. f # e /\ at[f] \in {"files", "verify", "done"}
    BY <1>9, <1>13
  <2>2. IsSender(f) /\ req[f[1]] # None
    BY <2>1 DEF Inv, Control
  <2>3. r[f[1]] = req[f[1]]
    BY <1>3, <1>5, <2>2
  <2> QED BY <1>2, <2>2, <2>3 DEF IsSender
<1>16. Control'
  BY <1>1, <1>2, <1>3, <1>6, <1>7, <1>8, <1>10, <1>12, <1>13, <1>14, <1>15 DEF Control
<1>17. Grouped(r, groups)
  <2>1. Grouped(req, groups) /\ groups \in [Node -> [Key -> Transfer \cup {None}]]
    BY DEF Inv, Grouped
  <2>2. \A n \in Node, k \in Key : groups[n][k] # None => groups[n][k] \in Transfer
    BY <2>1
  <2>3. \A m \in Model : <<"accept", m>> \in Key
    BY DEF Key
  <2>4. \A k \in Node : k \in Key
    BY DEF Key
  <2> QED BY <1>3, <2>1, <2>2, <2>3, <2>4 DEF Grouped
<1>18. Probed(r, groups, work)
  <2> SUFFICES ASSUME NEW n \in Node, work[n] # Idle, work[n].step = "probe"
               PROVE  groups[n][KeyIn(r, work[n].cmd[1])] # None
    BY DEF Probed
  <2>1. PICK f : f = work[n].cmd[1]
    OBVIOUS
  <2>2. f \in End /\ req[f[1]] # None
    BY <2>1, AtWork
  <2>3. r[f[1]] = req[f[1]]
    BY <1>3, <1>5, <2>2
  <2>4. KeyIn(r, f) = KeyIn(req, f)
    BY <2>3 DEF KeyIn
  <2> QED BY <2>1, <2>4 DEF Inv, Probed
<1>19. Verified(r, wire, hashed)
  BY <1>3 DEF Inv, Verified, True
<1>20. Summed'
  <2> SUFFICES ASSUME NEW f \in End, at'[f] = "verify", ~IsSender(f)'
               PROVE  <<Side(req', f), req'[f[1]].model, mem'[f]>> \in hashed'
    BY DEF Summed
  <2>1. at[f] = "verify"
    BY <1>9, <1>13
  <2>2. r[f[1]] = req[f[1]]
    BY <1>3, <1>5, <2>1 DEF Inv, Control
  <2>3. ~IsSender(f) /\ Side(r, f) = Side(req, f)
    BY <1>2, <2>2 DEF IsSender, Side
  <2>4. <<Side(req, f), req[f[1]].model, mem[f]>> \in hashed
    BY <2>1, <2>3 DEF Inv, Summed
  <2> QED BY <1>1, <1>2, <2>2, <2>3, <2>4
<1>21. Files_' /\ ghosts' \in [End -> Nat] /\ lingers' \subseteq End
  BY <1>1 DEF Inv, Files_
<1> QED BY <1>1, <1>2, <1>16, <1>17, <1>18, <1>19, <1>20, <1>21 DEF Inv

-----------------------------------------------------------------------------
(* A worker takes its first order.                                         *)
LEMMA Beginning ==
  ASSUME Inv, NEW n \in Node, Begins(n)
  PROVE  Inv'
<1>1. /\ work[n] = Idle /\ queue[n] # << >> /\ queue[n] \in Seq(Order)
      /\ UNCHANGED <<req, at, groups, ghosts, lingers, mem, hashed>>
  BY DEF Begins, Inv, Control
<1>2. PICK o : o = Head(queue[n])
  OBVIOUS
<1>3. o \in Order
  BY <1>1, <1>2, HeadTailProperties
<1>4. PICK e \in End : e = o[1]
  BY <1>3 DEF Order
<1>5. PICK old : old = groups[n][KeyOf(e)]
  OBVIOUS
<1>6. PICK v : v = [cmd |-> o, step |-> IF o[2] # "init" THEN "operation"
                                        ELSE IF old # None THEN "probe" ELSE "handshake"]
  OBVIOUS
<1>7. v \in Busies /\ v.cmd = o /\ v # Idle /\ (v.step = "probe" => old # None)
  BY <1>3, <1>6, IdleIsNot DEF Busies
<1>8. queue' = [queue EXCEPT ![n] = Tail(queue[n])] /\ work' = [work EXCEPT ![n] = v]
  BY <1>2, <1>4, <1>5, <1>6 DEF Begins
<1>9. /\ queue \in [Node -> Seq(Order)] /\ work \in [Node -> {Idle} \cup Busies]
      /\ Ordered(req, at, queue, work) /\ req \in [Transfer -> Asks \cup {None}]
  BY DEF Inv, Control
<1>10. PICK p : p = queue'
  OBVIOUS
<1>11. o \in Orders(req, at, n) /\ p \in [Node -> Seq(Order)] /\ Ordered(req, at, p, [work EXCEPT ![n] = v])
  <2>1. v.cmd = Head(queue[n]) /\ p = [queue EXCEPT ![n] = Tail(queue[n])]
    BY <1>2, <1>7, <1>8, <1>10
  <2>2. PICK hd : hd = Head(queue[n])
    OBVIOUS
  <2>3. /\ hd \in Orders(req, at, n) /\ p \in [Node -> Seq(Order)]
        /\ Ordered(req, at, p, [work EXCEPT ![n] = v])
    BY <1>1, <1>7, <1>9, <2>1, <2>2, TakingUp
  <2> QED BY <1>2, <2>2, <2>3
<1>12. /\ Side(req, e) = n /\ req[e[1]] # None /\ e[1] \in Transfer
       /\ KeyOf(e) = KeyIn(req, e) /\ KeyOf(e) \in Key /\ req[e[1]] \in Asks /\ e[2] \in Rank
  BY <1>4, <1>9, <1>11, KeyTypes DEF Orders, KeyOf, KeyIn
<1>13. NodeOf(e) = n /\ req[e[1]].model \in Model
  BY <1>12, AskTypes DEF NodeOf, Side
<1>14. Control'
  <2>1. work' \in [Node -> {Idle} \cup Busies]
    BY <1>7, <1>8, <1>9
  <2>2. \A f : IsSender(f)' = IsSender(f)
    BY <1>1 DEF IsSender
  <2> QED BY <1>1, <1>8, <1>10, <1>11, <2>1, <2>2 DEF Inv, Control
<1>15. Probed(req, groups, work')
  <2>1. work'[n] = v /\ \A k \in Node : k # n => work'[k] = work[k]
    BY <1>8, <1>9
  <2>2. v.step = "probe" => groups[n][KeyIn(req, v.cmd[1])] # None
    BY <1>4, <1>5, <1>7, <1>12
  <2> QED BY <2>1, <2>2 DEF Inv, Probed
<1>16. Verified(req, wire', hashed)
  <2>1. CASE wire' = wire
    BY <2>1 DEF Inv
  <2>2. CASE old # None /\ Puts(<<old, 1>>, "probe", Empty)
    <3>1. old \in Transfer
      BY <1>5, <1>12, <2>2 DEF Inv, Grouped
    <3>2. PICK x \in End : x = <<old, 1>> /\ x[2] = 1
      BY <3>1, SidesOf DEF Rank
    <3>3. PICK m : m = [kind |-> "probe", dir |-> Empty]
      OBVIOUS
    <3>4. m \in Message
      BY <3>3 DEF Message, Empty, Directory, Broken, TransferAssumption
    <3>5. wire' = [wire EXCEPT ![x] = Append(wire[x], m)]
      BY <2>2, <3>2, <3>3 DEF Puts
    <3>6. x[2] = 0 /\ m.kind = "verify" => True(req, x[1], m, hashed)
      BY <3>2
    <3>7. Verified(req, wire, hashed)
      BY DEF Inv
    <3>8. Verified(req, [wire EXCEPT ![x] = Append(wire[x], m)], hashed)
      BY <3>4, <3>6, <3>7, WireAppends
    <3> QED BY <3>5, <3>8
  <2>3. wire' = wire \/ (old # None /\ Puts(<<old, 1>>, "probe", Empty))
    BY <1>2, <1>4, <1>5 DEF Begins
  <2> QED BY <2>1, <2>2, <2>3
<1>17. disk' \in [Node -> [Model -> Directory]]
  <2>1. CASE disk' = disk
    BY <2>1 DEF Inv, Files_
  <2>2. CASE disk' = Writes(e, [m \in Model |-> IF mem[e][m] # 0 THEN Broken ELSE 0])
    <3>1. PICK files : files = [m \in Model |-> IF mem[e][m] # 0 THEN Broken ELSE 0]
      OBVIOUS
    <3>2. files \in [Model -> 0..Broken]
      BY <3>1 DEF Broken, TransferAssumption
    <3> QED BY <1>13, <2>2, <3>1, <3>2, Writing
  <2>3. disk' = disk \/ disk' = Writes(e, [m \in Model |-> IF mem[e][m] # 0 THEN Broken ELSE 0])
    BY <1>2, <1>4 DEF Begins
  <2> QED BY <2>1, <2>2, <2>3
<1>18. Files_' /\ Summed'
  BY <1>1, <1>17 DEF Inv, Files_, Summed, IsSender
<1> QED BY <1>1, <1>14, <1>15, <1>16, <1>18 DEF Inv

(* Two workers are done with the handshake at once.                        *)
LEMMA Meeting ==
  ASSUME Inv, NEW t \in Transfer, Meets(t)
  PROVE  Inv'
<1>1. PICK a \in End : a = <<t, 0>> /\ a[1] = t /\ a[2] = 0
  BY SidesOf DEF Rank
<1>2. PICK b \in End : b = <<t, 1>> /\ b[1] = t /\ b[2] = 1
  BY SidesOf DEF Rank
<1>3. /\ req \in [Transfer -> Asks \cup {None}] /\ req[t] # None /\ at \in [End -> Stages]
      /\ queue \in [Node -> Seq(Order)] /\ work \in [Node -> {Idle} \cup Busies]
      /\ Ordered(req, at, queue, work)
  BY DEF Inv, Control, Meets
<1>4. PICK q \in Asks : q = req[t]
  BY <1>3
<1>5. PICK m \in Node, n \in Node : m = q.from /\ n = q.to /\ m # n
  BY AskTypes
<1>6. /\ NodeOf(a) = m /\ NodeOf(b) = n /\ Side(req, a) = m /\ Side(req, b) = n
      /\ KeyOf(a) = KeyIn(req, a) /\ KeyOf(b) = KeyIn(req, b)
  BY <1>1, <1>2, <1>4, <1>5 DEF NodeOf, Side, KeyOf, KeyIn
<1>7. Busy(m, a, "init", "handshake") /\ Busy(n, b, "init", "handshake")
  BY <1>1, <1>2, <1>6 DEF Meets
<1>8. work[m] # Idle /\ a = work[m].cmd[1] /\ work[n] # Idle /\ b = work[n].cmd[1] /\ a # b
  BY <1>1, <1>2, <1>7, BusyIs
<1>9. at[a] \in {"init", "told", "error"} /\ at[b] \in {"init", "told", "error"}
  BY <1>7, BusyIs, AtWork
<1>10. PICK s \in {"opened", "manifest", "error"} : s = Opened(a, TRUE)
  BY <1>1, <1>9 DEF Opened
<1>11. PICK u \in {"opened", "manifest", "error"} : u = Opened(b, TRUE)
  BY <1>2, <1>9 DEF Opened
<1>12. PICK q1 : q1 = IF s = "manifest" THEN [queue EXCEPT ![m] = Append(queue[m], <<a, s>>)] ELSE queue
  OBVIOUS
<1>13. PICK q2 : q2 = IF u = "manifest" THEN [q1 EXCEPT ![n] = Append(q1[n], <<b, u>>)] ELSE q1
  OBVIOUS
<1>14. PICK a1 : a1 = [at EXCEPT ![a] = s]
  OBVIOUS
<1>15. PICK w1 : w1 = [work EXCEPT ![m] = Idle]
  OBVIOUS
<1>16. s \in Stages /\ u \in Stages /\ <<a, "manifest">> \in Order /\ <<b, "manifest">> \in Order
  BY DEF Stages, Order, Commands
<1>17. Ordered(req, a1, q1, w1)
  <2>1. q1 = queue \/ /\ s \in {"manifest", "files", "verify"}
                      /\ q1 = [queue EXCEPT ![m] = Append(queue[m], <<a, s>>)]
    BY <1>12
  <2> QED BY <1>3, <1>8, <1>14, <1>15, <1>16, <2>1, Turning
<1>18. q1 \in [Node -> Seq(Order)]
  <2>1. [queue EXCEPT ![m] = Append(queue[m], <<a, "manifest">>)] \in [Node -> Seq(Order)]
    BY <1>16, Queueing
  <2> QED BY <1>3, <1>12, <2>1
<1>19. a1 \in [End -> Stages] /\ w1 \in [Node -> {Idle} \cup Busies] /\ w1[n] = work[n]
       /\ a1[b] = at[b]
  BY <1>3, <1>5, <1>8, <1>14, <1>15, <1>16
<1>20. Ordered(req, [a1 EXCEPT ![b] = u], q2, [w1 EXCEPT ![n] = Idle])
  <2>1. q2 = q1 \/ /\ u \in {"manifest", "files", "verify"}
                   /\ q2 = [q1 EXCEPT ![n] = Append(q1[n], <<b, u>>)]
    BY <1>13
  <2> QED BY <1>8, <1>16, <1>17, <1>18, <1>19, <2>1, Turning
<1>21. q2 \in [Node -> Seq(Order)]
  <2>1. Append(q1[n], <<b, "manifest">>) \in Seq(Order)
    BY <1>16, <1>18, AppendProperties
  <2> QED BY <1>13, <1>18, <2>1
<1>22. queue' = q2
  <2>1. queue' = [x \in Node |->
                     IF x = m /\ s = "manifest" THEN Append(queue[x], <<a, "manifest">>)
                     ELSE IF x = n /\ u = "manifest" THEN Append(queue[x], <<b, "manifest">>)
                     ELSE queue[x]]
    BY <1>1, <1>2, <1>6, <1>10, <1>11 DEF Meets
  <2>2. q1[n] = queue[n] /\ (s = "manifest" => q1[m] = Append(queue[m], <<a, "manifest">>))
        /\ (s # "manifest" => q1[m] = queue[m]) /\ \A x \in Node \ {m} : q1[x] = queue[x]
    BY <1>3, <1>5, <1>12
  <2>3. q2[m] = q1[m] /\ (u = "manifest" => q2[n] = Append(q1[n], <<b, "manifest">>))
        /\ (u # "manifest" => q2[n] = q1[n]) /\ \A x \in Node \ {m, n} : q2[x] = q1[x]
    BY <1>5, <1>13, <1>18
  <2>4. ASSUME NEW x \in Node PROVE queue'[x] = q2[x]
    <3>1. CASE x = m
      BY <2>1, <2>2, <2>3, <3>1, <1>5
    <3>2. CASE x = n
      BY <2>1, <2>2, <2>3, <3>2, <1>5
    <3>3. CASE x # m /\ x # n
      BY <2>1, <2>2, <2>3, <3>3
    <3> QED BY <3>1, <3>2, <3>3
  <2>5. PICK p : p = queue'
    OBVIOUS
  <2>6. p \in [Node -> {queue'[x] : x \in Node}] /\ \A x \in Node : p[x] = q2[x]
    BY <2>1, <2>4, <2>5
  <2> QED BY <1>21, <2>5, <2>6
<1>23. at' = [a1 EXCEPT ![b] = u] /\ work' = [w1 EXCEPT ![n] = Idle]
  BY <1>1, <1>2, <1>6, <1>10, <1>11, <1>14, <1>15 DEF Meets
<1>24. UNCHANGED <<req, wire, ghosts, lingers, disk, mem, hashed>>
  BY DEF Meets
<1>25. Ordered(req', at', queue', work')
  BY <1>20, <1>22, <1>23, <1>24
<1>26. at' \in [End -> Stages] /\ work' \in [Node -> {Idle} \cup Busies]
  BY <1>16, <1>19, <1>23
<1>27. at'[a] = s /\ at'[b] = u /\ \A f \in End \ {a, b} : at'[f] = at[f]
  BY <1>3, <1>8, <1>14, <1>19, <1>23
<1>28. work'[m] = Idle /\ work'[n] = Idle /\ \A k \in Node \ {m, n} : work'[k] = work[k]
  BY <1>3, <1>15, <1>19, <1>23
<1>29. \A f : IsSender(f)' = IsSender(f)
  BY <1>24 DEF IsSender
<1>30. Control'
  <2>1. (\A f \in End : at[f] # "off" => req[f[1]] # None)'
    BY <1>1, <1>2, <1>3, <1>24, <1>27 DEF Inv, Control
  <2>2. (\A f \in End : f[2] = 0 /\ at[f] \in {"files", "verify", "done"} => IsSender(f))'
    BY <1>27, <1>29 DEF Inv, Control
  <2> QED BY <1>3, <1>21, <1>22, <1>24, <1>25, <1>26, <2>1, <2>2 DEF Control
<1>31. PICK k1, k2 : k1 = KeyIn(req, a) /\ k2 = KeyIn(req, b)
  OBVIOUS
<1>32. PICK g1 : g1 = [groups EXCEPT ![m][k1] = t]
  OBVIOUS
<1>33. Grouped(req, g1)
  BY <1>1, <1>3, <1>6, <1>31, <1>32, Regrouping DEF Inv
<1>34. Grouped(req, [g1 EXCEPT ![n][k2] = t])
  BY <1>2, <1>3, <1>6, <1>31, <1>33, Regrouping
<1>35. groups' = [g1 EXCEPT ![n][k2] = t]
  BY <1>1, <1>2, <1>6, <1>31, <1>32 DEF Meets
<1>36. Grouped(req, groups') /\ \A k \in Node \ {m, n} : groups'[k] = groups[k]
  <2>1. \A k \in Node \ {m} : g1[k] = groups[k]
    BY <1>32 DEF Inv, Grouped
  <2>2. \A k \in Node \ {n} : groups'[k] = g1[k]
    BY <1>33, <1>35 DEF Grouped
  <2> QED BY <1>34, <1>35, <2>1, <2>2
<1>37. Probed(req, groups', work')
  BY <1>28, <1>36 DEF Inv, Probed
<1>38. Summed'
  BY <1>24, <1>27, <1>29 DEF Inv, Summed
<1>39. Files_'
  BY <1>24 DEF Inv, Files_
<1> QED BY <1>24, <1>30, <1>36, <1>37, <1>38, <1>39 DEF Inv

LEMMA StillInControl ==
  ASSUME Inv, UNCHANGED <<req, at, queue, work, groups, mem, hashed>>
  PROVE  Control' /\ Grouped(req, groups)' /\ Probed(req, groups, work)' /\ Summed'
<1>1. \A f : IsSender(f)' = IsSender(f)
  BY DEF IsSender
<1> QED BY <1>1 DEF Inv, Control, Summed

LEMMA GhostHearing ==
  ASSUME Inv, NEW e \in End, GhostHears(e)
  PROVE  Inv'
<1>1. /\ wire[e] # << >> /\ wire' = [wire EXCEPT ![e] = Tail(wire[e])]
      /\ ghosts[e] > 0 /\ ghosts' = [ghosts EXCEPT ![e] = ghosts[e] - 1]
      /\ UNCHANGED <<req, at, queue, work, groups, lingers, disk, mem, hashed>>
  BY DEF GhostHears, Takes
<1>2. Verified(req, wire', hashed)
  BY <1>1, WireTails DEF Inv
<1>3. ghosts' \in [End -> Nat]
  <2>1. ghosts \in [End -> Nat]
    BY DEF Inv
  <2>2. ghosts[e] - 1 \in Nat
    BY <1>1, <2>1
  <2> QED BY <1>1, <2>1, <2>2
<1>4. Files_'
  BY <1>1 DEF Inv, Files_
<1> QED BY <1>1, <1>2, <1>3, <1>4, StillInControl DEF Inv

LEMMA Editing ==
  ASSUME Inv, NEW n \in Node, NEW m \in Model, Edits(n, m)
  PROVE  Inv'
<1>1. /\ disk[n][m][m] < MaxVersion /\ disk' = [disk EXCEPT ![n][m][m] = disk[n][m][m] + 1]
      /\ UNCHANGED <<req, at, queue, work, groups, wire, ghosts, lingers, mem, hashed>>
  BY DEF Edits
<1>2. disk \in [Node -> [Model -> [Model -> 0..Broken]]]
  BY DEF Inv, Files_, Directory
<1>3. disk[n][m][m] + 1 \in 0..Broken
  BY <1>1, <1>2 DEF Broken, TransferAssumption
<1>4. PICK d : d = [disk[n][m] EXCEPT ![m] = disk[n][m][m] + 1]
  OBVIOUS
<1>5. d \in [Model -> 0..Broken]
  BY <1>2, <1>3, <1>4
<1>6. disk' = [disk EXCEPT ![n][m] = d]
  BY <1>1, <1>4
<1>7. disk' \in [Node -> [Model -> Directory]]
  BY <1>2, <1>5, <1>6 DEF Directory
<1>8. Files_'
  BY <1>1, <1>7 DEF Inv, Files_
<1> QED BY <1>1, <1>8, StillInControl DEF Inv

-----------------------------------------------------------------------------
(* The invariant holds in the beginning, and every step keeps it.          *)
LEMMA InitInv == Init => Inv
<1> SUFFICES ASSUME Init PROVE Inv
  OBVIOUS
<1>1. /\ req = [t \in Transfer |-> None] /\ at = [e \in End |-> "off"]
      /\ queue = [n \in Node |-> << >>] /\ work = [n \in Node |-> Idle]
  BY DEF Init
<1>2. /\ << >> \in Seq(Order) /\ DOMAIN << >> = {} /\ << >> \in Seq(Message)
  BY EmptySeq
<1>3. Control
  <2>1. \A n \in Node : Desk(queue[n], work[n], Orders(req, at, n))
    BY <1>1, <1>2 DEF Desk
  <2>2. at \in [End -> Stages]
    BY <1>1 DEF Stages
  <2>3. req \in [Transfer -> Asks \cup {None}]
    BY <1>1
  <2>4. queue \in [Node -> Seq(Order)] /\ work \in [Node -> {Idle} \cup Busies]
    BY <1>1, <1>2
  <2>5. \A e \in End : at[e] = "off"
    BY <1>1
  <2> QED BY <2>1, <2>2, <2>3, <2>4, <2>5 DEF Control, Ordered
<1>4. Grouped(req, groups)
  <2>1. groups = [n \in Node |-> [k \in Key |-> None]]
    BY DEF Init
  <2>2. groups \in [Node -> [Key -> Transfer \cup {None}]] /\ \A n \in Node, k \in Key : groups[n][k] = None
    BY <2>1
  <2> QED BY <2>2 DEF Grouped, Key
<1>5. Probed(req, groups, work)
  BY <1>1 DEF Probed
<1>6. Verified(req, wire, hashed)
  <2>1. wire = [e \in End |-> << >>]
    BY DEF Init
  <2>2. \A g \in Transfer : <<g, 0>> \in End
    BY DEF End, Rank
  <2>3. wire \in [End -> Seq(Message)]
    BY <1>2, <2>1
  <2>4. \A g \in Transfer : DOMAIN wire[<<g, 0>>] = {}
    BY <1>2, <2>1, <2>2
  <2> QED BY <2>3, <2>4 DEF Verified
<1>7. Empty \in Directory
  BY DEF Empty, Directory, Broken, TransferAssumption
<1>8. disk \in [Node -> [Model -> Directory]]
  <2>1. \A m \in Model : [Empty EXCEPT ![m] = 1] \in Directory
    BY DEF Empty, Directory, Broken, TransferAssumption
  <2> QED BY <1>7, <2>1 DEF Init
<1>9. mem \in [End -> Directory] /\ hashed = {} /\ ghosts \in [End -> Nat] /\ lingers = {}
  BY <1>7 DEF Init
<1>10. Summed
  <2>1. \A e \in End : at[e] # "verify"
    BY <1>1
  <2> QED BY <2>1 DEF Summed
<1> QED BY <1>3, <1>4, <1>5, <1>6, <1>8, <1>9, <1>10 DEF Inv, Files_

LEMMA Running ==
  ASSUME Inv, NEW n \in Node, WorkerRuns(n)
  PROVE  Inv'
<1>1. CASE Begins(n)
  BY <1>1, Beginning
<1>2. CASE work[n] # Idle /\ WorkerActs(n, work[n].cmd[1], work[n].cmd[2])
  <2>1. PICK e, c : e = work[n].cmd[1] /\ c = work[n].cmd[2]
    OBVIOUS
  <2>2. c \in Commands /\ WorkerActs(n, e, c)
    BY <1>2, <2>1, AtWork
  <2>3. CASE ProbeSucceeds(n, e) \/ MeetsNobody(n, e) \/ HandshakeFails(n, e)
    BY <2>3, Handshaking
  <2>4. CASE ProbeFails(n, e)
    BY <2>4, Reprobing
  <2>5. CASE HearsManifest(n, e)
    BY <2>5, HearingManifest
  <2>6. CASE HearsFiles(n, e)
    BY <2>6, HearingFiles
  <2>7. CASE HearsSums(n, e)
    BY <2>7, HearingSums
  <2>8. ASSUME c # "init" PROVE c \in Operations
    BY <2>2, <2>8 DEF Commands, Operations
  <2>9. CASE c # "init" /\ Speak(n, e, c)
    BY <2>8, <2>9, Speaking
  <2>10. CASE c # "init" /\ HearsGarbage(n, e, c)
    BY <2>8, <2>10, HearingGarbage
  <2>11. CASE c # "init" /\ TimesOut(n, e, c)
    BY <2>8, <2>11, TimingOut
  <2>12. CASE c # "init" /\ FindsNoGroup(n, e, c)
    BY <2>8, <2>12, NoGroup
  <2> QED BY <2>2, <2>3, <2>4, <2>5, <2>6, <2>7, <2>9, <2>10, <2>11, <2>12 DEF WorkerActs
<1> QED BY <1>1, <1>2 DEF WorkerRuns

LEMMA Stuttering == Inv /\ UNCHANGED vars => Inv'
<1> SUFFICES ASSUME Inv, UNCHANGED vars PROVE Inv'
  OBVIOUS
<1>1. UNCHANGED <<req, at, queue, work, groups, wire, ghosts, lingers, disk, mem, hashed>>
  BY DEF vars
<1>2. Files_'
  BY <1>1 DEF Inv, Files_
<1> QED BY <1>1, <1>2, StillInControl DEF Inv

LEMMA NextInv == Inv /\ [Next]_vars => Inv'
<1> SUFFICES ASSUME Inv, [Next]_vars PROVE Inv'
  OBVIOUS
<1>1. ASSUME NEW t \in Transfer, NEW q \in Asks, Starts(t, q) PROVE Inv'
  BY <1>1, Asking
<1>2. ASSUME NEW t \in Transfer, Notifies(t) PROVE Inv'
  BY <1>2, Notifying
<1>3. ASSUME NEW t \in Transfer, IsTold(t) PROVE Inv'
  BY <1>3, BeingTold
<1>4. ASSUME NEW t \in Transfer, Meets(t) PROVE Inv'
  BY <1>4, Meeting
<1>5. ASSUME NEW n \in Node, WorkerRuns(n) PROVE Inv'
  BY <1>5, Running
<1>6. ASSUME NEW n \in Node, NEW m \in Model, Edits(n, m) PROVE Inv'
  BY <1>6, Editing
<1>7. ASSUME NEW e \in End, GhostHears(e) PROVE Inv'
  BY <1>7, GhostHearing
<1>8. CASE UNCHANGED vars
  BY <1>8, Stuttering
<1> QED BY <1>1, <1>2, <1>3, <1>4, <1>5, <1>6, <1>7, <1>8 DEF Next

LEMMA InvTypes == Inv => TypeOK
<1> SUFFICES ASSUME Inv PROVE TypeOK
  OBVIOUS
<1>1. req \in [Transfer -> Request \cup {None}]
  BY AskTypes DEF Inv, Control
<1>2. \A n \in Node : \/ work[n] = Idle
                      \/ /\ work[n].cmd \in End \X Commands
                         /\ work[n].step \in {"probe", "handshake", "operation"}
  BY DEF Inv, Control, Busies, Order
<1>3. queue \in [Node -> Seq(End \X Commands)]
  BY DEF Inv, Control, Order
<1> QED BY <1>1, <1>2, <1>3 DEF TypeOK, Inv, Control, Grouped, Verified, Files_

(* Every variable holds what the code can store in it, whatever was lost,  *)
(* late, refused or edited.                                                *)
THEOREM TypesHold == Spec => []TypeOK
<1>1. Init => Inv
  BY InitInv
<1>2. Inv /\ [Next]_vars => Inv'
  BY NextInv
<1>3. Inv => TypeOK
  BY InvTypes
<1> QED BY <1>1, <1>2, <1>3, PTL DEF Spec

-----------------------------------------------------------------------------
(* One model is sent from a node to another. Rank 0 keeps its group under  *)
(* the name of the peer alone; with two models it may take the checksums of*)
(* the other one for those it waits for, and be done although its own files*)
(* never arrived. TLC finds this with two models and two transfers.        *)
OneModelEach ==
    \A q, r \in Asks : q.from = r.from /\ q.to = r.to => q.model = r.model

Arrived(t) ==
    \E h \in hashed : /\ h[1] = req[t].to /\ h[2] = req[t].model
                      /\ Matches(mem[<<t, 0>>], h[3])

LEMMA StillArrived ==
  ASSUME DoneMeansArrived, NEW t \in Transfer, at[<<t, 0>>] = "done", req'[t] = req[t],
         mem'[<<t, 0>>] = mem[<<t, 0>>], hashed \subseteq hashed'
  PROVE  Arrived(t)'
BY DEF DoneMeansArrived, Arrived, Matches, Files

(* What a turn leaves of the stages.                                       *)
LEMMA TurnStages ==
  ASSUME Inv, NEW n, NEW e \in End, NEW s, Turned(n, e, s)
  PROVE  at'[e] = s /\ req' = req /\ \A f \in End : f # e => at'[f] = at[f]
BY DEF Inv, Control, Turned

LEMMA EndsStages ==
  ASSUME Inv, NEW n, NEW e \in End, NEW how, Ends(n, e, how)
  PROVE  at'[e] = how /\ \A f \in End : f # e => at'[f] = at[f]
BY DEF Inv, Control, Ends, Moves

LEMMA GoesOnStages ==
  ASSUME Inv, NEW n, NEW e \in End, NEW c \in Operations, GoesOn(n, e, c)
  PROVE  /\ at'[e] = After(c) /\ \A f \in End : f # e => at'[f] = at[f]
         /\ After(c) = "done" => c = "verify"
BY DEF Inv, Control, GoesOn, Moves, After, Operations

(* A worker lets no pipeline be done that does not go by its peer's sums,  *)
(* and those that are done keep their own.                                 *)
Compares(n, e) == HearsSums(n, e) /\ Matches(mem[e], Head(wire[Held(e)]).dir)

LEMMA OnlyBySums ==
  ASSUME Inv, NEW n \in Node, WorkerRuns(n), NEW a \in End, a[2] = 0, at'[a] = "done"
  PROVE  /\ req' = req /\ hashed \subseteq hashed'
         /\ ((at[a] = "done" /\ mem'[a] = mem[a]) \/ Compares(n, a))
<1>1. CASE Begins(n)
  BY <1>1 DEF Begins
<1>2. ASSUME NEW e, ProbeSucceeds(n, e) \/ MeetsNobody(n, e) \/ HandshakeFails(n, e)
      PROVE  req' = req /\ hashed \subseteq hashed' /\ at[a] = "done" /\ mem'[a] = mem[a]
  <2>1. \E st \in {"probe", "handshake"}, ok \in BOOLEAN :
           Busy(n, e, "init", st) /\ Replies(n, e, ok) /\ UNCHANGED <<req, mem, hashed>>
    BY <1>2 DEF ProbeSucceeds, MeetsNobody, HandshakeFails
  <2>2. PICK st \in {"probe", "handshake"}, ok \in BOOLEAN :
           Busy(n, e, "init", st) /\ Replies(n, e, ok) /\ UNCHANGED <<req, mem, hashed>>
    BY <2>1
  <2>3. PICK s \in {"init", "told", "error", "opened", "failed", "manifest"} : Turned(n, e, s)
    BY <2>2, RepliesTurn
  <2>4. e \in End
    BY <2>2, BusyIs, AtWork
  <2> QED BY <2>2, <2>3, <2>4, TurnStages
<1>3. ASSUME NEW e, ProbeFails(n, e)
      PROVE  req' = req /\ hashed \subseteq hashed' /\ at[a] = "done" /\ mem'[a] = mem[a]
  BY <1>3 DEF ProbeFails
<1>4. ASSUME NEW e \in End, NEW c \in Operations, at[e] = c,
             \A f \in End : f # e => mem'[f] = mem[f], UNCHANGED req, hashed \subseteq hashed',
             Ends(n, e, "error") \/ Ends(n, e, "dead") \/ (GoesOn(n, e, c) /\ (c = "verify" => e[2] # 0))
      PROVE  req' = req /\ hashed \subseteq hashed' /\ at[a] = "done" /\ mem'[a] = mem[a]
  <2>1. at'[e] # "done" \/ e[2] # 0
    BY <1>4, EndsStages, GoesOnStages
  <2>2. a # e
    BY <2>1
  <2>3. \A f \in End : f # e => at'[f] = at[f]
    BY <1>4, EndsStages, GoesOnStages
  <2> QED BY <1>4, <2>2, <2>3
<1>5. ASSUME NEW e, HearsManifest(n, e)
      PROVE  req' = req /\ hashed \subseteq hashed' /\ at[a] = "done" /\ mem'[a] = mem[a]
  <2>1. PICK c \in Operations : c = "manifest"
    BY DEF Operations
  <2>2. Busy(n, e, c, "operation") /\ UNCHANGED <<req, hashed>> /\ GoesOn(n, e, c)
        /\ mem' = [mem EXCEPT ![e] = Head(wire[Held(e)]).dir]
    BY <1>5, <2>1 DEF HearsManifest, Hears, Remembers
  <2>3. e \in End /\ at[e] = c
    BY <2>2, OperationIs
  <2>4. \A f \in End : f # e => mem'[f] = mem[f]
    BY <2>2 DEF Inv, Files_
  <2> QED BY <1>4, <2>1, <2>2, <2>3, <2>4
<1>6. ASSUME NEW e, HearsFiles(n, e)
      PROVE  req' = req /\ hashed \subseteq hashed' /\ at[a] = "done" /\ mem'[a] = mem[a]
  <2>1. PICK c \in Operations : c = "files"
    BY DEF Operations
  <2>2. /\ Busy(n, e, c, "operation") /\ UNCHANGED req /\ hashed \subseteq hashed'
        /\ (GoesOn(n, e, c) \/ Ends(n, e, "error"))
        /\ (mem' = mem \/ \E d : mem' = [mem EXCEPT ![e] = d])
    BY <1>6, <2>1 DEF HearsFiles, Hears, Remembers, GivesUp
  <2>3. e \in End /\ at[e] = c
    BY <2>2, OperationIs
  <2>4. \A f \in End : f # e => mem'[f] = mem[f]
    BY <2>2 DEF Inv, Files_
  <2> QED BY <1>4, <2>1, <2>2, <2>3, <2>4
<1>7. ASSUME NEW e, HearsSums(n, e)
      PROVE  /\ req' = req /\ hashed \subseteq hashed'
             /\ ((at[a] = "done" /\ mem'[a] = mem[a]) \/ Compares(n, a))
  <2>1. PICK c \in Operations : c = "verify"
    BY DEF Operations
  <2>2. /\ Busy(n, e, c, "operation") /\ UNCHANGED <<req, mem, hashed>>
        /\ IF Matches(mem[e], Head(wire[Held(e)]).dir) THEN GoesOn(n, e, c) ELSE Ends(n, e, "error")
    BY <1>7, <2>1 DEF HearsSums, Hears, GivesUp
  <2>3. e \in End
    BY <2>2, OperationIs
  <2>4. CASE a = e
    <3>1. ~Ends(n, e, "error")
      BY <2>3, <2>4, EndsStages
    <3>2. Matches(mem[a], Head(wire[Held(a)]).dir) /\ HearsSums(n, a)
      BY <1>7, <2>2, <2>4, <3>1
    <3> QED BY <2>2, <3>2 DEF Compares
  <2>5. CASE a # e
    <3>1. at'[a] = at[a]
      BY <2>2, <2>3, <2>5, EndsStages, GoesOnStages
    <3> QED BY <2>2, <3>1
  <2> QED BY <2>4, <2>5
<1>8. ASSUME NEW e, NEW c \in Operations,
             Speak(n, e, c) \/ HearsGarbage(n, e, c) \/ TimesOut(n, e, c) \/ FindsNoGroup(n, e, c)
      PROVE  req' = req /\ hashed \subseteq hashed' /\ at[a] = "done" /\ mem'[a] = mem[a]
  <2>1. /\ Busy(n, e, c, "operation") /\ UNCHANGED req /\ hashed \subseteq hashed'
        /\ \/ Ends(n, e, "error") \/ Ends(n, e, "dead")
           \/ GoesOn(n, e, c) /\ (c # "verify" \/ Speaks(e, c))
        /\ (mem' = mem \/ \E d : mem' = [mem EXCEPT ![e] = d])
    BY <1>8 DEF Speak, HearsGarbage, Hears, TimesOut, FindsNoGroup, GivesUp, Remembers
  <2>2. e \in End /\ at[e] = c
    BY <2>1, OperationIs
  <2>3. \A f \in End : f # e => mem'[f] = mem[f]
    BY <2>1 DEF Inv, Files_
  <2>4. c = "verify" /\ Speaks(e, c) => e[2] # 0
    BY <2>2 DEF Speaks, Inv, Control
  <2> QED BY <1>4, <2>1, <2>2, <2>3, <2>4
<1>9. CASE work[n] # Idle /\ WorkerActs(n, work[n].cmd[1], work[n].cmd[2])
  <2>1. PICK e, c : e = work[n].cmd[1] /\ c = work[n].cmd[2]
    OBVIOUS
  <2>2. c \in Commands /\ WorkerActs(n, e, c)
    BY <1>9, <2>1, AtWork
  <2>3. c # "init" => c \in Operations
    BY <2>2 DEF Commands, Operations
  <2> QED BY <1>2, <1>3, <1>5, <1>6, <1>7, <1>8, <2>2, <2>3 DEF WorkerActs
<1> QED BY <1>1, <1>9 DEF WorkerRuns

(* The sums were taken where the pipeline sends: its group is one for the  *)
(* same peer, and is another model's only if several are sent there.       *)
LEMMA ComparedIsArrived ==
  ASSUME OneModelEach, Inv, NEW n \in Node, NEW t \in Transfer, Compares(n, <<t, 0>>),
         UNCHANGED <<req, mem, hashed>>
  PROVE  Arrived(t)'
<1>1. PICK a \in End : a = <<t, 0>> /\ a[1] = t /\ a[2] = 0
  BY SidesOf DEF Rank
<1>2. PICK c \in Operations : c = "verify"
  BY DEF Operations
<1>3. /\ Hears(n, a, c) /\ Heard(Held(a)) = "verify" /\ Held(a)[1] # None
      /\ Matches(mem[a], Head(wire[Held(a)]).dir)
  BY <1>1, <1>2 DEF Compares, HearsSums, Hears
<1>4. /\ wire[Held(a)] # << >> /\ Head(wire[Held(a)]) = wire[Held(a)][1]
      /\ 1 \in DOMAIN wire[Held(a)] /\ Busy(n, a, c, "operation") /\ Held(a) \in End
  BY <1>3, Hearing
<1>5. PICK g \in Transfer : Holds(n, a, g) /\ Held(a)[1] = g
  BY <1>3, <1>4, HoldsGroup
<1>6. req[g] # None /\ req[g].from = n /\ req[g].to = req[t].to
  BY <1>1, <1>5, HeldByAsker
<1>7. NodeOf(a) = n /\ req[t] \in Asks /\ Held(a)[2] = 0
  BY <1>1, <1>4, OperationIs
<1>8. req[t].from = n /\ req[g] \in Asks
  BY <1>1, <1>6, <1>7 DEF NodeOf, Inv, Control
<1>9. req[g].model = req[t].model
  BY <1>6, <1>7, <1>8 DEF OneModelEach
<1>10. Held(a) = <<g, 0>>
  BY <1>5, <1>7 DEF Held
<1>11. PICK m : m = wire[<<g, 0>>][1]
  OBVIOUS
<1>12. m.kind = "verify" /\ Matches(mem[a], m.dir) /\ 1 \in DOMAIN wire[<<g, 0>>]
  BY <1>3, <1>4, <1>10, <1>11 DEF Heard
<1>13. True(req, g, m, hashed)
  BY <1>11, <1>12 DEF Inv, Verified
<1>14. <<req[t].to, req[t].model, m.dir>> \in hashed
  BY <1>6, <1>9, <1>13 DEF True
<1>15. Arrived(t)
  BY <1>1, <1>12, <1>14 DEF Arrived
<1> QED BY <1>15 DEF Arrived, Matches, Files

LEMMA NextDone ==
  ASSUME OneModelEach
  PROVE  Inv /\ DoneMeansArrived /\ [Next]_vars => DoneMeansArrived'
<1> SUFFICES ASSUME Inv, DoneMeansArrived, [Next]_vars, NEW t \in Transfer, at'[<<t, 0>>] = "done"
             PROVE  Arrived(t)'
  BY DEF DoneMeansArrived, Arrived
<1>1. PICK a \in End : a = <<t, 0>> /\ a[1] = t /\ a[2] = 0
  BY SidesOf DEF Rank
<1>2. at \in [End -> Stages] /\ (at[a] # "off" => req[t] # None)
  BY <1>1 DEF Inv, Control
<1>3. ASSUME NEW u \in Transfer, NEW q \in Asks, Starts(u, q) PROVE Arrived(t)'
  <2>1. /\ req[u] = None /\ req' = [req EXCEPT ![u] = q] /\ UNCHANGED <<mem, hashed>>
        /\ \E s \in {"init", "error"} : at' = [at EXCEPT ![<<u, 0>>] = s]
    BY <1>3 DEF Starts, Moves
  <2>2. at[a] = "done"
    BY <1>1, <1>2, <2>1
  <2>3. req'[t] = req[t]
    BY <1>2, <2>1, <2>2
  <2> QED BY <1>1, <2>1, <2>2, <2>3, StillArrived
<1>4. ASSUME NEW u \in Transfer, Notifies(u) \/ IsTold(u) PROVE Arrived(t)'
  <2>1. /\ UNCHANGED <<req, mem, hashed>>
        /\ \E e, s : s # "done" /\ at' = [at EXCEPT ![e] = s]
    BY <1>4 DEF Notifies, IsTold, Moves
  <2>2. at[a] = "done"
    BY <1>1, <1>2, <2>1
  <2> QED BY <1>1, <2>1, <2>2, StillArrived
<1>5. ASSUME NEW u \in Transfer, Meets(u) PROVE Arrived(t)'
  <2>1. PICK x \in End, y \in End : x = <<u, 0>> /\ y = <<u, 1>> /\ x[2] = 0 /\ y[2] = 1
    BY SidesOf DEF Rank
  <2>2. /\ UNCHANGED <<req, mem, hashed>>
        /\ Busy(NodeOf(x), x, "init", "handshake") /\ Busy(NodeOf(y), y, "init", "handshake")
        /\ at' = [at EXCEPT ![x] = Opened(x, TRUE), ![y] = Opened(y, TRUE)] /\ req[u] # None
    BY <1>5, <2>1 DEF Meets
  <2>3. NodeOf(x) \in Node /\ NodeOf(y) \in Node
    BY <2>1, <2>2, KeyTypes DEF Inv, Control, NodeOf, Side
  <2>4. at[x] \in {"init", "told", "error"} /\ at[y] \in {"init", "told", "error"}
    BY <2>2, <2>3, BusyIs, AtWork
  <2>5. Opened(x, TRUE) # "done" /\ Opened(y, TRUE) # "done"
    BY <2>1, <2>4 DEF Opened
  <2>6. at[a] = "done"
    BY <1>1, <1>2, <2>2, <2>5
  <2> QED BY <1>1, <2>2, <2>6, StillArrived
<1>6. ASSUME NEW n \in Node, WorkerRuns(n) PROVE Arrived(t)'
  <2>1. /\ req' = req /\ hashed \subseteq hashed'
        /\ ((at[a] = "done" /\ mem'[a] = mem[a]) \/ Compares(n, a))
    BY <1>1, <1>6, OnlyBySums
  <2>2. CASE at[a] = "done" /\ mem'[a] = mem[a]
    BY <1>1, <2>1, <2>2, StillArrived
  <2>3. CASE Compares(n, a)
    <3>1. UNCHANGED <<req, mem, hashed>>
      BY <2>1, <2>3 DEF Compares, HearsSums
    <3> QED BY <1>1, <2>3, <3>1, ComparedIsArrived
  <2> QED BY <2>1, <2>2, <2>3
<1>7. ASSUME NEW n \in Node, NEW m \in Model, Edits(n, m) PROVE Arrived(t)'
  BY <1>7, StillArrived DEF Edits
<1>8. ASSUME NEW e \in End, GhostHears(e) PROVE Arrived(t)'
  BY <1>8, StillArrived DEF GhostHears
<1>9. CASE UNCHANGED vars
  BY <1>9, StillArrived DEF vars
<1> QED BY <1>3, <1>4, <1>5, <1>6, <1>7, <1>8, <1>9 DEF Next

LEMMA InitDone == Init => DoneMeansArrived
<1> SUFFICES ASSUME Init, NEW t \in Transfer PROVE at[<<t, 0>>] # "done"
  BY DEF DoneMeansArrived
<1>1. <<t, 0>> \in End
  BY DEF End, Rank
<1> QED BY <1>1 DEF Init

(* A transfer that is reported as done has had its files arrive: at some   *)
(* time all that its sender took checksums of was in the receiver's        *)
(* directory, for any nodes, groups used again, detached receives and      *)
(* messages that were meant for somebody else.                             *)
THEOREM DoneTheorem ==
  ASSUME OneModelEach
  PROVE  Spec => []DoneMeansArrived
<1>1. Init => Inv /\ DoneMeansArrived
  BY InitInv, InitDone
<1>2. Inv /\ DoneMeansArrived /\ [Next]_vars => (Inv /\ DoneMeansArrived)'
  BY NextInv, NextDone
<1> QED BY <1>1, <1>2, PTL DEF Spec
=============================================================================
