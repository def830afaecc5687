--------------------------- MODULE BuildConfigProofs ---------------------------
(***************************************************************************)
(* Theorems about BuildConfig, for any machine, any lists of modules and   *)
(* reservations, and any answers of the user.                              *)
(***************************************************************************)
EXTENDS BuildConfig, FiniteSetTheorems, WellFoundedInduction, TLAPS

(* The inductive invariant. *)

Places == {"hostname", "modules", "request", "lookup", "resources", "scheduler", "launcher",
           "nodes", "login", "detect", "search", "reservations", "render", "written", "raised"}

\* The reservations anybody may ask for or scontrol may list.
Reservations == UNION {ToSet(r) : r \in Requests \cup ReservLists}

AllPartitions ==
    [kind : {"login"}, of : {{}}, name : {NameOf("login")}] \cup
    [kind : {"type"}, of : Types, name : {PartitionName(n) : n \in Nat}] \cup
    [kind : {"reservation"}, of : Reservations, name : {NameOf(r) : r \in Reservations}]

\* What may be in modules_to_load.
AllModules == [name : ModuleNames, of : Nat]

TypeOK ==
    /\ userInput \in BOOLEAN /\ requested \in Requests /\ pc \in Places
    /\ class \in DOMAIN ModulesImpl /\ modsys \in {"nomod"} \cup ToSet(ModulesImpl)
    /\ modules \in Seq(AllModules) /\ mi \in Nat \ {0} /\ ok \in Nat
    /\ wanted \in Seq(ModuleNames)
    /\ sched \in {"none"} \cup Schedulers
    /\ listed \in BOOLEAN
    /\ result \in [Types -> Detection!Results] /\ phase \in {"running", "finished", "failed"}
    /\ partitions \in Seq(AllPartitions)
    /\ reservs \in ReservLists \cup {<<>>} /\ todo \in Seq(Reservations)

\* The modules stand for different requests, in their order, under the names
\* last given; a request was given up, or has its module in the list, until the
\* end of the round when it was given up in this one.
InOrder == \A i, j \in DOMAIN modules : i < j => modules[i].of < modules[j].of
UnderLastName ==
    \A i \in DOMAIN modules :
        modules[i].of \in DOMAIN wanted /\ modules[i].name = wanted[modules[i].of]
ToRemove == \A i \in DOMAIN modules : modules[i].of \in declined <=> i \in remove
AllThere == \A q \in DOMAIN wanted : q \in declined \/ \E i \in DOMAIN modules : modules[i].of = q

\* modules_ok counts positions of this round that hold a module of the machine.
Counts(good) == Cardinality(good) = ok /\ \A i \in good : Avail[modules[i].name] # {}

ListInv ==
    /\ pc \in {"hostname", "modules", "request"} =>
          /\ modules = <<>> /\ mi = 1 /\ ok = 0 /\ remove = {}
          /\ wanted = <<>> /\ declined = {}
    /\ pc = "lookup" =>
          /\ remove \subseteq 1..mi - 1 /\ mi <= Len(modules) + 1
          /\ InOrder /\ UnderLastName /\ ToRemove /\ AllThere
          /\ \E good \in SUBSET ((1..mi - 1) \ remove) : Counts(good)
    /\ NoModuleLost

\* The positions of the requested reservations that exist.
Known == Positions(requested, ToSet(reservs))

Handled == Len(requested) - Len(todo)

OfReserved == [i \in DOMAIN Reserved |-> Reserved[i].of]

\* The requested reservations have been served up to the ones that are left.
ServedInv ==
    /\ pc \notin {"reservations", "render", "written", "raised"} => Reserved = <<>>
    /\ pc = "reservations" /\ ~userInput =>
          /\ Len(todo) <= Len(requested)
          /\ \A k \in 1..Len(todo) : todo[k] = requested[Handled + k]
          /\ OfReserved = At(requested, Known \cap (1..Handled))
    /\ pc \in {"render", "written"} /\ ~userInput /\ HasSlurm => OfReserved = At(requested, Known)

IInv == TypeOK /\ ListInv /\ ServedInv

-----------------------------------------------------------------------------
(* What is taken from a list. *)

\* Induction, for a set of naturals.
LEMMA NatSetInduction ==
  ASSUME NEW S \in SUBSET Nat, 0 \in S, \A n \in Nat : n \in S => n + 1 \in S
  PROVE  S = Nat
<1> DEFINE R == OpToRel(<, Nat)
<1>1. SUFFICES ASSUME Nat \ S # {}  PROVE FALSE
  OBVIOUS
<1>2. IsWellFoundedOn(R, Nat)
  BY NatLessThanWellFounded
<1>3. PICK n \in Nat \ S : \A m \in Nat \ S : ~(<<m, n>> \in R)
  <2>1. Nat \ S \in SUBSET Nat
    OBVIOUS
  <2> QED  BY <1>1, <1>2, <2>1, WFMin
<1>4. n - 1 \in Nat
  <2> HIDE DEF R
  <2>1. n # 0
    BY <1>3
  <2> QED  BY <1>3, <2>1
<1>5. <<n - 1, n>> \in R
  BY <1>3, <1>4 DEF OpToRel
<1> HIDE DEF R
<1>6. n - 1 \in S
  BY <1>3, <1>4, <1>5
<1> QED  BY <1>3, <1>4, <1>6

\* A sequence of values, each made of the one before.
Steps(V) == [Nat -> [V -> V]]
Iterates(g, V, v, step) ==
  g \in [Nat -> V] /\ g[0] = v /\ \A n \in Nat : g[n + 1] = step[n][g[n]]

LEMMA Recursion ==
  ASSUME NEW V, NEW v \in V, NEW step \in Steps(V)
  PROVE  \E g : Iterates(g, V, v, step)
<1> USE DEF Steps
<1> DEFINE G(n) == {h \in [0..n -> V] : h[0] = v /\ \A i \in 0..n - 1 : h[i + 1] = step[i][h[i]]}
           S == {n \in Nat : \E h \in [0..n -> V] :
                   /\ h \in G(n)
                   /\ \A m \in Nat : n <= m => \A k \in G(m) : k[n] = h[n]}
<1>1. 0 \in S
  <2> DEFINE h == [i \in 0..0 |-> v]
  <2>1. h \in [0..0 -> V] /\ h[0] = v /\ 0..0 - 1 = {}
    OBVIOUS
  <2>2. h \in G(0)
    BY <2>1
  <2>3. \A m \in Nat : \A k \in G(m) : k[0] = h[0]
    BY <2>1
  <2> QED  BY <2>1, <2>2, <2>3
<1>2. ASSUME NEW n \in Nat, n \in S  PROVE n + 1 \in S
  <2>1. PICK h \in [0..n -> V] : h \in G(n) /\ \A m \in Nat : n <= m => \A k \in G(m) : k[n] = h[n]
    BY <1>2
  <2> DEFINE w == step[n][h[n]]
             j == [i \in 0..n + 1 |-> IF i <= n THEN h[i] ELSE w]
  <2>2. w \in V /\ n \in 0..n
    BY <2>1
  <2>3. /\ j \in [0..n + 1 -> V] /\ j[n + 1] = w /\ j[0] = h[0]
        /\ \A i \in 0..n : j[i] = h[i]
    BY <2>1, <2>2
  <2>4. j \in G(n + 1)
    <3>1. \A i \in 0..n : j[i + 1] = step[i][j[i]]
      <4> SUFFICES ASSUME NEW i \in 0..n  PROVE j[i + 1] = step[i][j[i]]
        OBVIOUS
      <4>1. CASE i = n
        BY <2>2, <2>3, <4>1
      <4>2. CASE i # n
        <5>1. i \in 0..n - 1 /\ i + 1 \in 0..n
          BY <4>2
        <5> HIDE DEF j, w
        <5> QED  BY <2>1, <2>3, <5>1
      <4> QED  BY <4>1, <4>2
    <3>2. (n + 1) - 1 = n
      OBVIOUS
    <3>3. j[0] = v
      BY <2>1, <2>3
    <3> HIDE DEF j, w
    <3> QED  BY <2>3, <3>1, <3>2, <3>3
  <2>5. ASSUME NEW m \in Nat, n + 1 <= m, NEW k \in G(m)  PROVE k[n + 1] = j[n + 1]
    <3>1. n \in 0..m - 1 /\ n <= m
      BY <2>5
    <3>2. k[n + 1] = step[n][k[n]]
      BY <3>1
    <3>3. k[n] = h[n]
      BY <2>1, <3>1
    <3> QED  BY <2>3, <3>2, <3>3
  <2> HIDE DEF G, j
  <2> QED  BY <2>3, <2>4, <2>5
<1>3. S = Nat
  <2>1. S \in SUBSET Nat
    OBVIOUS
  <2> HIDE DEF S
  <2> QED  BY ONLY <1>1, <1>2, <2>1, NatSetInduction
<1> DEFINE g == [n \in Nat |-> (CHOOSE h : h \in G(n))[n]]
<1>4. \A n \in Nat : (CHOOSE h : h \in G(n)) \in G(n)
  <2>1. \A n \in Nat : \E h : h \in G(n)
    BY <1>3
  <2> HIDE DEF G
  <2> QED  BY <2>1
<1>5. \A n \in Nat : \A m \in Nat : n <= m => \A k \in G(m) : k[n] = g[n]
  <2> SUFFICES ASSUME NEW n \in Nat, NEW m \in Nat, n <= m, NEW k \in G(m)  PROVE k[n] = g[n]
    OBVIOUS
  <2>1. PICK h \in [0..n -> V] : h \in G(n) /\ \A l \in Nat : n <= l => \A x \in G(l) : x[n] = h[n]
    BY <1>3
  <2> HIDE DEF G
  <2>2. n <= n
    OBVIOUS
  <2>3. (CHOOSE x : x \in G(n))[n] = h[n]
    BY <1>4, <2>1, <2>2
  <2>4. k[n] = h[n]
    BY <2>1
  <2> QED  BY <2>3, <2>4
<1>6. \A n \in Nat : g[n] \in V
  <2> SUFFICES ASSUME NEW n \in Nat  PROVE (CHOOSE h : h \in G(n))[n] \in V
    OBVIOUS
  <2> DEFINE c == CHOOSE h : h \in G(n)
  <2>1. c \in G(n)
    BY <1>4
  <2> HIDE DEF c
  <2>2. c \in [0..n -> V] /\ n \in 0..n
    BY <2>1
  <2>3. c[n] \in V
    BY <2>2
  <2> QED  BY <2>3 DEF c
<1>7. g[0] = v
  <2> DEFINE c == CHOOSE h : h \in G(0)
  <2>1. c \in G(0)
    BY <1>4
  <2> HIDE DEF c
  <2>2. c[0] = v
    BY <2>1
  <2> QED  BY <2>2 DEF c
<1>8. ASSUME NEW n \in Nat  PROVE g[n + 1] = step[n][g[n]]
  <2> DEFINE c == CHOOSE h : h \in G(n + 1)
  <2>1. c \in G(n + 1)
    <3>1. n + 1 \in Nat
      OBVIOUS
    <3> HIDE DEF G
    <3> QED  BY <1>4, <3>1
  <2> HIDE DEF c
  <2>2. c[n + 1] = step[n][c[n]]
    BY <2>1
  <2>3. c[n + 1] = g[n + 1] /\ c[n] = g[n]
    <3>1. n <= n + 1 /\ n + 1 <= n + 1 /\ n + 1 \in Nat
      OBVIOUS
    <3> HIDE DEF G, g
    <3> QED  BY <1>5, <2>1, <3>1
  <2> QED  BY <2>2, <2>3
<1>9. g \in [Nat -> V]
  BY <1>6
<1> HIDE DEF g
<1>10. Iterates(g, V, v, step)
  BY <1>7, <1>8, <1>9 DEF Iterates
<1> QED  BY <1>10

\* What has been taken from the first positions of a list.
Taken(g, T, list, I) ==
  /\ g \in [Nat -> Seq(T)] /\ g[0] = <<>>
  /\ \A n \in 1..Len(list) : g[n] = IF n \in I THEN Append(g[n - 1], list[n]) ELSE g[n - 1]

LEMMA AtIs ==
  ASSUME NEW T, NEW list \in Seq(T), NEW I
  PROVE  \E g : Taken(g, T, list, I) /\ At(list, I) = g[Len(list)]
<1> DEFINE L == Len(list)
           OK(n) == n <= L /\ n \in I
           step == [n \in Nat |-> [q \in Seq(T) |->
                       IF OK(n + 1) THEN Append(q, list[n + 1]) ELSE q]]
<1>1. L \in Nat /\ \A n \in 1..L : list[n] \in T
  OBVIOUS
<1> HIDE DEF L
<1>2. <<>> \in Seq(T)
  OBVIOUS
<1>3. step \in [Nat -> [Seq(T) -> Seq(T)]]
  <2> SUFFICES ASSUME NEW n \in Nat, NEW q \in Seq(T), OK(n + 1)
               PROVE  Append(q, list[n + 1]) \in Seq(T)
    OBVIOUS
  <2>1. n + 1 \in 1..L
    BY <1>1
  <2>2. list[n + 1] \in T
    BY <1>1, <2>1
  <2> QED  BY <2>2
<1>4. PICK g \in [Nat -> Seq(T)] : g[0] = <<>> /\ \A n \in Nat : g[n + 1] = step[n][g[n]]
  <2> DEFINE V == Seq(T)
             v == <<>>
  <2>1. v \in V /\ step \in Steps(V)
    BY <1>2, <1>3 DEF Steps
  <2> HIDE DEF step, V, v
  <2>2. PICK g : Iterates(g, V, v, step)
    BY ONLY <2>1, Recursion
  <2> QED  BY <2>2 DEF Iterates, V, v
<1>5. \A n \in Nat : g[n + 1] = IF OK(n + 1) THEN Append(g[n], list[n + 1]) ELSE g[n]
  BY <1>4
<1> HIDE DEF step
<1> DEFINE Holds(f) == f = [n \in 0..L |->
                         IF n = 0 THEN <<>>
                         ELSE IF n \in I THEN Append(f[n - 1], list[n])
                         ELSE f[n - 1]]
           taken == CHOOSE f : Holds(f)
<1>6. ASSUME NEW n \in 1..L
      PROVE  g[n] = IF n \in I THEN Append(g[n - 1], list[n]) ELSE g[n - 1]
  <2>1. n - 1 \in Nat /\ (n - 1) + 1 = n /\ n <= L
    BY <1>1
  <2> QED  BY <1>5, <2>1
<1>7. Holds([n \in 0..L |-> g[n]])
  <2>1. \A n \in 1..L : n - 1 \in 0..L
    BY <1>1
  <2>2. \A n \in 0..L : n # 0 => n \in 1..L
    BY <1>1
  <2> QED  BY <1>4, <1>6, <2>1, <2>2
<1>8. Holds(taken)
  <2> HIDE DEF Holds
  <2> QED  BY <1>7
<1>9. At(list, I) = taken[L]
  BY DEF At, L
<1> HIDE DEF taken
<1>10. taken[0] = <<>>
       /\ \A n \in 1..L : taken[n] = IF n \in I THEN Append(taken[n - 1], list[n]) ELSE taken[n - 1]
  <2>1. \A n \in 0..L : taken[n] = IF n = 0 THEN <<>>
                              ELSE IF n \in I THEN Append(taken[n - 1], list[n])
                              ELSE taken[n - 1]
    BY <1>8
  <2>2. 0 \in 0..L /\ \A n \in 1..L : n \in 0..L /\ n # 0
    BY <1>1
  <2> QED  BY <1>1, <2>1, <2>2
<1> DEFINE S == {n \in Nat : n <= L => taken[n] = g[n]}
<1>11. S = Nat
  <2>1. 0 \in S
    BY <1>4, <1>10
  <2>2. ASSUME NEW n \in Nat, n \in S  PROVE n + 1 \in S
    <3> SUFFICES ASSUME n + 1 <= L  PROVE taken[n + 1] = g[n + 1]
      OBVIOUS
    <3>1. n + 1 \in 1..L /\ (n + 1) - 1 = n /\ n <= L
      BY <1>1
    <3>2. taken[n] = g[n]
      BY <2>2, <3>1
    <3> QED  BY <1>6, <1>10, <3>1, <3>2
  <2>3. S \in SUBSET Nat
    OBVIOUS
  <2> HIDE DEF S
  <2> QED  BY ONLY <2>1, <2>2, <2>3, NatSetInduction
<1>12. taken[L] = g[L]
  <2>1. L <= L
    BY <1>1
  <2>2. L \in S
    BY <1>1, <1>11
  <2> QED  BY <2>1, <2>2
<1>13. Taken(g, T, list, I)
  BY <1>4, <1>6 DEF Taken, L
<1> QED  BY <1>9, <1>12, <1>13 DEF L

\* Lists and positions that begin alike give the same at first.
LEMMA TakenAgree ==
  ASSUME NEW T, NEW g, NEW h, NEW p \in Seq(T), NEW q \in Seq(T), NEW I, NEW J,
         Taken(g, T, p, I), Taken(h, T, q, J),
         NEW n \in Nat, n <= Len(p), n <= Len(q),
         \A i \in 1..n : p[i] = q[i] /\ (i \in I <=> i \in J)
  PROVE  g[n] = h[n]
<1> DEFINE S == {m \in Nat : m <= n => g[m] = h[m]}
<1>1. S = Nat
  <2>1. 0 \in S
    BY DEF Taken
  <2>2. ASSUME NEW m \in Nat, m \in S  PROVE m + 1 \in S
    <3> SUFFICES ASSUME m + 1 <= n  PROVE g[m + 1] = h[m + 1]
      OBVIOUS
    <3> DEFINE k == m + 1
    <3>1. k \in 1..n /\ k \in 1..Len(p) /\ k \in 1..Len(q) /\ k - 1 = m /\ m <= n
      OBVIOUS
    <3> HIDE DEF k
    <3>2. g[k] = IF k \in I THEN Append(g[m], p[k]) ELSE g[m]
      BY <3>1 DEF Taken
    <3>3. h[k] = IF k \in J THEN Append(h[m], q[k]) ELSE h[m]
      BY <3>1 DEF Taken
    <3>4. g[m] = h[m]
      BY <2>2, <3>1
    <3>5. g[k] = h[k]
      BY <3>1, <3>2, <3>3, <3>4
    <3> QED  BY <3>5 DEF k
  <2>3. S \in SUBSET Nat
    OBVIOUS
  <2> HIDE DEF S
  <2> QED  BY ONLY <2>1, <2>2, <2>3, NatSetInduction
<1>2. n \in S /\ n <= n
  BY <1>1
<1> QED  BY <1>2

\* Nothing is taken where there is no position.
LEMMA TakenStays ==
  ASSUME NEW T, NEW g, NEW p \in Seq(T), NEW I, Taken(g, T, p, I),
         NEW n \in Nat, NEW l \in Nat, n <= l, l <= Len(p), \A i \in n + 1..l : i \notin I
  PROVE  g[l] = g[n]
<1> DEFINE S == {m \in Nat : n <= m /\ m <= l => g[m] = g[n]}
<1>1. S = Nat
  <2>1. 0 \in S
    OBVIOUS
  <2>2. ASSUME NEW m \in Nat, m \in S  PROVE m + 1 \in S
    <3> SUFFICES ASSUME n <= m + 1, m + 1 <= l  PROVE g[m + 1] = g[n]
      OBVIOUS
    <3>1. CASE n = m + 1
      BY <3>1
    <3>2. CASE n # m + 1
      <4> DEFINE k == m + 1
      <4>1. k \in 1..Len(p) /\ k - 1 = m /\ n <= m /\ m <= l /\ k \in n + 1..l
        BY <3>2
      <4> HIDE DEF k
      <4>2. g[k] = g[m]
        BY <4>1 DEF Taken
      <4>3. g[m] = g[n]
        BY <2>2, <4>1
      <4> QED  BY <4>2, <4>3 DEF k
    <3> QED  BY <3>1, <3>2
  <2>3. S \in SUBSET Nat
    OBVIOUS
  <2> HIDE DEF S
  <2> QED  BY ONLY <2>1, <2>2, <2>3, NatSetInduction
<1>2. l \in S
  BY <1>1
<1> QED  BY <1>2

\* What is taken is of the list, and as many as there are positions.
LEMMA AtTakes ==
  ASSUME NEW T, NEW list \in Seq(T), NEW I
  PROVE  /\ At(list, I) \in Seq(T)
         /\ Len(At(list, I)) = Cardinality(I \cap (1..Len(list)))
         /\ \A k \in 1..Len(At(list, I)) : \E i \in I \cap (1..Len(list)) : At(list, I)[k] = list[i]
<1> DEFINE L == Len(list)
<1>1. PICK g : Taken(g, T, list, I) /\ At(list, I) = g[L]
  BY AtIs
<1>2. L \in Nat /\ g \in [Nat -> Seq(T)] /\ g[0] = <<>> /\ \A n \in 1..L : list[n] \in T
  BY <1>1 DEF Taken
<1> HIDE DEF L
<1> DEFINE Right(n) == /\ Len(g[n]) = Cardinality(I \cap (1..n))
                       /\ \A k \in 1..Len(g[n]) : \E i \in I \cap (1..n) : g[n][k] = list[i]
           S == {n \in Nat : n <= L => Right(n)}
<1>3. S = Nat
  <2>1. 0 \in S
    <3>1. I \cap (1..0) = {} /\ Len(g[0]) = 0 /\ 1..0 = {}
      BY <1>2
    <3>2. Cardinality({}) = 0
      BY FS_EmptySet
    <3> QED  BY <3>1, <3>2
  <2>2. ASSUME NEW n \in Nat, n \in S  PROVE n + 1 \in S
    <3> SUFFICES ASSUME n + 1 <= L  PROVE Right(n + 1)
      <4> HIDE DEF Right
      <4> QED  OBVIOUS
    <3>a. n + 1 \in 1..L /\ (n + 1) - 1 = n /\ n <= L
      BY <1>2
    <3>b. 1..n + 1 = (1..n) \cup {n + 1} /\ n + 1 \notin 1..n
      OBVIOUS
    <3> DEFINE m == n + 1
               q == g[n]
               x == list[m]
    <3>1. m \in 1..L /\ m - 1 = n /\ n <= L /\ 1..m = (1..n) \cup {m} /\ m \notin 1..n
      BY <3>a, <3>b
    <3> HIDE DEF m
    <3>2. /\ q \in Seq(T) /\ x \in T /\ Len(q) = Cardinality(I \cap (1..n))
          /\ \A k \in 1..Len(q) : \E i \in I \cap (1..n) : q[k] = list[i]
      BY <1>2, <2>2, <3>1
    <3>3. g[m] = IF m \in I THEN Append(q, x) ELSE q
      BY <1>1, <3>1 DEF Taken, L
    <3> HIDE DEF q, x
    <3>4. CASE m \notin I
      <4>1. I \cap (1..m) = I \cap (1..n) /\ g[m] = q
        BY <3>1, <3>3, <3>4
      <4>2. Right(m)
        BY <3>2, <4>1
      <4> QED  BY <4>2 DEF m
    <3>5. CASE m \in I
      <4> DEFINE D == I \cap (1..n)
      <4>1. I \cap (1..m) = D \cup {m} /\ m \notin D
        BY <3>1, <3>5
      <4>2. IsFiniteSet(D)
        <5>1. IsFiniteSet(1..n)
          BY FS_Interval
        <5> QED  BY <5>1, FS_Subset
      <4>3. Cardinality(D \cup {m}) = Cardinality(D) + 1
        <5> HIDE DEF D
        <5> QED  BY <4>1, <4>2, FS_AddElement
      <4>a. q \in Seq(T) /\ x \in T
        BY <3>2
      <4>b. /\ Len(q) \in Nat /\ Len(Append(q, x)) = Len(q) + 1
            /\ Append(q, x)[Len(q) + 1] = x
            /\ \A k \in 1..Len(q) : Append(q, x)[k] = q[k]
        BY ONLY <4>a
      <4>4. /\ Len(q) \in Nat /\ Len(g[m]) = Len(q) + 1 /\ g[m][Len(q) + 1] = x
            /\ \A k \in 1..Len(q) : g[m][k] = q[k]
        BY <3>3, <3>5, <4>b
      <4>5. Len(g[m]) = Cardinality(I \cap (1..m))
        BY <3>2, <4>1, <4>3, <4>4
      <4>6. ASSUME NEW k \in 1..Len(g[m])  PROVE \E i \in I \cap (1..m) : g[m][k] = list[i]
        <5>1. CASE k \in 1..Len(q)
          <6>1. g[m][k] = q[k]
            BY <4>4, <5>1
          <6> QED  BY <3>2, <4>1, <5>1, <6>1
        <5>2. CASE k = Len(q) + 1
          <6>1. g[m][k] = list[m]
            BY <4>4, <5>2 DEF x
          <6>2. m \in I \cap (1..m)
            BY <4>1
          <6> QED  BY <6>1, <6>2
        <5> QED  BY <3>2, <4>4, <5>1, <5>2
      <4> HIDE DEF D
      <4>7. Right(m)
        BY <4>5, <4>6
      <4> QED  BY <4>7 DEF m
    <3> QED  BY <3>4, <3>5
  <2>3. S \in SUBSET Nat
    OBVIOUS
  <2> HIDE DEF S
  <2> QED  BY ONLY <2>1, <2>2, <2>3, NatSetInduction
<1>4. L <= L
  BY <1>2
<1>5. L \in S
  BY <1>2, <1>3
<1>6. Right(L)
  BY <1>4, <1>5
<1> QED  BY <1>1, <1>2, <1>6 DEF L

\* ... and in the order of the positions, each of them once.
Ordered(f, q, list, D) ==
  /\ f \in [1..Len(q) -> D]
  /\ \A k \in 1..Len(q) : q[k] = list[f[k]]
  /\ \A k, l \in 1..Len(q) : k < l => f[k] < f[l]
  /\ \A i \in D : \E k \in 1..Len(q) : f[k] = i

LEMMA AtOrdered ==
  ASSUME NEW T, NEW list \in Seq(T), NEW I
  PROVE  \E f : Ordered(f, At(list, I), list, I \cap (1..Len(list)))
<1> DEFINE L == Len(list)
<1>1. PICK g : Taken(g, T, list, I) /\ At(list, I) = g[L]
  BY AtIs
<1>2. L \in Nat /\ g \in [Nat -> Seq(T)] /\ g[0] = <<>> /\ \A n \in 1..L : list[n] \in T
  BY <1>1 DEF Taken
<1> HIDE DEF L
<1> DEFINE Right(n) == \E f : Ordered(f, g[n], list, I \cap (1..n))
           S == {n \in Nat : n <= L => Right(n)}
<1>3. S = Nat
  <2>1. 0 \in S
    <3> DEFINE f == [k \in 1..0 |-> 0]
    <3>1. I \cap (1..0) = {} /\ Len(g[0]) = 0 /\ 1..0 = {}
      BY <1>2
    <3>2. Ordered(f, g[0], list, I \cap (1..0))
      BY <3>1 DEF Ordered
    <3> QED  BY <3>2
  <2>2. ASSUME NEW n \in Nat, n \in S  PROVE n + 1 \in S
    <3> SUFFICES ASSUME n + 1 <= L  PROVE Right(n + 1)
      <4> HIDE DEF Right
      <4> QED  OBVIOUS
    <3> DEFINE m == n + 1
               q == g[n]
               D == I \cap (1..n)
    <3>a. n + 1 \in 1..L /\ (n + 1) - 1 = n /\ n <= L
      BY <1>2
    <3>b. 1..n + 1 = (1..n) \cup {n + 1} /\ n + 1 \notin 1..n
      OBVIOUS
    <3>1. m \in 1..L /\ m - 1 = n /\ n <= L /\ 1..m = (1..n) \cup {m} /\ m \notin 1..n
      BY <3>a, <3>b
    <3>2. \A i \in 1..n : i < m
      OBVIOUS
    <3> HIDE DEF m
    <3>3. q \in Seq(T) /\ list[m] \in T
      BY <1>2, <3>1
    <3>4. PICK f : Ordered(f, q, list, D)
      BY <2>2, <3>1
    <3>5. g[m] = IF m \in I THEN Append(q, list[m]) ELSE q
      BY <1>1, <3>1 DEF Taken, L
    <3> HIDE DEF q
    <3>6. CASE m \notin I
      <4>1. I \cap (1..m) = D /\ g[m] = q
        BY <3>1, <3>5, <3>6
      <4>2. Right(m)
        BY <3>4, <4>1
      <4> QED  BY <4>2 DEF m
    <3>7. CASE m \in I
      <4> DEFINE N == Len(q)
                 c == Append(q, list[m])
                 h == [k \in 1..N + 1 |-> IF k <= N THEN f[k] ELSE m]
                 E == I \cap (1..m)
      <4>1. /\ N \in Nat /\ Len(c) = N + 1 /\ c[N + 1] = list[m]
            /\ \A k \in 1..N : c[k] = q[k]
        BY <3>3
      <4>2. g[m] = c /\ E = D \cup {m} /\ m \in E
        BY <3>1, <3>5, <3>7
      <4>3. /\ f \in [1..N -> D]
            /\ \A k \in 1..N : q[k] = list[f[k]] /\ f[k] \in D /\ f[k] < m
            /\ \A k, l \in 1..N : k < l => f[k] < f[l]
            /\ \A i \in D : \E k \in 1..N : f[k] = i
        BY <3>2, <3>4 DEF Ordered
      <4> HIDE DEF N, c, E, D
      <4>4. /\ h \in [1..N + 1 -> E] /\ h[N + 1] = m
            /\ \A k \in 1..N : h[k] = f[k] /\ k \in 1..N + 1
            /\ \A k \in 1..N + 1 : k \in 1..N \/ k = N + 1
        BY <4>1, <4>2, <4>3
      <4> HIDE DEF h
      <4>5. \A k \in 1..N + 1 : c[k] = list[h[k]]
        BY <4>1, <4>3, <4>4
      <4>6. \A k, l \in 1..N + 1 : k < l => h[k] < h[l]
        <5> SUFFICES ASSUME NEW k \in 1..N + 1, NEW l \in 1..N + 1, k < l  PROVE h[k] < h[l]
          OBVIOUS
        <5>1. k \in 1..N
          BY <4>1
        <5>2. CASE l \in 1..N
          BY <4>3, <4>4, <5>1, <5>2
        <5>3. CASE l = N + 1
          BY <4>3, <4>4, <5>1, <5>3
        <5> QED  BY <4>4, <5>2, <5>3
      <4>7. \A i \in E : \E k \in 1..N + 1 : h[k] = i
        <5> SUFFICES ASSUME NEW i \in E  PROVE \E k \in 1..N + 1 : h[k] = i
          OBVIOUS
        <5>1. CASE i \in D
          BY <4>3, <4>4, <5>1
        <5>2. CASE i = m
          <6>1. N + 1 \in 1..N + 1
            BY <4>1
          <6> QED  BY <4>4, <5>2, <6>1
        <5> QED  BY <4>2, <5>1, <5>2
      <4>8. Ordered(h, g[m], list, E)
        BY <4>1, <4>2, <4>4, <4>5, <4>6, <4>7 DEF Ordered
      <4>9. Right(m)
        BY <4>8 DEF E
      <4> QED  BY <4>9 DEF m
    <3> QED  BY <3>6, <3>7
  <2>3. S \in SUBSET Nat
    OBVIOUS
  <2> HIDE DEF S
  <2> QED  BY ONLY <2>1, <2>2, <2>3, NatSetInduction
<1>4. Right(L)
  <2>1. L <= L
    BY <1>2
  <2>2. L \in S
    BY <1>2, <1>3
  <2> HIDE DEF Right
  <2> QED  BY <2>1, <2>2
<1> QED  BY <1>1, <1>4 DEF L

\* One more element at the end.
LEMMA AtAppended ==
  ASSUME NEW T, NEW list \in Seq(T), NEW x \in T, NEW I, NEW J,
         \A i \in 1..Len(list) : i \in I <=> i \in J
  PROVE  At(Append(list, x), J) =
            IF Len(list) + 1 \in J THEN Append(At(list, I), x) ELSE At(list, I)
<1> DEFINE L == Len(list)
           a == Append(list, x)
<1>1. /\ L \in Nat /\ a \in Seq(T) /\ Len(a) = L + 1 /\ a[L + 1] = x
      /\ \A i \in 1..L : list[i] = a[i]
      /\ L + 1 \in 1..Len(a) /\ (L + 1) - 1 = L /\ L <= L /\ L <= Len(a)
  OBVIOUS
<1>2. PICK g : Taken(g, T, list, I) /\ At(list, I) = g[L]
  BY AtIs
<1> HIDE DEF a
<1>3. PICK h : Taken(h, T, a, J) /\ At(a, J) = h[Len(a)]
  BY <1>1, AtIs
<1>4. h[L + 1] = IF L + 1 \in J THEN Append(h[L], x) ELSE h[L]
  BY <1>1, <1>3 DEF Taken
<1>5. h[L] = g[L]
  <2>1. \A i \in 1..L : list[i] = a[i] /\ (i \in I <=> i \in J)
    BY <1>1
  <2>2. list \in Seq(T) /\ L <= Len(list)
    BY <1>1
  <2>3. L \in Nat /\ a \in Seq(T) /\ L <= Len(a)
    BY <1>1
  <2>4. Taken(g, T, list, I) /\ Taken(h, T, a, J)
    BY <1>2, <1>3
  <2> HIDE DEF L
  <2>5. g[L] = h[L]
    BY ONLY <2>1, <2>2, <2>3, <2>4, TakenAgree
  <2> QED  BY <2>5
<1> QED  BY <1>1, <1>2, <1>3, <1>4, <1>5 DEF a

\* One more position.
LEMMA AtNext ==
  ASSUME NEW T, NEW list \in Seq(T), NEW I, NEW m \in 1..Len(list)
  PROVE  At(list, I \cap (1..m)) =
            IF m \in I THEN Append(At(list, I \cap (1..m - 1)), list[m])
            ELSE At(list, I \cap (1..m - 1))
<1> DEFINE L == Len(list)
           n == m - 1
           A == I \cap (1..n)
           B == I \cap (1..m)
<1>1. /\ L \in Nat /\ n \in Nat /\ n <= L /\ m \in Nat /\ m <= L /\ L <= L
      /\ m - 1 = n /\ m \in 1..L /\ list \in Seq(T)
  OBVIOUS
<1>2. PICK g : Taken(g, T, list, A) /\ At(list, A) = g[L]
  BY AtIs
<1>3. PICK h : Taken(h, T, list, B) /\ At(list, B) = h[L]
  BY AtIs
<1>4. /\ \A i \in 1..n : list[i] = list[i] /\ (i \in A <=> i \in B)
      /\ \A i \in n + 1..L : i \notin A
      /\ \A i \in m + 1..L : i \notin B
      /\ m \in B <=> m \in I
  OBVIOUS
<1>5. L = Len(list)
  OBVIOUS
<1> HIDE DEF A, B, L, n
<1>6. g[n] = h[n]
  BY ONLY <1>1, <1>2, <1>3, <1>4, <1>5, TakenAgree
<1>7. g[L] = g[n]
  BY ONLY <1>1, <1>2, <1>4, <1>5, TakenStays
<1>8. h[L] = h[m]
  BY ONLY <1>1, <1>3, <1>4, <1>5, TakenStays
<1>9. h[m] = IF m \in B THEN Append(h[n], list[m]) ELSE h[n]
  BY <1>1, <1>3, <1>5 DEF Taken
<1> QED  BY <1>2, <1>3, <1>4, <1>6, <1>7, <1>8, <1>9 DEF A, B, n

LEMMA AtNone ==
  ASSUME NEW T, NEW list \in Seq(T), NEW I, \A i \in 1..Len(list) : i \notin I
  PROVE  At(list, I) = <<>>
<1>1. I \cap (1..Len(list)) = {}
  OBVIOUS
<1>2. At(list, I) \in Seq(T) /\ Len(At(list, I)) = 0
  BY <1>1, AtTakes, FS_EmptySet
<1> QED  BY <1>2

-----------------------------------------------------------------------------
(* The steps. *)

LEMMA InitInv == Init => IInv
<1> SUFFICES ASSUME Init  PROVE IInv
  OBVIOUS
<1>1. TypeOK
  <2>1. /\ <<>> \in Seq(AllModules) /\ <<>> \in Seq(ModuleNames) /\ <<>> \in Seq(AllPartitions)
        /\ <<>> \in Seq(Reservations) /\ 1 \in DOMAIN ModulesImpl
    BY DEF ModulesImpl
  <2>2. result \in [Types -> Detection!Results] /\ phase = "running"
    BY DEF Init, Detection!PromiseInit, Detection!Results
  <2>3. /\ userInput \in BOOLEAN /\ requested \in Requests /\ pc = "hostname" /\ class = 1
        /\ modsys = "nomod" /\ modules = <<>> /\ mi = 1 /\ ok = 0 /\ wanted = <<>>
        /\ sched = "none" /\ listed = FALSE /\ partitions = <<>> /\ reservs = <<>> /\ todo = <<>>
    BY DEF Init
  <2>4. pc \in Places /\ mi \in Nat \ {0} /\ ok \in Nat
    BY ONLY <2>3 DEF Places
  <2>5. /\ modules \in Seq(AllModules) /\ wanted \in Seq(ModuleNames)
        /\ partitions \in Seq(AllPartitions) /\ todo \in Seq(Reservations) /\ class \in DOMAIN ModulesImpl
    BY <2>1, <2>3
  <2>6. listed \in BOOLEAN
    BY <2>3
  <2> QED  BY <2>2, <2>3, <2>4, <2>5, <2>6 DEF TypeOK
<1>2. ListInv
  BY DEF Init, ListInv, NoModuleLost, AfterRequest
<1>3. ServedInv
  <2>1. partitions \in Seq(AllPartitions) /\ Len(partitions) = 0
    BY <1>1 DEF Init, TypeOK
  <2> DEFINE I == {i \in DOMAIN partitions : partitions[i].kind = "reservation"}
  <2>2. Reserved = At(partitions, I) /\ 1..Len(partitions) = {}
    BY <2>1 DEF Reserved
  <2> HIDE DEF I
  <2>3. Reserved = <<>>
    BY <2>1, <2>2, AtNone
  <2> QED  BY <2>3 DEF Init, ServedInv
<1> QED  BY <1>1, <1>2, <1>3 DEF IInv

\* After the modules are asked for, their list does not change.
LEMMA ListKept ==
  ASSUME ListInv, AfterRequest, UNCHANGED asked,
         pc' \notin {"hostname", "modules", "request", "lookup"}
  PROVE  ListInv'
BY DEF ListInv, NoModuleLost, AfterRequest, asked

\* Before the reservations no partition is one.
LEMMA ServedKept ==
  ASSUME ServedInv, UNCHANGED partitions,
         pc \notin {"reservations", "render", "written", "raised"},
         pc' \notin {"reservations", "render", "written"}
  PROVE  ServedInv'
<1>1. Reserved' = Reserved
  BY DEF Reserved
<1> QED  BY <1>1 DEF ServedInv

\* A partition is added at the end.
LEMMA Appended ==
  ASSUME TypeOK, NEW p \in AllPartitions, AppendPartition(p)
  PROVE  /\ partitions' \in Seq(AllPartitions) /\ Reserved \in Seq(AllPartitions)
         /\ Reserved' = IF p.kind = "reservation" THEN Append(Reserved, p) ELSE Reserved
<1> DEFINE I == {i \in DOMAIN partitions : partitions[i].kind = "reservation"}
           q == Append(partitions, p)
           J == {i \in DOMAIN q : q[i].kind = "reservation"}
<1>1. partitions \in Seq(AllPartitions) /\ partitions' = q
  BY DEF TypeOK, AppendPartition
<1>2. /\ q \in Seq(AllPartitions) /\ DOMAIN q = 1..Len(partitions) + 1
      /\ q[Len(partitions) + 1] = p /\ Len(partitions) \in Nat
      /\ \A i \in 1..Len(partitions) : q[i] = partitions[i]
  BY <1>1
<1>3. DOMAIN partitions = 1..Len(partitions)
  BY <1>1
<1> HIDE DEF q
<1>4. \A i \in 1..Len(partitions) : i \in I <=> i \in J
  BY <1>2, <1>3
<1>5. Len(partitions) + 1 \in J <=> p.kind = "reservation"
  BY <1>2
<1>6. Reserved = At(partitions, I) /\ Reserved' = At(q, J)
  BY <1>1 DEF Reserved
<1> HIDE DEF I, J
<1>7. At(Append(partitions, p), J) =
         IF Len(partitions) + 1 \in J THEN Append(At(partitions, I), p) ELSE At(partitions, I)
  BY ONLY <1>1, <1>4, p \in AllPartitions, AtAppended
<1>8. Reserved \in Seq(AllPartitions)
  BY <1>1, <1>6, AtTakes
<1> QED  BY <1>1, <1>2, <1>5, <1>6, <1>7, <1>8 DEF q

\* The pops keep the other positions, in their order.
LEMMA WithoutIs ==
  ASSUME NEW T, NEW list \in Seq(T), NEW rm
  PROVE  /\ Without(list, rm) \in Seq(T)
         /\ \E f : Ordered(f, Without(list, rm), list, (1..Len(list)) \ rm)
<1> DEFINE I == {i \in 1..Len(list) : i \notin rm}
<1>1. I \cap (1..Len(list)) = (1..Len(list)) \ rm
  OBVIOUS
<1>2. Without(list, rm) = At(list, I)
  BY DEF Without
<1> HIDE DEF I
<1>3. /\ At(list, I) \in Seq(T)
      /\ \E f : Ordered(f, At(list, I), list, I \cap (1..Len(list)))
  BY AtTakes, AtOrdered
<1> QED  BY <1>1, <1>2, <1>3

\* What a list the user types becomes.
LEMMA TypedIs ==
  ASSUME NEW list \in ModuleLists
  PROVE  LET mods == [q \in DOMAIN list |-> Module(list[q], q)]
         IN  /\ mods \in Seq(AllModules) /\ list \in Seq(ModuleNames)
             /\ DOMAIN mods = 1..Len(mods) /\ DOMAIN list = 1..Len(mods) /\ Len(mods) \in Nat
             /\ \A i \in DOMAIN mods : mods[i].name = list[i] /\ mods[i].of = i
<1> DEFINE mods == [q \in DOMAIN list |-> Module(list[q], q)]
<1>1. list \in Seq(ModuleNames)
  BY BuildAssumption
<1>2. DOMAIN list = 1..Len(list) /\ Len(list) \in Nat /\ \A q \in 1..Len(list) : list[q] \in ModuleNames
  BY <1>1
<1>3. mods \in [1..Len(list) -> AllModules]
  BY <1>2 DEF Module, AllModules
<1>4. mods \in Seq(AllModules) /\ DOMAIN mods = 1..Len(list) /\ Len(mods) = Len(list)
  <2>1. \A g \in [1..Len(list) -> AllModules] :
           g \in Seq(AllModules) /\ DOMAIN g = 1..Len(list) /\ Len(g) = Len(list)
    BY <1>2
  <2> HIDE DEF mods
  <2> QED  BY <1>3, <2>1
<1>5. \A i \in DOMAIN mods : mods[i].name = list[i] /\ mods[i].of = i
  BY DEF Module
<1> QED  BY <1>1, <1>2, <1>4, <1>5

LEMMA ModulesInv ==
  ASSUME IInv, FindHostname \/ Validate \/ Request \/ LookupFails
  PROVE  IInv'
<1>1. TypeOK /\ ListInv /\ ServedInv
  BY DEF IInv
<1>2. /\ UNCHANGED <<userInput, requested, mi, ok, remove, declined, sched, listed, result, phase,
                     partitions, reservs, todo>>
      /\ pc \in {"hostname", "modules", "request", "lookup"}
      /\ pc' \in {"modules", "raised", "request", "scheduler", "resources", "lookup"} \cup {pc}
  BY DEF FindHostname, Validate, Request, LookupFails, Raise, AfterModules, asked, remote
<1>3. pc' \in Places
  BY <1>2 DEF Places
<1>4. modules' \in Seq(AllModules) /\ wanted' \in Seq(ModuleNames)
  <2>1. CASE UNCHANGED <<modules, wanted>>
    BY <1>1, <2>1 DEF TypeOK
  <2>2. ASSUME NEW list \in ModuleLists, modules' = [q \in DOMAIN list |-> Module(list[q], q)],
               wanted' = list
        PROVE  modules' \in Seq(AllModules) /\ wanted' \in Seq(ModuleNames)
    BY <2>2, TypedIs
  <2> QED  BY <2>1, <2>2 DEF FindHostname, Validate, Request, LookupFails, asked
<1>5. class' \in DOMAIN ModulesImpl /\ modsys' \in {"nomod"} \cup ToSet(ModulesImpl)
  <2>1. CASE UNCHANGED <<class, modsys>>
    BY <1>1, <2>1 DEF TypeOK
  <2>2. CASE Validate
    <3>1. DOMAIN ModulesImpl = 1..4 /\ Len(ModulesImpl) = 4
      BY DEF ModulesImpl
    <3>2. \A c \in DOMAIN ModulesImpl : ModulesImpl[c] \in ToSet(ModulesImpl)
      BY DEF ToSet
    <3> QED  BY <1>1, <2>2, <3>1, <3>2 DEF Validate, TypeOK
  <2> QED  BY <2>1, <2>2 DEF FindHostname, Request, LookupFails
<1>6. TypeOK'
  BY <1>1, <1>2, <1>3, <1>4, <1>5 DEF TypeOK
<1>7. ListInv'
  <2>1. CASE FindHostname \/ Validate \/ LookupFails
    <3>1. /\ UNCHANGED <<modules, wanted>>
          /\ pc' = "raised" \/ (pc # "lookup" /\ pc' # "lookup")
      BY <2>1 DEF FindHostname, Validate, LookupFails, Raise, AfterModules, asked
    <3>2. CASE pc' = "raised"
      BY <3>2 DEF ListInv, NoModuleLost, AfterRequest
    <3>3. CASE pc # "lookup" /\ pc' # "lookup"
      <4>1. /\ modules = <<>> /\ mi = 1 /\ ok = 0 /\ remove = {}
            /\ wanted = <<>> /\ declined = {}
        BY <1>1, <1>2, <3>3 DEF ListInv
      <4>2. DOMAIN modules' = {} /\ DOMAIN wanted' = {}
        BY <3>1, <4>1
      <4> QED  BY <1>2, <3>1, <3>3, <4>1, <4>2 DEF ListInv, NoModuleLost, AfterRequest
    <3> QED  BY <3>1, <3>2, <3>3
  <2>2. CASE Request
    <3>1. modules = <<>> /\ mi = 1 /\ ok = 0 /\ remove = {} /\ wanted = <<>> /\ declined = {}
      BY <1>1, <2>2 DEF ListInv, Request
    <3>2. CASE pc' = "resources" /\ UNCHANGED <<modules, wanted>>
      <4>1. DOMAIN modules' = {} /\ DOMAIN wanted' = {}
        BY <3>1, <3>2
      <4> QED  BY <1>2, <3>1, <3>2, <4>1 DEF ListInv, NoModuleLost, AfterRequest
    <3>3. ASSUME NEW list \in ModuleLists, pc' = "lookup",
                 modules' = [q \in DOMAIN list |-> Module(list[q], q)], wanted' = list
          PROVE  ListInv'
      <4>1. /\ DOMAIN modules' = 1..Len(modules') /\ DOMAIN wanted' = 1..Len(modules')
            /\ Len(modules') \in Nat
            /\ \A i \in DOMAIN modules' : modules'[i].name = wanted'[i] /\ modules'[i].of = i
        BY <3>3, TypedIs
      <4>2. (InOrder /\ UnderLastName /\ ToRemove /\ AllThere)'
        BY <1>2, <3>1, <4>1 DEF InOrder, UnderLastName, ToRemove, AllThere
      <4>3. {} \in SUBSET ((1..mi' - 1) \ remove') /\ Counts({})'
        BY <1>2, <3>1, FS_EmptySet DEF Counts
      <4>4. remove' \subseteq 1..mi' - 1 /\ mi' <= Len(modules') + 1
        BY <1>2, <3>1, <4>1
      <4>5. \E good \in SUBSET ((1..mi' - 1) \ remove') : Counts(good)'
        BY <4>3
      <4> QED  BY <3>3, <4>2, <4>4, <4>5 DEF ListInv, NoModuleLost, AfterRequest
    <3> QED  BY <2>2, <3>2, <3>3 DEF Request
  <2> QED  BY <2>1, <2>2
<1>8. ServedInv'
  BY <1>1, <1>2, ServedKept
<1> QED  BY <1>6, <1>7, <1>8 DEF IInv

LEMMA LookupInv ==
  ASSUME IInv, Lookup  PROVE IInv'
<1>1. TypeOK /\ ListInv /\ ServedInv
  BY DEF IInv
<1>2. /\ UNCHANGED <<userInput, requested, pc, class, modsys, sched, listed, result, phase,
                     partitions, reservs, todo>>
      /\ pc = "lookup" /\ mi <= Len(modules) /\ mi' = mi + 1
  BY DEF Lookup, remote
<1> DEFINE L == Len(modules)
<1>3. /\ modules \in Seq(AllModules) /\ wanted \in Seq(ModuleNames) /\ mi \in Nat \ {0}
      /\ ok \in Nat
  BY <1>1 DEF TypeOK
<1>4. /\ L \in Nat /\ DOMAIN modules = 1..L /\ mi \in 1..L
      /\ \A i \in 1..L : /\ modules[i] \in AllModules /\ modules[i].of \in Nat
                         /\ modules[i].name \in ModuleNames
  <2>1. L \in Nat /\ DOMAIN modules = 1..L /\ \A i \in 1..L : modules[i] \in AllModules
    BY <1>3
  <2> QED  BY <1>2, <1>3, <2>1 DEF AllModules
<1>5. /\ remove \subseteq 1..mi - 1
      /\ InOrder /\ UnderLastName /\ ToRemove /\ AllThere
  BY <1>1, <1>2 DEF ListInv
<1>6. PICK good \in SUBSET ((1..mi - 1) \ remove) : Counts(good)
  BY <1>1, <1>2 DEF ListInv
<1>7. \A i \in 1..L : i # mi => modules[i].of # modules[mi].of
  <2> SUFFICES ASSUME NEW i \in 1..L, i # mi  PROVE modules[i].of # modules[mi].of
    OBVIOUS
  <2>1. i < mi \/ mi < i
    BY <1>4
  <2> QED  BY <1>4, <1>5, <2>1 DEF InOrder
<1>8. mi \notin remove /\ mi \notin good /\ mi \in 1..mi' - 1 /\ 1..mi - 1 \subseteq 1..mi' - 1
  BY <1>2, <1>3, <1>5, <1>6
<1>9. IsFiniteSet(good) /\ Cardinality(good \cup {mi}) = ok + 1
  <2>1. IsFiniteSet(1..mi - 1)
    <3>1. 1 \in Int /\ mi - 1 \in Int
      BY <1>3
    <3> QED  BY <3>1, FS_Interval
  <2>2. good \in SUBSET (1..mi - 1)
    BY <1>6
  <2>3. IsFiniteSet(good)
    BY <2>1, <2>2, FS_Subset
  <2> QED  BY <1>6, <1>8, <2>3, FS_AddElement DEF Counts
<1> HIDE DEF L
<1>10. CASE Decline
  <2>1. /\ UNCHANGED <<modules, wanted, ok>> /\ remove' = remove \cup {mi}
        /\ declined' = declined \cup {modules[mi].of}
    BY <1>10 DEF Decline
  <2>2. TypeOK'
    BY <1>1, <1>2, <1>3, <2>1 DEF TypeOK
  <2>3. (InOrder /\ UnderLastName /\ AllThere)'
    BY <1>5, <2>1 DEF InOrder, UnderLastName, AllThere
  <2>4. ToRemove'
    BY <1>4, <1>5, <1>7, <2>1 DEF ToRemove
  <2>5. good \in SUBSET ((1..mi' - 1) \ remove') /\ Counts(good)'
    BY <1>6, <1>8, <2>1 DEF Counts
  <2>6. remove' \subseteq 1..mi' - 1 /\ mi' <= Len(modules') + 1
    BY <1>2, <1>4, <1>5, <1>8, <2>1 DEF L
  <2>7. \E g \in SUBSET ((1..mi' - 1) \ remove') : Counts(g)'
    BY <2>5
  <2>8. ListInv'
    BY <1>2, <2>3, <2>4, <2>6, <2>7 DEF ListInv, NoModuleLost, AfterRequest
  <2>9. ServedInv'
    BY <1>1, <1>2, ServedKept
  <2> QED  BY <2>2, <2>8, <2>9 DEF IInv
<1>11. ASSUME NEW m \in ModuleNames, Replace(m), UNCHANGED <<remove, declined>>,
              ok' = ok \/ (ok' = ok + 1 /\ Avail[m] # {})
       PROVE  IInv'
  <2>1. /\ modules' = [modules EXCEPT ![mi].name = m]
        /\ wanted' = [wanted EXCEPT ![modules[mi].of] = m]
    BY <1>11 DEF Replace
  <2>2. /\ modules' \in Seq(AllModules) /\ Len(modules') = L /\ DOMAIN modules' = 1..L
        /\ \A i \in 1..L : modules'[i].of = modules[i].of
        /\ \A i \in 1..L : i # mi => modules'[i] = modules[i]
        /\ modules'[mi].name = m
    <3> DEFINE x == [modules[mi] EXCEPT !.name = m]
    <3>1. x \in AllModules /\ x.of = modules[mi].of /\ x.name = m
      BY <1>4 DEF AllModules
    <3>2. modules' = [modules EXCEPT ![mi] = x]
      BY <2>1
    <3> HIDE DEF x
    <3>3. modules' \in Seq(AllModules) /\ Len(modules') = L /\ DOMAIN modules' = 1..L
      BY <1>3, <1>4, <3>1, <3>2 DEF L
    <3>4. modules'[mi] = x /\ \A i \in 1..L : i # mi => modules'[i] = modules[i]
      BY <1>4, <3>2
    <3> QED  BY <3>1, <3>3, <3>4
  <2>3. /\ wanted' \in Seq(ModuleNames) /\ DOMAIN wanted' = DOMAIN wanted
        /\ wanted'[modules[mi].of] = m
        /\ \A q \in DOMAIN wanted : q # modules[mi].of => wanted'[q] = wanted[q]
    <3>1. modules[mi].of \in DOMAIN wanted
      BY <1>4, <1>5 DEF UnderLastName
    <3> QED  BY <1>3, <2>1, <3>1
  <2>4. TypeOK'
    <3>1. ok' \in Nat /\ mi' \in Nat \ {0}
      BY <1>2, <1>3, <1>11
    <3> QED  BY <1>1, <1>2, <2>2, <2>3, <3>1 DEF TypeOK
  <2>a. InOrder'
    BY <1>4, <1>5, <2>2 DEF InOrder
  <2>b. AllThere'
    BY <1>4, <1>5, <1>11, <2>2, <2>3 DEF AllThere
  <2>c. ToRemove'
    BY <1>4, <1>5, <1>11, <2>2 DEF ToRemove
  <2>5. (InOrder /\ AllThere /\ ToRemove)'
    BY <2>a, <2>b, <2>c
  <2>6. UnderLastName'
    <3> SUFFICES ASSUME NEW i \in 1..L
                 PROVE  /\ modules'[i].of \in DOMAIN wanted'
                        /\ modules'[i].name = wanted'[modules'[i].of]
      BY <2>2 DEF UnderLastName
    <3>1. modules[i].of \in DOMAIN wanted /\ modules[i].name = wanted[modules[i].of]
      BY <1>4, <1>5 DEF UnderLastName
    <3>2. CASE i = mi
      BY <2>2, <2>3, <3>1, <3>2
    <3>3. CASE i # mi
      BY <1>7, <2>2, <2>3, <3>1, <3>3
    <3> QED  BY <3>2, <3>3
  <2>7. \A i \in good : modules'[i].name = modules[i].name
    BY <1>3, <1>4, <1>6, <1>8, <2>2
  <2>8. \E g \in SUBSET ((1..mi' - 1) \ remove') : Counts(g)'
    <3>1. CASE ok' = ok
      <4>1. good \in SUBSET ((1..mi' - 1) \ remove') /\ Counts(good)'
        BY <1>6, <1>8, <1>11, <2>7, <3>1 DEF Counts
      <4> QED  BY <4>1
    <3>2. CASE ok' = ok + 1 /\ Avail[m] # {}
      <4> PICK g : g = good \cup {mi}
        OBVIOUS
      <4>1. g \in SUBSET ((1..mi' - 1) \ remove')
        BY <1>6, <1>8, <1>11
      <4>2. \A i \in g : Avail[modules'[i].name] # {}
        BY <1>6, <2>2, <2>7, <3>2 DEF Counts
      <4>3. Counts(g)'
        BY <1>9, <3>2, <4>2 DEF Counts
      <4> QED  BY <4>1, <4>3
    <3> QED  BY <1>11, <3>1, <3>2
  <2>9. remove' \subseteq 1..mi' - 1 /\ mi' <= Len(modules') + 1
    BY <1>2, <1>4, <1>5, <1>8, <1>11, <2>2
  <2>10. ListInv'
    BY <1>2, <2>5, <2>6, <2>8, <2>9 DEF ListInv, NoModuleLost, AfterRequest
  <2>11. ServedInv'
    BY <1>1, <1>2, ServedKept
  <2> QED  BY <2>4, <2>10, <2>11 DEF IInv
<1>12. CASE LookupOne
  <2>1. /\ UNCHANGED <<modules, remove, wanted, declined>> /\ ok' = ok + 1
        /\ Cardinality(Avail[modules[mi].name]) = 1
    BY <1>12 DEF LookupOne, Options
  <2>2. TypeOK'
    <3>1. ok' \in Nat /\ mi' \in Nat \ {0}
      BY <1>2, <1>3, <2>1
    <3> QED  BY <1>1, <1>2, <2>1, <3>1 DEF TypeOK
  <2>3. (InOrder /\ UnderLastName /\ ToRemove /\ AllThere)'
    BY <1>5, <2>1 DEF InOrder, UnderLastName, ToRemove, AllThere
  <2>4. Avail[modules[mi].name] # {}
    BY <2>1, FS_EmptySet
  <2> PICK g : g = good \cup {mi}
    OBVIOUS
  <2>5. g \in SUBSET ((1..mi' - 1) \ remove')
    BY <1>6, <1>8, <2>1
  <2>6. Counts(g)'
    BY <1>6, <1>9, <2>1, <2>4 DEF Counts
  <2>7. remove' \subseteq 1..mi' - 1 /\ mi' <= Len(modules') + 1
    BY <1>2, <1>4, <1>5, <1>8, <2>1 DEF L
  <2>8. \E h \in SUBSET ((1..mi' - 1) \ remove') : Counts(h)'
    BY <2>5, <2>6
  <2>9. ListInv'
    BY <1>2, <2>3, <2>7, <2>8 DEF ListInv, NoModuleLost, AfterRequest
  <2>10. ServedInv'
    BY <1>1, <1>2, ServedKept
  <2> QED  BY <2>2, <2>9, <2>10 DEF IInv
<1>13. \A n \in ModuleNames : \A m \in Avail[n] : m \in ModuleNames /\ Avail[m] # {}
  BY BuildAssumption
<1>14. CASE LookupNone
  BY <1>10, <1>11, <1>14 DEF LookupNone
<1>15. CASE LookupMany
  BY <1>4, <1>10, <1>11, <1>13, <1>15 DEF LookupMany, Options
<1> QED  BY <1>12, <1>14, <1>15 DEF Lookup

\* What the list holds after the pops.
LEMMA PopsKeep ==
  ASSUME modules \in Seq(AllModules), InOrder, UnderLastName, ToRemove, AllThere,
         modules' = Without(modules, remove), UNCHANGED <<wanted, declined>>
  PROVE  /\ modules' \in Seq(AllModules) /\ (InOrder /\ UnderLastName /\ AllThere)'
         /\ \A i \in DOMAIN modules' : modules'[i].of \notin declined
         /\ \A k \in DOMAIN modules' : \E i \in (1..Len(modules)) \ remove : modules'[k] = modules[i]
<1> DEFINE D == (1..Len(modules)) \ remove
<1>1. modules' \in Seq(AllModules) /\ \E f : Ordered(f, modules', modules, D)
  BY WithoutIs
<1>2. PICK f : Ordered(f, modules', modules, D)
  BY <1>1
<1>3. /\ DOMAIN modules' = 1..Len(modules') /\ Len(modules') \in Nat
      /\ DOMAIN modules = 1..Len(modules) /\ Len(modules) \in Nat
  BY <1>1
<1>4. \A k \in DOMAIN modules' : /\ f[k] \in DOMAIN modules /\ f[k] \notin remove
                                 /\ modules'[k] = modules[f[k]]
  BY <1>2, <1>3 DEF Ordered
<1>5. InOrder'
  BY <1>2, <1>3, <1>4 DEF InOrder, Ordered
<1>6. UnderLastName'
  BY <1>4 DEF UnderLastName
<1>7. \A i \in DOMAIN modules' : modules'[i].of \notin declined
  BY <1>4 DEF ToRemove
<1>8. AllThere'
  <2> SUFFICES ASSUME NEW q \in DOMAIN wanted, q \notin declined
               PROVE  \E k \in DOMAIN modules' : modules'[k].of = q
    BY DEF AllThere
  <2>1. PICK i \in DOMAIN modules : modules[i].of = q
    BY DEF AllThere
  <2>2. i \in D
    BY <1>3, <2>1 DEF ToRemove
  <2>3. PICK k \in 1..Len(modules') : f[k] = i
    BY <1>2, <2>2 DEF Ordered
  <2> QED  BY <1>3, <1>4, <2>1, <2>3
<1>9. \A k \in DOMAIN modules' : \E i \in D : modules'[k] = modules[i]
  BY <1>3, <1>4
<1> QED  BY <1>1, <1>5, <1>6, <1>7, <1>8, <1>9

\* When as many are counted as are kept, all that are kept are counted.
LEMMA AllGood ==
  ASSUME modules \in Seq(AllModules), remove \subseteq 1..Len(modules), ok \in Nat, AllResolved,
         NEW good \in SUBSET ((1..Len(modules)) \ remove), Counts(good)
  PROVE  good = (1..Len(modules)) \ remove
<1> DEFINE L == Len(modules)
           A == 1..L
<1>1. L \in Nat
  OBVIOUS
<1>2. IsFiniteSet(A) /\ Cardinality(A) = L
  <2> HIDE DEF L
  <2>1. 1 \in Int /\ L \in Int /\ L >= 0
    BY <1>1
  <2>2. IsFiniteSet(1..L) /\ Cardinality(1..L) = IF 1 > L THEN 0 ELSE L - 1 + 1
    BY <2>1, FS_Interval
  <2> QED  BY <2>1, <2>2
<1>3. Cardinality(good) = ok /\ (L = ok \/ L - Cardinality(remove) = ok)
  BY DEF Counts, AllResolved
<1>4. remove \in SUBSET A /\ good \in SUBSET (A \ remove) /\ good \in SUBSET A /\ A \cap remove = remove
  OBVIOUS
<1> HIDE DEF A, L
<1>5. IsFiniteSet(remove) /\ Cardinality(remove) \in Nat
  BY <1>2, <1>4, FS_Subset, FS_CardinalityType
<1>6. /\ IsFiniteSet(A \ remove)
      /\ Cardinality(A \ remove) = Cardinality(A) - Cardinality(A \cap remove)
  BY <1>2, FS_Difference
<1>7. Cardinality(A \ remove) = L - Cardinality(remove)
  BY <1>2, <1>4, <1>6
<1>8. CASE L - Cardinality(remove) = ok
  <2>1. Cardinality(A \ remove) = Cardinality(good)
    BY <1>3, <1>7, <1>8
  <2>2. A \ remove = good
    BY <1>4, <1>6, <2>1, FS_Subset
  <2> QED  BY <2>2 DEF A, L
<1>9. CASE L = ok
  <2>1. A = good
    BY <1>2, <1>3, <1>4, <1>9, FS_Subset
  <2> QED  BY <1>4, <2>1 DEF A, L
<1> QED  BY <1>3, <1>8, <1>9

LEMMA EndRoundInv ==
  ASSUME IInv, EndRound  PROVE IInv'
<1>1. TypeOK /\ ListInv /\ ServedInv
  BY DEF IInv
<1>2. /\ UNCHANGED <<userInput, requested, class, modsys, wanted, declined, sched, listed, result,
                     phase, partitions, reservs, todo>>
      /\ pc = "lookup" /\ mi > Len(modules) /\ modules' = Without(modules, remove)
      /\ \/ AllResolved /\ pc' = "resources" /\ UNCHANGED <<mi, ok, remove>>
         \/ pc' = "lookup" /\ mi' = 1 /\ remove' = {} /\ ok' = 0
  BY DEF EndRound, NewRound, remote
<1>3. modules \in Seq(AllModules) /\ mi \in Nat \ {0} /\ ok \in Nat /\ Len(modules) \in Nat
  BY <1>1 DEF TypeOK
<1>4. /\ remove \subseteq 1..mi - 1 /\ mi <= Len(modules) + 1
      /\ InOrder /\ UnderLastName /\ ToRemove /\ AllThere
      /\ \E good \in SUBSET ((1..mi - 1) \ remove) : Counts(good)
  BY <1>1, <1>2 DEF ListInv
<1>5. mi - 1 = Len(modules)
  BY <1>2, <1>3, <1>4
<1>6. /\ modules' \in Seq(AllModules) /\ (InOrder /\ UnderLastName /\ AllThere)'
      /\ \A i \in DOMAIN modules' : modules'[i].of \notin declined
      /\ \A k \in DOMAIN modules' : \E i \in (1..Len(modules)) \ remove : modules'[k] = modules[i]
  BY <1>2, <1>3, <1>4, PopsKeep
<1>7. TypeOK'
  <2>1. mi' \in Nat \ {0} /\ ok' \in Nat /\ pc' \in Places
    BY <1>1, <1>2 DEF TypeOK, Places
  <2> QED  BY <1>1, <1>2, <1>6, <2>1 DEF TypeOK
<1>8. ListInv'
  <2>1. CASE AllResolved /\ pc' = "resources"
    <3>1. PICK good \in SUBSET ((1..Len(modules)) \ remove) : Counts(good)
      BY <1>4, <1>5
    <3>2. good = (1..Len(modules)) \ remove
      BY <1>3, <1>4, <1>5, <2>1, <3>1, AllGood
    <3>3. \A k \in DOMAIN modules' : Avail[modules'[k].name] # {}
      BY <1>6, <3>1, <3>2 DEF Counts
    <3>4. {modules'[i].of : i \in DOMAIN modules'} = DOMAIN wanted' \ declined'
      BY <1>2, <1>6 DEF AllThere, UnderLastName
    <3>5. /\ \A i, j \in DOMAIN modules' : i < j => modules'[i].of < modules'[j].of
          /\ \A i \in DOMAIN modules' : modules'[i].name = wanted'[modules'[i].of]
      BY <1>6 DEF InOrder, UnderLastName
    <3>6. NoModuleLost'
      BY <3>3, <3>4, <3>5 DEF NoModuleLost
    <3> QED  BY <2>1, <3>6 DEF ListInv
  <2>2. CASE pc' = "lookup" /\ mi' = 1 /\ remove' = {} /\ ok' = 0
    <3>1. ToRemove'
      BY <1>2, <1>6, <2>2 DEF ToRemove
    <3>2. {} \in SUBSET ((1..mi' - 1) \ remove') /\ Counts({})'
      BY <2>2, FS_EmptySet DEF Counts
    <3>3. \E good \in SUBSET ((1..mi' - 1) \ remove') : Counts(good)'
      BY <3>2
    <3>4. remove' \subseteq 1..mi' - 1 /\ mi' <= Len(modules') + 1
      BY <1>6, <2>2
    <3> QED  BY <1>6, <2>2, <3>1, <3>3, <3>4 DEF ListInv, NoModuleLost, AfterRequest
  <2> QED  BY <1>2, <2>1, <2>2
<1>9. ServedInv'
  BY <1>1, <1>2, ServedKept
<1> QED  BY <1>7, <1>8, <1>9 DEF IInv

\* The last of a list's elements that were found is one of them.
LEMMA LastFound ==
  ASSUME NEW T, NEW list \in Seq(T), NEW found, \E i \in DOMAIN list : list[i] \in found
  PROVE  Last(At(list, Positions(list, found))) \in found
<1> DEFINE I == Positions(list, found)
           left == At(list, I)
           D == I \cap (1..Len(list))
<1>1. \A i : i \in I <=> i \in DOMAIN list /\ list[i] \in found
  BY DEF Positions
<1>2. D # {}
  <2>1. DOMAIN list = 1..Len(list)
    OBVIOUS
  <2> QED  BY <1>1, <2>1
<1> HIDE DEF I
<1>3. /\ left \in Seq(T) /\ Len(left) = Cardinality(D)
      /\ \A k \in 1..Len(left) : \E i \in D : left[k] = list[i]
  BY AtTakes
<1>4. IsFiniteSet(D)
  <2>1. 1 \in Int /\ Len(list) \in Int
    OBVIOUS
  <2>2. IsFiniteSet(1..Len(list))
    BY <2>1, FS_Interval
  <2> QED  BY <2>2, FS_Subset
<1> HIDE DEF D, left
<1>5. Len(left) \in Nat \ {0}
  BY <1>2, <1>3, <1>4, FS_CardinalityType, FS_EmptySet
<1>6. Last(left) = left[Len(left)] /\ Len(left) \in 1..Len(left)
  BY <1>5 DEF Last
<1>7. PICK i \in D : left[Len(left)] = list[i]
  BY <1>3, <1>6
<1>8. Last(left) \in found
  BY <1>1, <1>6, <1>7 DEF D
<1> QED  BY <1>8 DEF left, I

\* A found scheduler is taken.
LEMMA PicksAre ==
  ASSUME NEW found \in SUBSET Schedulers
  PROVE  Picks(SchedulerDic, found) \subseteq found
<1>1. CASE found = {} \/ userInput
  BY <1>1 DEF Picks
<1>2. CASE found # {} /\ ~userInput
  <2> DEFINE Names == ToSet(SchedulerDic)
  <2>1. Picks(SchedulerDic, found) = {Last(At(SchedulerDic, Positions(SchedulerDic, found)))}
    BY <1>2 DEF Picks
  <2>2. SchedulerDic \in Seq(Names)
    <3> DEFINE dic == SchedulerDic
    <3>1. Len(dic) = 7 /\ DOMAIN dic = 1..7
      BY DEF SchedulerDic
    <3>2. \A i \in 1..7 : dic[i] \in Names
      BY <3>1 DEF ToSet
    <3>3. dic = [i \in 1..7 |-> dic[i]]
      BY DEF SchedulerDic
    <3> HIDE DEF dic, Names
    <3>4. dic \in Seq(Names)
      BY <3>1, <3>2, <3>3
    <3> QED  BY <3>4 DEF dic
  <2>3. \E i \in DOMAIN SchedulerDic : SchedulerDic[i] \in found
    BY <1>2, BuildAssumption DEF ToSet
  <2> HIDE DEF Names
  <2> QED  BY <2>1, <2>2, <2>3, LastFound
<1> QED  BY <1>1, <1>2

LEMMA ToolsInv ==
  ASSUME IInv, Tools  PROVE IInv'
<1>1. TypeOK /\ ListInv /\ ServedInv
  BY DEF IInv
<1>2. /\ UNCHANGED <<userInput, requested, class, modsys, modules, mi, ok, remove, wanted, declined,
                     listed, result, phase, partitions, reservs, todo>>
      /\ pc \in {"resources", "scheduler", "launcher"}
      /\ pc' \in {"scheduler", "launcher", "nodes", "render"}
      /\ pc' = "render" => ~HasSlurm /\ sched' = sched
  BY DEF Tools, GetResourcesdir, FindScheduler, FindLauncher, asked, remote
<1>3. sched' \in {"none"} \cup Schedulers
  <2>1. CASE FindScheduler
    <3>1. PICK found \in SUBSET Schedulers :
             IF found = {} THEN sched' = sched ELSE sched' \in Picks(SchedulerDic, found)
      BY <2>1 DEF FindScheduler
    <3> QED  BY <1>1, <3>1, PicksAre DEF TypeOK
  <2> QED  BY <1>1, <2>1 DEF Tools, GetResourcesdir, FindLauncher, TypeOK
<1>4. TypeOK'
  <2>1. pc' \in Places
    BY <1>2 DEF Places
  <2> QED  BY <1>1, <1>2, <1>3, <2>1 DEF TypeOK
<1>5. ListInv'
  BY <1>1, <1>2, ListKept DEF AfterRequest, asked
<1>6. ServedInv'
  <2>1. CASE pc' # "render"
    BY <1>1, <1>2, <2>1, ServedKept
  <2>2. CASE pc' = "render"
    <3>1. ~HasSlurm'
      BY <1>2, <2>2 DEF HasSlurm
    <3> QED  BY <2>2, <3>1 DEF ServedInv
  <2> QED  BY <2>1, <2>2
<1> QED  BY <1>4, <1>5, <1>6 DEF IInv

LEMMA PartitionsAre ==
  /\ Partition("login", {}, NameOf("login")) \in AllPartitions
  /\ \A t \in Types, n \in Nat : Partition("type", t, PartitionName(n)) \in AllPartitions
  /\ \A r \in Reservations : Partition("reservation", r, NameOf(r)) \in AllPartitions
BY DEF Partition, AllPartitions

\* The steps before the reservations.
LEMMA DetectInv ==
  ASSUME IInv,
         \/ SearchNodeTypes \/ CreateLogin \/ (\E t \in Types : SettleType(t)) \/ DetectionFails
  PROVE  IInv'
<1>1. TypeOK /\ ListInv /\ ServedInv
  BY DEF IInv
<1>2. /\ UNCHANGED <<userInput, requested, class, modsys, modules, mi, ok, remove, wanted, declined,
                     sched, reservs, todo>>
      /\ pc \in {"nodes", "login", "detect"} /\ pc' \in {"login", "detect", "raised"}
  BY DEF SearchNodeTypes, CreateLogin, SettleType, DetectionFails, Raise, asked
<1>3. /\ partitions' \in Seq(AllPartitions)
      /\ Reserved' = Reserved
  <2>1. CASE UNCHANGED partitions
    BY <1>1, <2>1 DEF TypeOK, Reserved
  <2>2. ASSUME NEW p \in AllPartitions, AppendPartition(p), p.kind # "reservation"
        PROVE  partitions' \in Seq(AllPartitions) /\ Reserved' = Reserved
    BY <1>1, <2>2, Appended
  <2>3. CASE CreateLogin
    <3>1. Partition("login", {}, NameOf("login")).kind # "reservation"
      BY DEF Partition
    <3> QED  BY <2>1, <2>2, <2>3, <3>1, PartitionsAre DEF CreateLogin
  <2>4. ASSUME NEW t \in Types, SettleType(t)
        PROVE  partitions' \in Seq(AllPartitions) /\ Reserved' = Reserved
    <3>1. \A n \in 1..Cardinality(Types) : Partition("type", t, PartitionName(n)) \in AllPartitions
      BY PartitionsAre
    <3>2. \A n : Partition("type", t, PartitionName(n)).kind # "reservation"
      BY DEF Partition
    <3> QED  BY <2>1, <2>2, <2>4, <3>1, <3>2 DEF SettleType
  <2> QED  BY <2>1, <2>3, <2>4 DEF SearchNodeTypes, DetectionFails
<1>4. /\ listed' \in BOOLEAN /\ result' \in [Types -> Detection!Results]
      /\ phase' \in {"running", "finished", "failed"}
  BY <1>1 DEF TypeOK, SearchNodeTypes, CreateLogin, SettleType, DetectionFails, Detection!Settle,
              Detection!Fail
<1>5. TypeOK'
  <2>1. pc' \in Places
    BY <1>2 DEF Places
  <2> QED  BY <1>1, <1>2, <1>3, <1>4, <2>1 DEF TypeOK
<1>6. ListInv'
  BY <1>1, <1>2, ListKept DEF AfterRequest, asked
<1>7. ServedInv'
  BY <1>1, <1>2, <1>3 DEF ServedInv
<1> QED  BY <1>5, <1>6, <1>7 DEF IInv

\* The requested reservations that exist, of no request and at the beginning.
KnownFacts ==
  /\ requested \in Seq(Reservations) /\ Len(requested) \in Nat
  /\ Known \subseteq 1..Len(requested)
  /\ \A i \in 1..Len(requested) : i \in Known <=> requested[i] \in ToSet(reservs)
  /\ At(requested, Known \cap (1..0)) = <<>>
  /\ At(requested, Known \cap (1..Len(requested))) = At(requested, Known)
  /\ reservs \in Seq(Reservations)

LEMMA KnownAre == TypeOK => KnownFacts
<1> SUFFICES ASSUME TypeOK  PROVE KnownFacts
  OBVIOUS
<1>1. \A r \in Requests \cup ReservLists : r \in Seq(Reservations)
  <2> SUFFICES ASSUME NEW r \in Requests \cup ReservLists  PROVE r \in Seq(Reservations)
    OBVIOUS
  <2>1. r \in Seq({r[i] : i \in DOMAIN r})
    BY BuildAssumption
  <2>2. {r[i] : i \in DOMAIN r} \subseteq Reservations
    BY DEF Reservations, ToSet
  <2> QED  BY <2>1, <2>2
<1>2. requested \in Seq(Reservations) /\ reservs \in Seq(Reservations)
  <2>1. <<>> \in Seq(Reservations)
    OBVIOUS
  <2> QED  BY <1>1, <2>1 DEF TypeOK
<1>3. Len(requested) \in Nat /\ DOMAIN requested = 1..Len(requested)
  BY <1>2
<1>4. /\ Known \subseteq 1..Len(requested)
      /\ \A i \in 1..Len(requested) : i \in Known <=> requested[i] \in ToSet(reservs)
  BY <1>3 DEF Known, Positions
<1>5. At(requested, Known \cap (1..0)) = <<>>
  <2> DEFINE I == Known \cap (1..0)
  <2>1. \A i \in 1..Len(requested) : i \notin I
    OBVIOUS
  <2> HIDE DEF I
  <2>2. At(requested, I) = <<>>
    BY <1>2, <2>1, AtNone
  <2> QED  BY <2>2 DEF I
<1>6. Known \cap (1..Len(requested)) = Known
  BY <1>4
<1> QED  BY <1>2, <1>3, <1>4, <1>5, <1>6 DEF KnownFacts

LEMMA KnownAreNext == TypeOK' => KnownFacts'
BY KnownAre, PTL

\* The reservation partitions, and what they are for.
LEMMA OfReservedIs ==
  /\ Reserved = <<>> => OfReserved = <<>>
  /\ UNCHANGED partitions => OfReserved' = OfReserved /\ Reserved' = Reserved
<1>1. ASSUME Reserved = <<>>  PROVE OfReserved = <<>>
  <2>1. DOMAIN Reserved = {}
    BY <1>1
  <2> QED  BY <1>1, <2>1 DEF OfReserved
<1>2. ASSUME UNCHANGED partitions  PROVE OfReserved' = OfReserved /\ Reserved' = Reserved
  <2>1. Reserved' = Reserved
    BY <1>2 DEF Reserved
  <2> QED  BY <2>1 DEF OfReserved
<1> QED  BY <1>1, <1>2

LEMMA OfReservedAppended ==
  ASSUME TypeOK, NEW r \in Reservations, AppendPartition(Partition("reservation", r, NameOf(r)))
  PROVE  partitions' \in Seq(AllPartitions) /\ OfReserved' = Append(OfReserved, r)
<1> DEFINE p == Partition("reservation", r, NameOf(r))
           q == Reserved
           a == Append(q, p)
<1>1. p \in AllPartitions /\ p.kind = "reservation" /\ p.of = r
  BY PartitionsAre DEF Partition
<1>2. partitions' \in Seq(AllPartitions) /\ q \in Seq(AllPartitions) /\ Reserved' = a
  BY <1>1, Appended
<1> HIDE DEF p, q
<1>3. /\ Len(q) \in Nat /\ DOMAIN q = 1..Len(q) /\ DOMAIN a = 1..Len(q) + 1
      /\ a[Len(q) + 1] = p /\ \A i \in 1..Len(q) : a[i] = q[i]
  BY <1>1, <1>2
<1> HIDE DEF a
<1>4. OfReserved' = [i \in 1..Len(q) + 1 |-> a[i].of]
  BY <1>2, <1>3 DEF OfReserved
<1>5. OfReserved = [i \in 1..Len(q) |-> q[i].of]
  BY <1>3 DEF OfReserved, q
<1> DEFINE f == [i \in 1..Len(q) |-> q[i].of]
           S == {q[i].of : i \in 1..Len(q)} \cup {r}
           b == Append(f, r)
           c == [i \in 1..Len(q) + 1 |-> a[i].of]
<1>6. f \in Seq(S) /\ Len(f) = Len(q) /\ r \in S /\ \A i \in 1..Len(q) : f[i] = q[i].of
  BY <1>3
<1> HIDE DEF f, S
<1>7. /\ b \in Seq(S) /\ Len(b) = Len(q) + 1 /\ b[Len(q) + 1] = r
      /\ \A i \in 1..Len(q) : b[i] = q[i].of
  BY <1>6
<1> HIDE DEF b
<1>8. \A i \in 1..Len(q) + 1 : b[i] = a[i].of
  <2>1. \A i \in 1..Len(q) + 1 : i \in 1..Len(q) \/ i = Len(q) + 1
    BY <1>3
  <2> QED  BY <1>1, <1>3, <1>7, <2>1
<1>9. b = c
  BY <1>3, <1>7, <1>8
<1> QED  BY <1>2, <1>4, <1>5, <1>9 DEF b, f


\* Nothing of the modules or the detected nodes changes from here on.
LEMMA Kept ==
  ASSUME IInv, pc' \in Places, AfterRequest,
         pc' \notin {"hostname", "modules", "request", "lookup"},
         UNCHANGED <<userInput, requested, class, modsys, asked, sched, listed>>,
         result' \in [Types -> Detection!Results], phase' \in {"running", "finished", "failed"},
         partitions' \in Seq(AllPartitions), reservs' \in ReservLists \cup {<<>>},
         todo' \in Seq(Reservations)
  PROVE  TypeOK' /\ ListInv'
<1>1. TypeOK /\ ListInv
  BY DEF IInv
<1>2. TypeOK'
  BY <1>1 DEF TypeOK, asked
<1>3. ListInv'
  BY <1>1, ListKept
<1> QED  BY <1>2, <1>3

LEMMA DetectionEndsInv ==
  ASSUME IInv, DetectionEnds  PROVE IInv'
<1>1. TypeOK /\ ListInv /\ ServedInv
  BY DEF IInv
<1>2. /\ UNCHANGED <<userInput, requested, class, modsys, asked, sched, listed, partitions, reservs,
                     todo>>
      /\ pc = "detect" /\ pc' \in {"search", "render"}
      /\ pc' = "render" => ~userInput /\ requested = <<>>
  BY DEF DetectionEnds, AfterDetection
<1>3. result' \in [Types -> Detection!Results] /\ phase' \in {"running", "finished", "failed"}
  BY <1>1 DEF TypeOK, DetectionEnds, Detection!Complete
<1>4. TypeOK' /\ ListInv'
  <2>1. pc' \in Places /\ AfterRequest
    BY <1>2 DEF Places, AfterRequest
  <2> QED  BY <1>1, <1>2, <1>3, <2>1, Kept DEF TypeOK
<1>5. ServedInv'
  <2>1. CASE pc' = "search"
    BY <1>1, <1>2, <2>1, ServedKept
  <2>2. CASE pc' = "render"
    <3>1. requested' = <<>> /\ Reserved = <<>>
      BY <1>1, <1>2, <2>2 DEF ServedInv
    <3>2. OfReserved' = <<>>
      BY <1>2, <3>1, OfReservedIs
    <3>3. At(requested', Known') = <<>>
      <4>1. /\ requested' \in Seq(Reservations) /\ Known' \subseteq 1..Len(requested')
            /\ 1..Len(requested') = {}
        BY <1>4, <3>1, KnownAreNext DEF KnownFacts
      <4>2. \A i \in 1..Len(requested') : i \notin Known'
        BY <4>1
      <4> QED  BY <4>1, <4>2, AtNone
    <3> QED  BY <2>2, <3>2, <3>3 DEF ServedInv
  <2> QED  BY <1>2, <2>1, <2>2
<1> QED  BY <1>4, <1>5 DEF IInv

LEMMA SearchInv ==
  ASSUME IInv, SearchReservations  PROVE IInv'
<1>1. TypeOK /\ ListInv /\ ServedInv
  BY DEF IInv
<1>2. /\ UNCHANGED <<userInput, requested, class, modsys, asked, sched, listed, result, phase,
                     partitions>>
      /\ pc = "search" /\ pc' \in {"raised", "reservations"} /\ reservs' \in ReservLists
      /\ todo' = IF userInput THEN <<>> ELSE requested
  BY DEF SearchReservations
<1>3. todo' \in Seq(Reservations)
  <2>1. <<>> \in Seq(Reservations)
    OBVIOUS
  <2> QED  BY <1>1, <1>2, <2>1, KnownAre DEF KnownFacts
<1>4. TypeOK' /\ ListInv'
  <2>1. pc' \in Places /\ AfterRequest
    BY <1>2 DEF Places, AfterRequest
  <2> QED  BY <1>1, <1>2, <1>3, <2>1, Kept DEF TypeOK
<1>5. ServedInv'
  <2>1. CASE pc' = "raised"
    BY <2>1 DEF ServedInv
  <2>2. CASE pc' = "reservations" /\ userInput'
    BY <2>2 DEF ServedInv
  <2>3. CASE pc' = "reservations" /\ ~userInput'
    <3>1. /\ todo' = requested' /\ Len(requested') \in Nat
          /\ At(requested', (Known \cap (1..0))') = <<>>
      BY <1>2, <1>4, <2>3, KnownAreNext DEF KnownFacts
    <3>2. Handled' = 0
      BY <3>1 DEF Handled
    <3>3. OfReserved' = <<>>
      BY <1>1, <1>2, OfReservedIs DEF ServedInv
    <3>4. /\ Len(todo') <= Len(requested')
          /\ \A k \in 1..Len(todo') : todo'[k] = requested'[Handled' + k]
      BY <3>1, <3>2
    <3>5. OfReserved' = At(requested', (Known \cap (1..Handled))')
      BY <3>1, <3>2, <3>3
    <3> QED  BY <2>3, <3>4, <3>5 DEF ServedInv
  <2> QED  BY <1>2, <2>1, <2>2, <2>3
<1> QED  BY <1>4, <1>5 DEF IInv

\* The next requested reservation is handled.
LEMMA RequestedInv ==
  ASSUME IInv, RequestedReservation  PROVE IInv'
<1>1. TypeOK /\ ListInv /\ ServedInv
  BY DEF IInv
<1>2. /\ UNCHANGED <<userInput, requested, pc, class, modsys, asked, sched, listed, result, phase,
                     reservs>>
      /\ pc = "reservations" /\ ~userInput /\ todo # <<>> /\ todo' = Tail(todo)
      /\ IF Head(todo) \in ToSet(reservs)
         THEN AppendPartition(Partition("reservation", Head(todo), NameOf(Head(todo))))
         ELSE UNCHANGED partitions
  BY DEF RequestedReservation, TodoLeft, Skip
<1> DEFINE n == Handled
           r == Head(todo)
<1>3. /\ todo \in Seq(Reservations) /\ requested \in Seq(Reservations)
      /\ Len(todo) <= Len(requested)
      /\ \A k \in 1..Len(todo) : todo[k] = requested[n + k]
      /\ OfReserved = At(requested, Known \cap (1..n))
  BY <1>1, <1>2, KnownAre DEF ServedInv, TypeOK, KnownFacts
<1>4. /\ r \in Reservations /\ r = todo[1] /\ Len(todo) \in Nat \ {0} /\ Len(requested) \in Nat
      /\ todo' \in Seq(Reservations) /\ Len(todo') = Len(todo) - 1
      /\ \A k \in 1..Len(todo') : todo'[k] = todo[k + 1]
  BY <1>2, <1>3
<1>5. n = Len(requested) - Len(todo) /\ Handled' = Len(requested) - Len(todo')
  BY <1>2 DEF Handled
<1> HIDE DEF n, r
<1>6. n \in Nat /\ n + 1 <= Len(requested) /\ Handled' = n + 1 /\ r = requested[n + 1]
  <2>1. 1 \in 1..Len(todo)
    BY <1>4
  <2> QED  BY <1>3, <1>4, <1>5, <2>1
<1>7. Known' = Known
  BY <1>2 DEF Known
<1>8. n + 1 \in Known <=> r \in ToSet(reservs)
  <2>1. n + 1 \in 1..Len(requested)
    BY <1>4, <1>6
  <2> QED  BY <1>1, <1>6, <2>1, KnownAre DEF KnownFacts
<1>9. At(requested, Known \cap (1..n + 1)) =
         IF n + 1 \in Known THEN Append(At(requested, Known \cap (1..n)), requested[n + 1])
         ELSE At(requested, Known \cap (1..n))
  <2> DEFINE m == n + 1
  <2>1. requested \in Seq(Reservations) /\ m \in 1..Len(requested)
    BY <1>3, <1>4, <1>6
  <2>2. m - 1 = n
    BY <1>6
  <2> HIDE DEF m
  <2>3. At(requested, Known \cap (1..m)) =
           IF m \in Known THEN Append(At(requested, Known \cap (1..m - 1)), requested[m])
           ELSE At(requested, Known \cap (1..m - 1))
    BY ONLY <2>1, AtNext
  <2> QED  BY <2>2, <2>3 DEF m
<1>10. /\ partitions' \in Seq(AllPartitions)
       /\ OfReserved' = IF r \in ToSet(reservs) THEN Append(OfReserved, r) ELSE OfReserved
  <2>1. CASE r \in ToSet(reservs)
    BY <1>1, <1>2, <1>4, <2>1, OfReservedAppended DEF r
  <2>2. CASE r \notin ToSet(reservs)
    BY <1>1, <1>2, <2>2, OfReservedIs DEF r, TypeOK
  <2> QED  BY <2>1, <2>2
<1>11. TypeOK' /\ ListInv'
  <2>1. pc' \in Places /\ AfterRequest
    BY <1>2 DEF Places, AfterRequest
  <2> QED  BY <1>1, <1>2, <1>4, <1>10, <2>1, Kept DEF TypeOK
<1>12. ServedInv'
  <2>1. Len(todo') <= Len(requested')
    BY <1>2, <1>3, <1>4
  <2>2. ASSUME NEW k \in 1..Len(todo')  PROVE todo'[k] = requested'[Handled' + k]
    <3>1. k + 1 \in 1..Len(todo) /\ n + (k + 1) = (n + 1) + k
      BY <1>4, <1>6
    <3> QED  BY <1>2, <1>3, <1>4, <1>6, <3>1
  <2>3. OfReserved' = At(requested, Known \cap (1..n + 1))
    BY <1>3, <1>6, <1>8, <1>9, <1>10
  <2>4. OfReserved' = At(requested', (Known \cap (1..Handled))')
    BY <1>2, <1>6, <1>7, <2>3
  <2> QED  BY <1>2, <2>1, <2>2, <2>4 DEF ServedInv
<1> QED  BY <1>11, <1>12 DEF IInv

LEMMA ChosenInv ==
  ASSUME IInv, ChosenReservation  PROVE IInv'
<1>1. TypeOK /\ ListInv /\ ServedInv
  BY DEF IInv
<1>2. /\ UNCHANGED <<userInput, requested, pc, class, modsys, asked, sched, listed, result, phase,
                     reservs, todo>>
      /\ pc = "reservations" /\ userInput
  BY DEF ChosenReservation
<1>3. PICK r \in ToSet(reservs) : AppendPartition(Partition("reservation", r, NameOf(r)))
  BY DEF ChosenReservation
<1>4. r \in Reservations
  <2>1. reservs \in Seq(Reservations)
    BY <1>1, KnownAre DEF KnownFacts
  <2> QED  BY <1>3, <2>1 DEF ToSet
<1>5. partitions' \in Seq(AllPartitions)
  BY <1>1, <1>3, <1>4, OfReservedAppended
<1>6. TypeOK' /\ ListInv'
  <2>1. pc' \in Places /\ AfterRequest
    BY <1>2 DEF Places, AfterRequest
  <2> QED  BY <1>1, <1>2, <1>5, <2>1, Kept DEF TypeOK
<1>7. ServedInv'
  BY <1>2 DEF ServedInv
<1> QED  BY <1>6, <1>7 DEF IInv

LEMMA EndsInv ==
  ASSUME IInv, ReservationsDone \/ Render  PROVE IInv'
<1>1. TypeOK /\ ListInv /\ ServedInv
  BY DEF IInv
<1>2. /\ UNCHANGED <<userInput, requested, class, modsys, asked, sched, listed, result, phase,
                     partitions, reservs, todo>>
      /\ \/ pc = "reservations" /\ todo = <<>> /\ pc' = "render"
         \/ pc = "render" /\ pc' \in {"written", "raised"}
  BY DEF ReservationsDone, Render, remote
<1>3. TypeOK' /\ ListInv'
  <2>1. pc' \in Places /\ AfterRequest
    BY <1>2 DEF Places, AfterRequest
  <2> QED  BY <1>1, <1>2, <2>1, Kept DEF TypeOK
<1>4. ServedInv'
  <2>1. /\ OfReserved' = OfReserved /\ Known' = Known /\ requested' = requested
        /\ userInput' = userInput /\ HasSlurm' = HasSlurm
    BY <1>2, OfReservedIs DEF Known, HasSlurm
  <2>2. CASE pc = "render"
    BY <1>1, <1>2, <2>1, <2>2 DEF ServedInv
  <2>3. CASE pc = "reservations" /\ todo = <<>> /\ ~userInput
    <3>1. Handled = Len(requested)
      BY <1>1, <2>3, KnownAre DEF Handled, KnownFacts
    <3>2. OfReserved = At(requested, Known)
      BY <1>1, <2>3, <3>1, KnownAre DEF ServedInv, KnownFacts
    <3> QED  BY <1>2, <2>1, <2>3, <3>2 DEF ServedInv
  <2>4. CASE pc' = "render" /\ userInput
    BY <2>1, <2>4 DEF ServedInv
  <2> QED  BY <1>2, <2>2, <2>3, <2>4
<1> QED  BY <1>3, <1>4 DEF IInv

LEMMA StutterInv ==
  ASSUME IInv, UNCHANGED vars  PROVE IInv'
<1>1. TypeOK /\ ListInv /\ ServedInv
  BY DEF IInv
<1>2. TypeOK'
  BY <1>1 DEF TypeOK, vars, asked, remote
<1>3. ListInv'
  <2>1. UNCHANGED <<pc, modules, mi, ok, remove, wanted, declined>>
    BY DEF vars, asked
  <2>2. NoModuleLost'
    BY <1>1, <2>1 DEF ListInv, NoModuleLost, AfterRequest
  <2>3. CASE pc = "lookup"
    <3>1. (InOrder /\ UnderLastName /\ ToRemove /\ AllThere)'
      BY <1>1, <2>1, <2>3 DEF ListInv, InOrder, UnderLastName, ToRemove, AllThere
    <3>2. \E good \in SUBSET ((1..mi' - 1) \ remove') : Counts(good)'
      BY <1>1, <2>1, <2>3 DEF ListInv, Counts
    <3> QED  BY <1>1, <2>1, <2>2, <2>3, <3>1, <3>2 DEF ListInv
  <2>4. CASE pc # "lookup"
    BY <1>1, <2>1, <2>2, <2>4 DEF ListInv
  <2> QED  BY <2>3, <2>4
<1>4. ServedInv'
  <2>1. /\ OfReserved' = OfReserved /\ Reserved' = Reserved /\ Known' = Known /\ Handled' = Handled
        /\ HasSlurm' = HasSlurm
    BY OfReservedIs DEF Known, Handled, HasSlurm, vars, remote
  <2>2. UNCHANGED <<pc, userInput, requested, todo>>
    BY DEF vars, remote
  <2> QED  BY <1>1, <2>1, <2>2 DEF ServedInv
<1> QED  BY <1>2, <1>3, <1>4 DEF IInv

(* Every step of the configuration keeps what the modules of the list stand *)
(* for, how many of them modules_ok counts, and the reservations served so  *)
(* far.                                                                     *)
THEOREM Inductive == Spec => []IInv
<1>1. Init => IInv
  BY InitInv
<1>2. IInv /\ [Next]_vars => IInv'
  <2> SUFFICES ASSUME IInv, [Next]_vars  PROVE IInv'
    OBVIOUS
  <2>1. CASE Modules
    BY <2>1, ModulesInv, LookupInv, EndRoundInv DEF Modules
  <2>2. CASE Tools
    BY <2>2, ToolsInv
  <2>3. CASE Remote
    BY <2>3, DetectInv, DetectionEndsInv, SearchInv, RequestedInv, ChosenInv, EndsInv DEF Remote
  <2>4. CASE Render
    BY <2>4, EndsInv
  <2>5. CASE Terminating \/ UNCHANGED vars
    BY <2>5, StutterInv DEF Terminating
  <2> QED  BY <2>1, <2>2, <2>3, <2>4, <2>5 DEF Next
<1> QED  BY <1>1, <1>2, PTL DEF Spec

(* For any list and any answers, the modules to load are what the user last *)
(* gave for each request that was not given up, in the order of the         *)
(* requests, and the machine has them (io.py:176-215).                      *)
THEOREM NothingLost == Spec => []NoModuleLost
<1>1. IInv => NoModuleLost
  BY DEF IInv, ListInv
<1> QED  BY <1>1, Inductive, PTL

(* In auto mode the reservation partitions are the requested ones that     *)
(* exist, in their order (config.py:173-186).                              *)
THEOREM Served == Spec => []ReservationsServed
<1>1. IInv => ReservationsServed
  <2> SUFFICES ASSUME IInv, pc = "written", ~userInput, HasSlurm
               PROVE  [i \in DOMAIN Reserved |-> Reserved[i].of] =
                      At(requested, Positions(requested, ToSet(reservs)))
    BY DEF ReservationsServed
  <2>1. OfReserved = At(requested, Known)
    BY DEF IInv, ServedInv
  <2> QED  BY <2>1 DEF OfReserved, Known
<1> QED  BY <1>1, Inductive, PTL

================================================================================
