----------------------------- MODULE ChecksProofs -----------------------------
(***************************************************************************)
(* Theorems about the tests of checks/: the affinity tests on any node,    *)
(* any lines and any number of them, the integration checks on any system, *)
(* and the tests of any catalogue, however their cases interleave.         *)
(***************************************************************************)
EXTENDS AffinityCheck, IntegrationChecks, CaseByCase,
        FiniteSetTheorems, WellFoundedInduction, TLAPS

(* Numbers and finite sets. *)

\* A set of naturals that is not empty has a least member.
LEMMA NatMin ==
  ASSUME NEW S \in SUBSET Nat, S # {}
  PROVE  \E n \in S : \A m \in S : n <= m
<1> DEFINE R == OpToRel(<, Nat)
<1>1. IsWellFoundedOn(R, Nat)
  BY NatLessThanWellFounded
<1>2. PICK n \in S : \A m \in S : ~(<<m, n>> \in R)
  BY <1>1, WFMin
<1>3. \A m \in S : ~(m < n)
  BY <1>2 DEF OpToRel
<1> QED  BY <1>3

\* Induction, for a set of naturals.
LEMMA NatSetInduction ==
  ASSUME NEW S \in SUBSET Nat, 0 \in S, \A n \in Nat : n \in S => n + 1 \in S
  PROVE  S = Nat
<1>1. SUFFICES ASSUME NEW x \in Nat \ S  PROVE FALSE
  OBVIOUS
<1>2. PICK n \in Nat \ S : \A m \in Nat \ S : n <= m
  BY NatMin
<1>3. n - 1 \in Nat /\ n - 1 \notin S
  BY <1>2
<1> QED  BY <1>2, <1>3

\* Quotient and remainder are determined by the division.
LEMMA DivModUnique ==
  ASSUME NEW a \in Nat, NEW n \in Nat \ {0}, NEW q \in Nat, NEW e \in 0 .. n - 1, a = n * q + e
  PROVE  a \div n = q /\ a % n = e
  OBVIOUS

\* One more: the quotient and the remainder.
LEMMA DivNext ==
  ASSUME NEW a \in Nat, NEW n \in Nat \ {0}
  PROVE  /\ a \div n \in Nat /\ a % n \in 0 .. n - 1
         /\ (a + 1) \div n = IF a % n = n - 1 THEN (a \div n) + 1 ELSE a \div n
         /\ (a + 1) % n = IF a % n = n - 1 THEN 0 ELSE (a % n) + 1
         /\ a + 1 = ((a \div n) + 1) * n <=> a % n = n - 1
<1> DEFINE d == a \div n
           r == a % n
<1>1. d \in Nat /\ r \in 0 .. n - 1 /\ a = n * d + r
  OBVIOUS
<1>2. CASE r = n - 1
  <2>1. a + 1 = n * (d + 1) + 0 /\ a + 1 \in Nat
    BY <1>1, <1>2
  <2> DEFINE b == a + 1
             e == d + 1
  <2> HIDE DEF b, e
  <2>2. b \div n = e /\ b % n = 0
    <3>1. b = n * e + 0 /\ b \in Nat /\ e \in Nat
      BY <1>1, <2>1 DEF b, e
    <3>2. 0 \in 0 .. n - 1
      OBVIOUS
    <3> QED  BY ONLY <3>1, <3>2, n \in Nat \ {0}, DivModUnique
  <2> USE DEF b, e
  <2> QED  BY <1>1, <1>2, <2>1, <2>2
<1>3. CASE r # n - 1
  <2>1. a + 1 = n * d + (r + 1) /\ r + 1 \in 0 .. n - 1 /\ a + 1 \in Nat
    BY <1>1, <1>3
  <2> DEFINE b == a + 1
             s == r + 1
  <2> HIDE DEF b, s
  <2>2. b \div n = d /\ b % n = s
    <3>1. b = n * d + s /\ b \in Nat /\ d \in Nat /\ s \in 0 .. n - 1
      BY <1>1, <2>1 DEF b, s
    <3> QED  BY ONLY <3>1, n \in Nat \ {0}, DivModUnique
  <2> USE DEF b, s
  <2>3. a + 1 # n * (d + 1)
    BY <1>1, <1>3
  <2> QED  BY <1>1, <1>3, <2>1, <2>2, <2>3
<1> QED  BY <1>2, <1>3

\* A finite set with at most one member, and with exactly one.
LEMMA AtMostOne ==
  ASSUME NEW S, IsFiniteSet(S)
  PROVE  /\ Cardinality(S) \in Nat
         /\ Cardinality(S) <= 1 <=> \A a, b \in S : a = b
         /\ Cardinality(S) = 1 <=> S # {} /\ \A a, b \in S : a = b
<1>1. Cardinality(S) \in Nat /\ (Cardinality(S) = 0 <=> S = {})
  BY FS_CardinalityType, FS_EmptySet
<1>2. Cardinality(S) = 1 <=> \E x : S = {x}
  BY FS_Singleton
<1>3. (\E x : S = {x}) <=> S # {} /\ \A a, b \in S : a = b
  OBVIOUS
<1>4. Cardinality(S) <= 1 <=> Cardinality(S) = 0 \/ Cardinality(S) = 1
  BY <1>1
<1> QED  BY <1>1, <1>2, <1>3, <1>4

\* Sets of one size that are pairwise disjoint, put together.
Disjoint(P) == \A A, B \in P : A # B => A \cap B = {}
OfSize(P, k) == \A A \in P : IsFiniteSet(A) /\ Cardinality(A) = k

\* n disjoint sets of k elements have k * n elements together.
LEMMA UnionCount ==
  ASSUME NEW P, IsFiniteSet(P), NEW k \in Nat, OfSize(P, k), Disjoint(P)
  PROVE  IsFiniteSet(UNION P) /\ Cardinality(UNION P) = k * Cardinality(P)
<1> DEFINE T == {n \in Nat : \A Q : (IsFiniteSet(Q) /\ Cardinality(Q) = n /\ OfSize(Q, k) /\ Disjoint(Q))
                    => (IsFiniteSet(UNION Q) /\ Cardinality(UNION Q) = k * n)}
<1>1. 0 \in T
  <2> SUFFICES ASSUME NEW Q, IsFiniteSet(Q), Cardinality(Q) = 0
               PROVE  IsFiniteSet(UNION Q) /\ Cardinality(UNION Q) = k * 0
    OBVIOUS
  <2>1. (UNION Q) = {}
    <3>1. Q = {}
      BY FS_EmptySet
    <3> QED  BY <3>1
  <2> QED  BY <2>1, FS_EmptySet
<1>2. ASSUME NEW n \in Nat, n \in T  PROVE n + 1 \in T
  <2> SUFFICES ASSUME NEW Q, IsFiniteSet(Q), Cardinality(Q) = n + 1, OfSize(Q, k), Disjoint(Q)
               PROVE  IsFiniteSet(UNION Q) /\ Cardinality(UNION Q) = k * (n + 1)
    OBVIOUS
  <2>1. PICK A : A \in Q
    <3>1. Q # {}
      BY FS_EmptySet
    <3> QED  BY <3>1
  <2> DEFINE R == Q \ {A}
  <2>2. IsFiniteSet(R) /\ Cardinality(R) = n /\ OfSize(R, k) /\ Disjoint(R)
    <3>1. IsFiniteSet(R) /\ Cardinality(R) = n
      <4>1. IsFiniteSet(R) /\ Cardinality(R) = (IF A \in Q THEN Cardinality(Q) - 1 ELSE Cardinality(Q))
        BY FS_RemoveElement
      <4> QED  BY <2>1, <4>1
    <3> QED  BY <3>1 DEF OfSize, Disjoint
  <2>3. IsFiniteSet(UNION R) /\ Cardinality(UNION R) = k * n
    BY <1>2, <2>2
  <2>4. (UNION Q) = (UNION R) \cup A /\ (UNION R) \cap A = {}
    <3>1. \A B \in R : B \cap A = {}
      BY <2>1 DEF Disjoint
    <3> QED  BY <2>1, <3>1
  <2>5. IsFiniteSet(A) /\ Cardinality(A) = k
    BY <2>1 DEF OfSize
  <2>6. IsFiniteSet(UNION Q) /\ Cardinality(UNION Q) = Cardinality(UNION R) + Cardinality(A) - Cardinality({})
    <3> DEFINE U == UNION R
    <3> HIDE DEF U
    <3>1. IsFiniteSet(U)
      BY <2>3 DEF U
    <3>2. IsFiniteSet(U \cup A) /\ Cardinality(U \cup A) = Cardinality(U) + Cardinality(A) - Cardinality(U \cap A)
      BY <2>5, <3>1, FS_Union
    <3> QED  BY <2>4, <3>2 DEF U
  <2>7. Cardinality({}) = 0
    BY FS_EmptySet
  <2> QED  BY <2>3, <2>5, <2>6, <2>7
<1> HIDE DEF T
<1>3. T = Nat
  <2>1. T \in SUBSET Nat
    BY DEF T
  <2> QED  BY ONLY <1>1, <1>2, <2>1, NatSetInduction
<1>4. Cardinality(P) \in T
  BY <1>3, FS_CardinalityType
<1> QED  BY <1>4 DEF T

-----------------------------------------------------------------------------
(* Lines of the tool, and the groups of CPUs they are to lie in. *)

\* The outputs of the tool: lines of CPUs in C, each of at least one CPU.
Outputs(C) == {L \in Seq(SUBSET C) : \A k \in DOMAIN L : L[k] # {}}

\* The group of P a CPU belongs to, and that of a line, by its first CPU.
Home(P, cpu) == CHOOSE g \in P : cpu \in g
HomeOf(P, a) == Home(P, First(a))

\* The smallest CPU of a line is one of the line.
LEMMA FirstIn ==
  ASSUME NEW S, S # {}, S \subseteq Nat
  PROVE  First(S) \in S
<1>1. \E n \in S : \A m \in S : n <= m
  BY NatMin
<1> QED  BY <1>1 DEF First

\* Each CPU is in exactly one place of a partition.
LEMMA HomeIs ==
  ASSUME NEW P, NEW C, IsPartition(P, C), NEW cpu \in C
  PROVE  /\ Home(P, cpu) \in P /\ cpu \in Home(P, cpu)
         /\ \A h \in P : cpu \in h => h = Home(P, cpu)
<1>1. PICK g \in P : cpu \in g
  BY DEF IsPartition
<1>2. \A h \in P : cpu \in h => h = g
  BY <1>1 DEF IsPartition
<1>3. Home(P, cpu) \in P /\ cpu \in Home(P, cpu)
  BY <1>1 DEF Home
<1> QED  BY <1>1, <1>2, <1>3

\* A line lies in a group if it lies in that of its first CPU.
LEMMA HomeOfLine ==
  ASSUME NEW P, NEW C, C \subseteq Nat, IsPartition(P, C), NEW a \in SUBSET C, a # {}
  PROVE  /\ HomeOf(P, a) \in P /\ HomeOf(P, a) \subseteq C
         /\ \A p \in P : a \subseteq p => p = HomeOf(P, a)
<1>1. First(a) \in a /\ First(a) \in C
  <2>1. a \subseteq Nat
    OBVIOUS
  <2> QED  BY <2>1, FirstIn
<1>2. HomeOf(P, a) \in P /\ \A h \in P : First(a) \in h => h = HomeOf(P, a)
  BY <1>1, HomeIs DEF HomeOf
<1> QED  BY <1>1, <1>2 DEF IsPartition

\* One more line.
LEMMA OutputNext ==
  ASSUME NEW C, NEW L \in Outputs(C), NEW a \in SUBSET C, a # {}
  PROVE  /\ Append(L, a) \in Outputs(C)
         /\ DOMAIN L = 1 .. Len(L) /\ Len(L) \in Nat
         /\ Len(Append(L, a)) = Len(L) + 1
         /\ DOMAIN Append(L, a) = 1 .. (Len(L) + 1)
         /\ \A k \in 1 .. Len(L) : Append(L, a)[k] = L[k]
         /\ Append(L, a)[Len(L) + 1] = a
<1>1. L \in Seq(SUBSET C) /\ DOMAIN L = 1 .. Len(L) /\ Len(L) \in Nat
  BY DEF Outputs
<1>2. /\ Append(L, a) \in Seq(SUBSET C) /\ Len(Append(L, a)) = Len(L) + 1
      /\ \A k \in 1 .. Len(L) : Append(L, a)[k] = L[k]
      /\ Append(L, a)[Len(L) + 1] = a
  BY <1>1
<1>3. DOMAIN Append(L, a) = 1 .. (Len(L) + 1)
  BY <1>2
<1>4. \A k \in 1 .. (Len(L) + 1) : Append(L, a)[k] # {}
  <2>1. \A k \in 1 .. Len(L) : L[k] # {}
    BY <1>1 DEF Outputs
  <2> QED  BY <1>1, <1>2, <2>1
<1> QED  BY <1>1, <1>2, <1>3, <1>4 DEF Outputs

\* The lines that lie in p; the lines that fit the groups P, at most n in each,
\* where W are the lines of the right width; and those that fill the groups.
Hosts(L, p) == {k \in DOMAIN L : L[k] \subseteq p}

Fit(P, W, n, L) ==
  /\ \A k \in DOMAIN L : L[k] \in W /\ \E p \in P : k \in Hosts(L, p)
  /\ \A p \in P : Cardinality(Hosts(L, p)) <= n

Full(P, W, n, L) ==
  /\ Fit(P, W, n, L)
  /\ \A p \in P : Cardinality(Hosts(L, p)) = n

\* The lines lie in groups and have the right width.
InGroups(P, W, L) == \A k \in DOMAIN L : L[k] \in W /\ L[k] \subseteq HomeOf(P, L[k])

\* How many lines a place hosts, said without counting where it is none or one.
LEMMA HostsCount ==
  ASSUME NEW C, NEW L \in Outputs(C), NEW p
  PROVE  /\ IsFiniteSet(Hosts(L, p)) /\ Cardinality(Hosts(L, p)) \in Nat
         /\ Cardinality(Hosts(L, p)) <= 1 <=> \A j, k \in Hosts(L, p) : j = k
         /\ Cardinality(Hosts(L, p)) = 1 <=> Hosts(L, p) # {} /\ \A j, k \in Hosts(L, p) : j = k
<1>1. L \in Seq(SUBSET C) /\ DOMAIN L = 1 .. Len(L) /\ 1 \in Int /\ Len(L) \in Int
  BY DEF Outputs
<1>2. IsFiniteSet(DOMAIN L)
  BY <1>1, FS_Interval
<1>3. Hosts(L, p) \in SUBSET DOMAIN L
  BY DEF Hosts
<1>4. IsFiniteSet(Hosts(L, p))
  BY <1>2, <1>3, FS_Subset
<1> QED  BY <1>4, AtMostOne

\* A line that lies in no group, or has the wrong width, fits no more.
LEMMA Misfit ==
  ASSUME NEW P, NEW C, C \subseteq Nat, IsPartition(P, C), NEW W, NEW n,
         NEW L \in Outputs(C), NEW a \in SUBSET C, a # {},
         ~(a \in W /\ a \subseteq HomeOf(P, a))
  PROVE  ~Fit(P, W, n, Append(L, a))
<1> DEFINE M == Append(L, a)
           k == Len(L) + 1
<1>1. k \in DOMAIN M /\ M[k] = a
  BY OutputNext
<1>2. \A p \in P : a \subseteq p => p = HomeOf(P, a)
  BY HomeOfLine
<1> HIDE DEF M, k
<1>3. ~Fit(P, W, n, M)
  BY <1>1, <1>2 DEF Fit, Hosts
<1> QED  BY <1>3 DEF M

\* A line more in a group.
LEMMA InGroupsNext ==
  ASSUME NEW P, NEW C, NEW W, NEW L \in Outputs(C), NEW a \in SUBSET C, a # {},
         InGroups(P, W, L), a \in W, a \subseteq HomeOf(P, a)
  PROVE  InGroups(P, W, Append(L, a))
<1> DEFINE M == Append(L, a)
<1>1. /\ DOMAIN L = 1 .. Len(L) /\ Len(L) \in Nat /\ DOMAIN M = 1 .. (Len(L) + 1)
      /\ \A k \in 1 .. Len(L) : M[k] = L[k]
      /\ M[Len(L) + 1] = a
  BY OutputNext
<1> HIDE DEF M
<1>2. ASSUME NEW k \in DOMAIN M  PROVE M[k] \in W /\ M[k] \subseteq HomeOf(P, M[k])
  <2>1. k \in 1 .. Len(L) \/ k = Len(L) + 1
    BY <1>1
  <2>2. CASE k \in 1 .. Len(L)
    BY <1>1, <2>2 DEF InGroups
  <2>3. CASE k = Len(L) + 1
    BY <1>1, <2>3
  <2> QED  BY <2>1, <2>2, <2>3
<1> QED  BY <1>2 DEF InGroups, M

\* Each of these lines is in one group; they fit if no group hosts too many.
LEMMA InGroupsHosts ==
  ASSUME NEW P, NEW C, C \subseteq Nat, IsPartition(P, C), NEW W,
         NEW L \in Outputs(C), InGroups(P, W, L)
  PROVE  /\ \A k \in DOMAIN L : L[k] \in W /\ HomeOf(P, L[k]) \in P /\ k \in Hosts(L, HomeOf(P, L[k]))
         /\ \A p \in P : \A k \in Hosts(L, p) : k \in DOMAIN L /\ p = HomeOf(P, L[k])
<1>1. ASSUME NEW k \in DOMAIN L
      PROVE  /\ L[k] \in W /\ HomeOf(P, L[k]) \in P /\ k \in Hosts(L, HomeOf(P, L[k]))
             /\ \A p \in P : k \in Hosts(L, p) => p = HomeOf(P, L[k])
  <2>1. L[k] \in SUBSET C /\ L[k] # {}
    BY DEF Outputs
  <2>2. HomeOf(P, L[k]) \in P /\ \A p \in P : L[k] \subseteq p => p = HomeOf(P, L[k])
    BY <2>1, HomeOfLine
  <2> QED  BY <2>2 DEF InGroups, Hosts
<1>2. \A p \in P : \A k \in Hosts(L, p) : k \in DOMAIN L
  BY DEF Hosts
<1> QED  BY <1>1, <1>2

\* Where every line is of the width asked for and in one place, an output can be
\* completed exactly if no place hosts too many lines.
LEMMA InGroupsFit ==
  ASSUME NEW P, NEW C, C \subseteq Nat, IsPartition(P, C), NEW W, NEW n,
         NEW L \in Outputs(C), InGroups(P, W, L)
  PROVE  Fit(P, W, n, L) <=> \A p \in P : Cardinality(Hosts(L, p)) <= n
<1>1. \A k \in DOMAIN L : L[k] \in W /\ HomeOf(P, L[k]) \in P /\ k \in Hosts(L, HomeOf(P, L[k]))
  BY InGroupsHosts
<1> QED  BY <1>1 DEF Fit

-----------------------------------------------------------------------------
(* The loops, one line after the other. *)

\* The groups of the lines.
Homes(P, L) == {HomeOf(P, L[k]) : k \in DOMAIN L}
Apart(P, L) == \A j, k \in DOMAIN L : HomeOf(P, L[j]) = HomeOf(P, L[k]) => j = k

\* The groups that are left out of Homes are what the lines leave of C.
LEMMA NothingLeft ==
  ASSUME NEW P, NEW C, C \subseteq Nat, IsPartition(P, C), NEW W,
         NEW L \in Outputs(C), InGroups(P, W, L)
  PROVE  /\ Homes(P, L) \subseteq P
         /\ (C \ UNION Homes(P, L)) = {} <=> Homes(P, L) = P
<1>1. Homes(P, L) \subseteq P
  BY InGroupsHosts DEF Homes
<1>2. ASSUME (C \ UNION Homes(P, L)) = {}, NEW p \in P  PROVE p \in Homes(P, L)
  <2>1. PICK c : c \in p /\ c \in C
    <3>1. p # {}
      BY DEF IsPartition
    <3> QED  BY <3>1 DEF IsPartition
  <2>2. PICK h \in Homes(P, L) : c \in h
    BY <1>2, <2>1
  <2>3. h = p
    BY <1>1, <2>1, <2>2 DEF IsPartition
  <2> QED  BY <2>2, <2>3
<1>3. Homes(P, L) = P => (C \ UNION Homes(P, L)) = {}
  BY DEF IsPartition
<1> QED  BY <1>1, <1>2, <1>3

\* One line each: the groups are full when the lines are apart and none is
\* left out.
LEMMA FullWhenApart ==
  ASSUME NEW P, NEW C, C \subseteq Nat, IsPartition(P, C), NEW W,
         NEW L \in Outputs(C), InGroups(P, W, L)
  PROVE  /\ Fit(P, W, 1, L) <=> Apart(P, L)
         /\ Full(P, W, 1, L) <=> Apart(P, L) /\ Homes(P, L) = P
<1>1. /\ \A k \in DOMAIN L : HomeOf(P, L[k]) \in P /\ k \in Hosts(L, HomeOf(P, L[k]))
      /\ \A p \in P : \A k \in Hosts(L, p) : k \in DOMAIN L /\ p = HomeOf(P, L[k])
      /\ Fit(P, W, 1, L) <=> \A p \in P : Cardinality(Hosts(L, p)) <= 1
  BY InGroupsHosts, InGroupsFit
<1>2. \A p \in P :
        /\ Cardinality(Hosts(L, p)) <= 1 <=> \A j, k \in Hosts(L, p) : j = k
        /\ Cardinality(Hosts(L, p)) = 1 <=> Hosts(L, p) # {} /\ \A j, k \in Hosts(L, p) : j = k
  BY HostsCount
<1>3. Apart(P, L) <=> \A p \in P : \A j, k \in Hosts(L, p) : j = k
  BY <1>1 DEF Apart
<1>4. Homes(P, L) = P <=> \A p \in P : Hosts(L, p) # {}
  <2>1. Homes(P, L) \subseteq P
    BY <1>1 DEF Homes
  <2>2. \A p \in P : p \in Homes(P, L) <=> Hosts(L, p) # {}
    BY <1>1 DEF Homes
  <2> QED  BY <2>1, <2>2
<1>5. Fit(P, W, 1, L) <=> Apart(P, L)
  BY <1>1, <1>2, <1>3
<1>6. Full(P, W, 1, L) <=> Apart(P, L) /\ Homes(P, L) = P
  <2>1. Full(P, W, 1, L) <=> Fit(P, W, 1, L) /\ \A p \in P : Cardinality(Hosts(L, p)) = 1
    BY DEF Full
  <2> QED  BY <1>2, <1>3, <1>4, <1>5, <2>1
<1> QED  BY <1>5, <1>6

\* The CPUs of the groups that host no line are left.
Left(P, C, L) == C \ UNION Homes(P, L)

Consumes(P, C, L, a) == Left(P, C, Append(L, a)) = Left(P, C, L) \ HomeOf(P, a)

\* A line read takes the place it begins in from the CPUs that are left.
LEMMA LeftNext ==
  ASSUME NEW P, NEW C, NEW L \in Outputs(C), NEW a \in SUBSET C, a # {}
  PROVE  Consumes(P, C, L, a)
<1> DEFINE M == Append(L, a)
<1>1. /\ DOMAIN L = 1 .. Len(L) /\ Len(L) \in Nat /\ DOMAIN M = 1 .. (Len(L) + 1)
      /\ \A k \in 1 .. Len(L) : M[k] = L[k]
      /\ M[Len(L) + 1] = a
  BY OutputNext
<1> HIDE DEF M
<1>2. DOMAIN M = DOMAIN L \cup {Len(L) + 1}
  BY <1>1
<1>3. Homes(P, M) = Homes(P, L) \cup {HomeOf(P, a)}
  BY <1>1, <1>2 DEF Homes
<1> QED  BY <1>3 DEF M, Left, Consumes

\* The tests that consume the group of a line: a line of free CPUs of one group.
LEMMA SetAccepts ==
  ASSUME NEW P, NEW C, C \subseteq Nat, IsPartition(P, C), NEW W,
         NEW L \in Outputs(C), InGroups(P, W, L), Apart(P, L),
         NEW a \in SUBSET C, a # {}, a \in W, a \subseteq HomeOf(P, a), a \subseteq Left(P, C, L)
  PROVE  Apart(P, Append(L, a))
<1> DEFINE M == Append(L, a)
<1>1. /\ DOMAIN L = 1 .. Len(L) /\ Len(L) \in Nat /\ DOMAIN M = 1 .. (Len(L) + 1)
      /\ \A k \in 1 .. Len(L) : M[k] = L[k]
      /\ M[Len(L) + 1] = a
  BY OutputNext
<1>2. \A k \in 1 .. Len(L) : HomeOf(P, L[k]) # HomeOf(P, a)
  <2>1. PICK c \in a : TRUE
    OBVIOUS
  <2>2. c \in HomeOf(P, a) /\ c \notin UNION Homes(P, L)
    BY <2>1 DEF Left
  <2> QED  BY <1>1, <2>2 DEF Homes
<1> HIDE DEF M
<1>3. ASSUME NEW j \in DOMAIN M, NEW k \in DOMAIN M, HomeOf(P, M[j]) = HomeOf(P, M[k])
      PROVE  j = k
  <2>1. (j \in 1 .. Len(L) \/ j = Len(L) + 1) /\ (k \in 1 .. Len(L) \/ k = Len(L) + 1)
    BY <1>1
  <2>2. CASE j \in 1 .. Len(L) /\ k \in 1 .. Len(L)
    BY <1>1, <1>3, <2>2 DEF Apart
  <2>3. CASE j \in 1 .. Len(L) /\ k = Len(L) + 1
    BY <1>1, <1>2, <1>3, <2>3
  <2>4. CASE j = Len(L) + 1 /\ k \in 1 .. Len(L)
    BY <1>1, <1>2, <1>3, <2>4
  <2>5. CASE j = Len(L) + 1 /\ k = Len(L) + 1
    BY <2>5
  <2> QED  BY <2>1, <2>2, <2>3, <2>4, <2>5
<1> QED  BY <1>3 DEF Apart, M

\* A line that is not of free CPUs shares its group with an earlier line.
LEMMA SetRefuses ==
  ASSUME NEW P, NEW C, C \subseteq Nat, IsPartition(P, C), NEW W,
         NEW L \in Outputs(C), InGroups(P, W, L),
         NEW a \in SUBSET C, a # {},
         ~(a \in W /\ a \subseteq HomeOf(P, a) /\ a \subseteq Left(P, C, L))
  PROVE  ~Fit(P, W, 1, Append(L, a))
<1>1. CASE ~(a \in W /\ a \subseteq HomeOf(P, a))
  BY <1>1, Misfit
<1>2. CASE a \in W /\ a \subseteq HomeOf(P, a)
  <2> DEFINE M == Append(L, a)
  <2>1. /\ DOMAIN L = 1 .. Len(L) /\ Len(L) \in Nat /\ DOMAIN M = 1 .. (Len(L) + 1)
        /\ \A k \in 1 .. Len(L) : M[k] = L[k]
        /\ M[Len(L) + 1] = a /\ M \in Outputs(C)
    BY ONLY OutputNext, L \in Outputs(C), a \in SUBSET C, a # {}
  <2>2. PICK c \in a : c \notin Left(P, C, L)
    BY <1>2
  <2>3. PICK k \in 1 .. Len(L) : c \in HomeOf(P, L[k])
    BY <2>1, <2>2 DEF Left, Homes
  <2>4. HomeOf(P, L[k]) = HomeOf(P, a)
    <3>1. HomeOf(P, L[k]) \in P
      BY <2>1, InGroupsHosts
    <3>2. HomeOf(P, a) \in P
      BY HomeOfLine
    <3> QED  BY <1>2, <2>3, <3>1, <3>2 DEF IsPartition
  <2>5. InGroups(P, W, M)
    BY <1>2, InGroupsNext
  <2> HIDE DEF M
  <2>6. ~Apart(P, M)
    <3>1. k # Len(L) + 1 /\ k \in DOMAIN M /\ Len(L) + 1 \in DOMAIN M
      BY <2>1
    <3> QED  BY <2>1, <2>4, <3>1 DEF Apart
  <2>7. ~Fit(P, W, 1, M)
    BY <2>1, <2>5, <2>6, FullWhenApart
  <2> QED  BY <2>7 DEF M
<1> QED  BY <1>1, <1>2

\* As many lines as groups, and no group left out: there is one line in each.
LEMMA FullWhenCounted ==
  ASSUME NEW P, NEW C, C \subseteq Nat, IsPartition(P, C), NEW W, IsFiniteSet(P),
         NEW L \in Outputs(C), InGroups(P, W, L)
  PROVE  Full(P, W, 1, L) <=> Len(L) = Cardinality(P) /\ Homes(P, L) = P
<1> DEFINE D == DOMAIN L
           f == [k \in D |-> HomeOf(P, L[k])]
<1>1. D = 1 .. Len(L) /\ Len(L) \in Nat /\ IsFiniteSet(D) /\ Cardinality(D) = Len(L)
  <2>1. D = 1 .. Len(L) /\ Len(L) \in Nat /\ 1 \in Int /\ Len(L) \in Int
    BY DEF Outputs
  <2>2. IsFiniteSet(1 .. Len(L)) /\ Cardinality(1 .. Len(L)) = IF 1 > Len(L) THEN 0 ELSE Len(L) - 1 + 1
    BY <2>1, FS_Interval
  <2> QED  BY <2>1, <2>2
<1>2. f \in [D -> P]
  BY InGroupsHosts
<1>3. Homes(P, L) = P => f \in Surjection(D, P)
  <2>1. Homes(P, L) = P => \A p \in P : \E k \in D : f[k] = p
    BY DEF Homes
  <2> QED  BY <1>2, <2>1 DEF Surjection
<1>4. Homes(P, L) = P => (Cardinality(P) = Cardinality(D) <=> f \in Injection(D, P))
  BY <1>1, <1>3, FS_Surjection
<1>5. f \in Injection(D, P) <=> Apart(P, L)
  <2>1. f \in Injection(D, P) <=> \A j, k \in D : f[j] = f[k] => j = k
    BY <1>2 DEF Injection, IsInjective
  <2>2. \A k \in D : f[k] = HomeOf(P, L[k])
    OBVIOUS
  <2> HIDE DEF f
  <2> QED  BY <2>1, <2>2 DEF Apart
<1>6. Full(P, W, 1, L) <=> Apart(P, L) /\ Homes(P, L) = P
  BY FullWhenApart
<1> HIDE DEF f, D
<1> QED  BY <1>1, <1>4, <1>5, <1>6

-----------------------------------------------------------------------------
(* The places of each test, and what its loop has seen to. *)

\* Places, the width of a line and the lines of a place, by the node and test.
PlacesOf(t, x) ==
  CASE x = "OneThreadPerLogicalCoreOpenMP" -> {{c} : c \in Cpus(t)}
    [] x \in BySocket \cup {"OneThreadPerSocketOpenMP"} -> SocketSet(t)
    [] x = "OneTaskPerNumaNode" -> t.numa_nodes
    [] OTHER -> t.cores

WidthOf(t, x) ==
  CASE x \in BySocket -> {a \in SUBSET Cpus(t) : Cardinality(a) = Asks(t, x).num_omp_threads}
    [] x = "OneTaskPerNumaNode" ->
         {a \in SUBSET Cpus(t) : Cardinality(a) = Asks(t, x).num_cpus_per_task}
    [] x \in ByTask \cup {"OneThreadPerPhysicalCoreOpenMPnomt"} ->
         {a \in SUBSET Cpus(t) : Cardinality(a) = 1}
    [] OTHER -> SUBSET Cpus(t)

LinesOf(t, x) == IF x \in BySocket THEN Asks(t, x).num_omp_threads ELSE 1

\* The CPUs of a node and the places that divide them are finite sets.
LEMMA CpusFinite ==
  ASSUME NEW t, TopologyOK(t)
  PROVE  /\ Cpus(t) \subseteq Nat /\ IsFiniteSet(Cpus(t)) /\ Cardinality(Cpus(t)) = t.num_cpus
         /\ \A P : IsPartition(P, Cpus(t)) => IsFiniteSet(P) /\ \A p \in P : IsFiniteSet(p)
<1>1. t.num_cpus \in Nat \ {0}
  BY DEF TopologyOK
<1>2. Cpus(t) \subseteq Nat /\ IsFiniteSet(Cpus(t)) /\ Cardinality(Cpus(t)) = t.num_cpus
  <2>1. 0 \in Int /\ t.num_cpus - 1 \in Int /\ ~(0 > t.num_cpus - 1)
    BY <1>1
  <2>2. /\ IsFiniteSet(0 .. t.num_cpus - 1)
        /\ Cardinality(0 .. t.num_cpus - 1) = IF 0 > t.num_cpus - 1 THEN 0 ELSE (t.num_cpus - 1) - 0 + 1
    BY <2>1, FS_Interval
  <2>3. Cardinality(0 .. t.num_cpus - 1) = t.num_cpus
    BY <1>1, <2>1, <2>2
  <2> QED  BY <2>2, <2>3 DEF Cpus
<1>3. ASSUME NEW P, IsPartition(P, Cpus(t))
      PROVE  IsFiniteSet(P) /\ \A p \in P : IsFiniteSet(p)
  <2>1. P \in SUBSET (SUBSET Cpus(t))
    BY <1>3 DEF IsPartition
  <2>2. IsFiniteSet(SUBSET Cpus(t))
    BY <1>2, FS_SUBSET
  <2>3. IsFiniteSet(P)
    BY <2>1, <2>2, FS_Subset
  <2>4. \A p \in P : p \in SUBSET Cpus(t)
    BY <2>1
  <2> QED  BY <1>2, <2>3, <2>4, FS_Subset
<1> QED  BY <1>2, <1>3

\* The tests are told apart by their names.
LEMMA TestsApart ==
  ASSUME NEW x \in Tests
  PROVE  /\ x \in BySet => x \notin BySocket /\ x \notin ByTask /\ x # "OneTaskPerNumaNode"
         /\ x \in BySocket => x \notin BySet /\ x \notin ByTask /\ x # "OneTaskPerNumaNode"
         /\ x \in ByTask => x \notin BySet /\ x \notin BySocket /\ x # "OneTaskPerNumaNode"
         /\ x = "OneTaskPerNumaNode" => x \notin BySet /\ x \notin BySocket /\ x \notin ByTask
         /\ x \in BySet \/ x \in BySocket \/ x \in ByTask \/ x = "OneTaskPerNumaNode"
  BY DEF Tests, BySet, BySocket, ByTask

\* The places divide the CPUs of the node.
LEMMA PlacesDivide ==
  ASSUME NEW t, TopologyOK(t), NEW x
  PROVE  IsPartition(PlacesOf(t, x), Cpus(t))
<1>1. /\ IsPartition(t.cores, Cpus(t)) /\ IsPartition(t.numa_nodes, Cpus(t))
      /\ IsPartition(SocketSet(t), Cpus(t))
  BY DEF TopologyOK
<1>2. IsPartition({{c} : c \in Cpus(t)}, Cpus(t))
  BY DEF IsPartition
<1> QED  BY <1>1, <1>2 DEF PlacesOf

\* What the hooks of the tests look up.
LEMMA GroupIs ==
  ASSUME NEW t, TopologyOK(t), NEW x, NEW cpu \in Cpus(t)
  PROVE  /\ Siblings(t, cpu, "core") = Home(t.cores, cpu)
         /\ Siblings(t, cpu, "socket") = Home(SocketSet(t), cpu)
         /\ Siblings(t, cpu, "node") = Home(t.numa_nodes, cpu)
         /\ x \in BySet => Group(t, x, cpu) = Home(PlacesOf(t, x), cpu)
<1>1. /\ Siblings(t, cpu, "core") = Home(t.cores, cpu)
      /\ Siblings(t, cpu, "socket") = Home(SocketSet(t), cpu)
      /\ Siblings(t, cpu, "node") = Home(t.numa_nodes, cpu)
  BY DEF Siblings, Home
<1>2. CASE x = "OneThreadPerLogicalCoreOpenMP"
  <2>1. PlacesOf(t, x) = {{c} : c \in Cpus(t)} /\ IsPartition(PlacesOf(t, x), Cpus(t))
    BY <1>2, PlacesDivide DEF PlacesOf, BySocket
  <2>2. Home(PlacesOf(t, x), cpu) = {cpu}
    <3>1. \A h \in PlacesOf(t, x) : cpu \in h => h = Home(PlacesOf(t, x), cpu)
      BY <2>1, HomeIs
    <3>2. {cpu} \in PlacesOf(t, x) /\ cpu \in {cpu}
      BY <2>1
    <3> QED  BY ONLY <3>1, <3>2
  <2> QED  BY <1>1, <1>2, <2>2 DEF Group
<1>3. CASE x = "OneThreadPerSocketOpenMP"
  BY <1>1, <1>3 DEF Group, PlacesOf, BySocket
<1>4. CASE x \notin {"OneThreadPerLogicalCoreOpenMP", "OneThreadPerSocketOpenMP"}
  <2>1. x \in BySet => PlacesOf(t, x) = t.cores
    BY <1>4 DEF PlacesOf, BySet, BySocket
  <2>2. Group(t, x, cpu) = Siblings(t, cpu, "core")
    BY <1>4 DEF Group
  <2> QED  BY <1>1, <2>1, <2>2
<1>5. x \in BySet => Group(t, x, cpu) = Home(PlacesOf(t, x), cpu)
  BY <1>2, <1>3, <1>4
<1> QED  BY <1>1, <1>5

-----------------------------------------------------------------------------
(* What holds while a test runs. *)

\* The values of the variables.
AffinityType ==
  /\ topo \in Topologies /\ test \in Tests
  /\ pc \in {"setup", "consume", "sanity", "done"}
  /\ aff_cpus \in Outputs(Cpus(topo))
  /\ pc = "setup" => aff_cpus = <<>>
  /\ pc \in {"consume", "sanity"} => job = Asks(topo, test)
  /\ pc # "done" => result = "none"

\* What the tests promise, by the groups of CPUs and the lines in them.
Judged ==
  /\ Fits <=> Fit(PlacesOf(topo, test), WidthOf(topo, test), LinesOf(topo, test), aff_cpus) /\ OrderOK
  /\ Placed <=> Full(PlacesOf(topo, test), WidthOf(topo, test), LinesOf(topo, test), aff_cpus) /\ OrderOK

\* Fits and Placed, in the terms of Fit and Full.
LEMMA JudgedIs == AffinityType /\ job = Asks(topo, test) => Judged
<1> SUFFICES ASSUME AffinityType, job = Asks(topo, test)  PROVE Judged
  OBVIOUS
<1>1. Places = PlacesOf(topo, test)
  BY DEF Places, PlacesOf, BySocket
<1>2. LinesPerPlace = LinesOf(topo, test)
  BY DEF LinesPerPlace, LinesOf
<1>3. ASSUME NEW k \in Lines  PROVE WidthOK(k) <=> aff_cpus[k] \in WidthOf(topo, test)
  <2>1. aff_cpus[k] \in SUBSET Cpus(topo)
    BY <1>3 DEF AffinityType, Outputs, Lines
  <2>2. CASE test \in BySocket
    BY <2>1, <2>2, TestsApart DEF WidthOK, WidthOf, AffinityType, BySocket, ByTask
  <2>3. CASE test = "OneTaskPerNumaNode"
    BY <2>1, <2>3, TestsApart DEF WidthOK, WidthOf, AffinityType, BySocket, ByTask
  <2>4. CASE test \in ByTask \cup {"OneThreadPerPhysicalCoreOpenMPnomt"}
    BY <2>1, <2>4, TestsApart DEF WidthOK, WidthOf, AffinityType, BySocket, ByTask
  <2>5. CASE /\ test \notin BySocket /\ test # "OneTaskPerNumaNode"
             /\ test \notin ByTask \cup {"OneThreadPerPhysicalCoreOpenMPnomt"}
    BY <2>1, <2>5 DEF WidthOK, WidthOf
  <2> QED  BY <2>2, <2>3, <2>4, <2>5
<1>4. \A p : Hosted(p) = Hosts(aff_cpus, p)
  BY DEF Hosted, Hosts, Lines
<1>5. Fits <=> Fit(PlacesOf(topo, test), WidthOf(topo, test), LinesOf(topo, test), aff_cpus) /\ OrderOK
  BY <1>1, <1>2, <1>3, <1>4 DEF Fits, Fit, Lines
<1>6. Placed <=> Full(PlacesOf(topo, test), WidthOf(topo, test), LinesOf(topo, test), aff_cpus) /\ OrderOK
  BY <1>1, <1>2, <1>4, <1>5 DEF Placed, Full
<1> QED  BY <1>5, <1>6 DEF Judged

\* The order is free but for the tests with a task per core.
LEMMA AnyOrder == test \notin ByTask => OrderOK
  BY DEF OrderOK, ByTask

\* The lines read so far are in places and have the width asked for.
Sound == InGroups(PlacesOf(topo, test), WidthOf(topo, test), aff_cpus)
Unseen == Left(PlacesOf(topo, test), Cpus(topo), aff_cpus)

SetsSeen ==
  test \in BySet => Sound /\ Apart(PlacesOf(topo, test), aff_cpus) /\ cpu_set = Unseen
NodesSeen == test = "OneTaskPerNumaNode" => Sound /\ cpu_set = Unseen
ThreadsSeen == test \in BySocket => Sound /\ cpu_set = Cpus(topo)

\* What a line does to a test: it goes on, or no output that starts so is right.
Going(inv) == pc' = "consume" /\ inv
Refused == pc' = "done" /\ result' = "sanity_error" /\ ~Fits'

\* A line of an output.
LEMMA LineRead ==
  ASSUME AffinityType, pc = "consume", NEW set \in Reports, Read(set)
  PROVE  /\ TopologyOK(topo) /\ Cpus(topo) \subseteq Nat
         /\ IsPartition(PlacesOf(topo, test), Cpus(topo))
         /\ aff_cpus \in Outputs(Cpus(topo)) /\ set \in SUBSET Cpus(topo) /\ set # {}
         /\ First(set) \in Cpus(topo)
         /\ aff_cpus' = Append(aff_cpus, set) /\ aff_cpus' \in Outputs(Cpus(topo))
         /\ topo' = topo /\ test' = test /\ job' = job /\ job = Asks(topo, test)
<1>1. TopologyOK(topo) /\ aff_cpus \in Outputs(Cpus(topo)) /\ job = Asks(topo, test)
  BY TopologiesAssumption DEF AffinityType
<1>2. Cpus(topo) \subseteq Nat /\ IsPartition(PlacesOf(topo, test), Cpus(topo))
  BY <1>1, CpusFinite, PlacesDivide
<1>3. set \in SUBSET Cpus(topo) /\ set # {}
  BY ReportsAssumption DEF Read
<1>4. First(set) \in Cpus(topo)
  <2>1. set \subseteq Nat
    BY <1>2, <1>3
  <2> QED  BY <1>3, <2>1, FirstIn
<1>5. Append(aff_cpus, set) \in Outputs(Cpus(topo))
  BY ONLY <1>1, <1>3, OutputNext
<1> QED  BY <1>1, <1>2, <1>3, <1>4, <1>5 DEF Read

\* A refused line, by the groups of CPUs.
LEMMA RefusedIs ==
  ASSUME AffinityType', job' = Asks(topo', test'), pc' = "done", result' = "sanity_error",
         ~Fit(PlacesOf(topo', test'), WidthOf(topo', test'), LinesOf(topo', test'), aff_cpus')
  PROVE  Refused
<1>1. (AffinityType /\ job = Asks(topo, test) => Judged)'
  BY JudgedIs, PTL
<1>2. Judged'
  BY <1>1
<1> QED  BY <1>2 DEF Judged, Refused

\* AffinityType holds at the start ...
LEMMA AffinityTypeStarts == Init => AffinityType
<1> SUFFICES ASSUME Init  PROVE AffinityType
  OBVIOUS
<1>1. <<>> \in Seq(SUBSET Cpus(topo))
  OBVIOUS
<1>2. <<>> \in Outputs(Cpus(topo))
  BY <1>1 DEF Outputs
<1> QED  BY <1>2 DEF Init, AffinityType

\* ... and every step keeps it.
LEMMA AffinityTypeStep == AffinityType /\ [Next]_vars => AffinityType'
<1> SUFFICES ASSUME AffinityType, [Next]_vars  PROVE AffinityType'
  OBVIOUS
<1>1. ASSUME UNCHANGED <<topo, test, aff_cpus>>, Skip \/ Setup \/ ShortOutput \/ assert_consumed_cpu_set
      PROVE  AffinityType'
  BY <1>1 DEF AffinityType, Skip, Setup, ShortOutput, assert_consumed_cpu_set
<1>2. ASSUME EndSets \/ EndSocketThreads \/ EndNuma  PROVE AffinityType'
  BY <1>2 DEF AffinityType, EndSets, EndSocketThreads, EndNuma
<1>3. ASSUME NEW set \in Reports, Read(set), pc' \in {"consume", "sanity", "done"},
             pc' # "done" => result' = result
      PROVE  AffinityType'
  <2>1. pc = "consume"
    BY <1>3 DEF Read
  <2>2. aff_cpus' \in Outputs(Cpus(topo)) /\ topo' = topo /\ test' = test /\ job' = job
    BY <1>3, <2>1, LineRead
  <2> QED  BY <1>3, <2>1, <2>2 DEF AffinityType
<1>4. ASSUME NEW set \in Reports, ConsumeSet(set)  PROVE AffinityType'
  BY <1>3, <1>4 DEF ConsumeSet, Reject, Read
<1>5. ASSUME NEW set \in Reports, ConsumeSocketThread(set)  PROVE AffinityType'
  BY <1>3, <1>5 DEF ConsumeSocketThread, Reject, Read
<1>6. ASSUME NEW set \in Reports, ConsumeNuma(set)  PROVE AffinityType'
  BY <1>3, <1>6 DEF ConsumeNuma, Reject, Read
<1>7. ASSUME NEW set \in Reports, ConsumeConsecutive(set)  PROVE AffinityType'
  <2>1. pc = "consume" /\ Read(set)
    BY <1>7 DEF ConsumeConsecutive, Read
  <2>2. pc' \in {"consume", "sanity", "done"} /\ (pc' # "done" => result' = result)
    BY <1>7, <2>1 DEF ConsumeConsecutive, Reject
  <2> QED  BY <1>3, <2>1, <2>2
<1>8. ASSUME NEW set \in Reports, ConsumeAlternate(set)  PROVE AffinityType'
  <2>1. pc = "consume" /\ Read(set)
    BY <1>8 DEF ConsumeAlternate, Read
  <2>2. pc' \in {"consume", "sanity", "done"} /\ (pc' # "done" => result' = result)
    BY <1>8, <2>1 DEF ConsumeAlternate, Reject
  <2> QED  BY <1>3, <2>1, <2>2
<1>9. ASSUME Skip \/ Setup \/ ShortOutput \/ assert_consumed_cpu_set  PROVE AffinityType'
  BY <1>1, <1>9 DEF Skip, Setup, ShortOutput, assert_consumed_cpu_set
<1>10. ASSUME Done \/ UNCHANGED vars  PROVE AffinityType'
  BY <1>10 DEF AffinityType, Done, vars
<1> QED  BY <1>2, <1>4, <1>5, <1>6, <1>7, <1>8, <1>9, <1>10 DEF Next

-----------------------------------------------------------------------------
(* One thread per logical core, physical core or socket. *)

\* The condition of consume_cpu_set, by the groups of CPUs.
LEMMA FitsSetIs ==
  ASSUME AffinityType, pc = "consume", test \in BySet, NEW set \in Reports, Read(set), cpu_set = Unseen
  PROVE  FitsSet(set) <=> /\ set \in WidthOf(topo, test)
                          /\ set \subseteq HomeOf(PlacesOf(topo, test), set)
                          /\ set \subseteq Left(PlacesOf(topo, test), Cpus(topo), aff_cpus)
<1>1. TopologyOK(topo) /\ First(set) \in Cpus(topo) /\ set \in SUBSET Cpus(topo)
  BY LineRead
<1>2. Group(topo, test, First(set)) = HomeOf(PlacesOf(topo, test), set)
  BY <1>1, GroupIs DEF HomeOf
<1>3. (test = "OneThreadPerPhysicalCoreOpenMPnomt" => Cardinality(set) = 1) <=> set \in WidthOf(topo, test)
  BY <1>1 DEF WidthOf, BySet, BySocket, ByTask
<1> QED  BY <1>2, <1>3 DEF FitsSet, Unseen

\* A line of a BySet test: the CPUs left are again those of the places without a
\* line, or no output that starts so is right.
LEMMA ConsumeSetStep ==
  ASSUME AffinityType, AffinityType', SetsSeen, NEW set \in Reports, ConsumeSet(set)
  PROVE  Going(SetsSeen') \/ Refused
<1> DEFINE P == PlacesOf(topo, test)
           C == Cpus(topo)
           W == WidthOf(topo, test)
           M == Append(aff_cpus, set)
<1>1. test \in BySet /\ Read(set) /\ pc = "consume"
  BY DEF ConsumeSet, Read
<1>2. /\ TopologyOK(topo) /\ C \subseteq Nat /\ IsPartition(P, C)
      /\ aff_cpus \in Outputs(C) /\ set \in SUBSET C /\ set # {} /\ First(set) \in C
      /\ aff_cpus' = M /\ M \in Outputs(C)
      /\ topo' = topo /\ test' = test /\ job' = job /\ job = Asks(topo, test)
  BY <1>1, LineRead
<1>3. InGroups(P, W, aff_cpus) /\ Apart(P, aff_cpus) /\ cpu_set = Left(P, C, aff_cpus) /\ cpu_set = Unseen
  BY <1>1 DEF SetsSeen, Sound, Unseen
<1>4. FitsSet(set) <=> set \in W /\ set \subseteq HomeOf(P, set) /\ set \subseteq Left(P, C, aff_cpus)
  BY <1>1, <1>3, FitsSetIs
<1>5. Group(topo, test, First(set)) = HomeOf(P, set)
  BY <1>1, <1>2, GroupIs DEF HomeOf
<1> HIDE DEF P, C, W, M
<1>6. CASE FitsSet(set) /\ cpu_set' = cpu_set \ Group(topo, test, First(set)) /\ pc' = pc
  <2>1. set \in W /\ set \subseteq HomeOf(P, set) /\ set \subseteq Left(P, C, aff_cpus)
    BY <1>4, <1>6
  <2>2. InGroups(P, W, M)
    BY ONLY <1>2, <1>3, <2>1, InGroupsNext DEF M
  <2>3. Apart(P, M)
    BY ONLY <1>2, <1>3, <2>1, SetAccepts DEF M
  <2>4. Left(P, C, M) = Left(P, C, aff_cpus) \ HomeOf(P, set)
    <3>1. Consumes(P, C, aff_cpus, set)
      BY ONLY <1>2, LeftNext
    <3> QED  BY <3>1 DEF Consumes, M
  <2>5. cpu_set' = Left(P, C, M)
    BY <1>3, <1>5, <1>6, <2>4
  <2>6. Sound' /\ Apart(PlacesOf(topo', test'), aff_cpus') /\ cpu_set' = Unseen'
    BY <1>2, <2>2, <2>3, <2>5 DEF Sound, Unseen, P, C, W
  <2> QED  BY <1>1, <1>6, <2>6 DEF Going, SetsSeen
<1>7. CASE ~FitsSet(set) /\ Reject
  <2>1. ~(set \in W /\ set \subseteq HomeOf(P, set) /\ set \subseteq Left(P, C, aff_cpus))
    BY <1>4, <1>7
  <2>2. ~Fit(P, W, 1, M)
    BY ONLY <1>2, <1>3, <2>1, SetRefuses DEF M
  <2>3. LinesOf(topo, test) = 1
    BY <1>1 DEF LinesOf, BySet, BySocket
  <2>4. ~Fit(PlacesOf(topo', test'), WidthOf(topo', test'), LinesOf(topo', test'), aff_cpus')
    BY <1>2, <2>2, <2>3 DEF P, W
  <2>5. job' = Asks(topo', test') /\ pc' = "done" /\ result' = "sanity_error"
    BY <1>2, <1>7 DEF Reject
  <2> QED  BY <2>4, <2>5, RefusedIs
<1> QED  BY <1>6, <1>7 DEF ConsumeSet

\* The CPUs left at the end tell whether the lines are placed.
Decided == (cpu_set = {}) <=> Placed

\* At the end of a BySet test, no CPU is left exactly if every place has its line.
LEMMA SetsDecided ==
  ASSUME AffinityType, job = Asks(topo, test), SetsSeen, test \in BySet
  PROVE  Decided
<1> DEFINE P == PlacesOf(topo, test)
           C == Cpus(topo)
           W == WidthOf(topo, test)
<1>1. C \subseteq Nat /\ IsPartition(P, C) /\ aff_cpus \in Outputs(C)
  <2>1. TopologyOK(topo)
    BY TopologiesAssumption DEF AffinityType
  <2> QED  BY <2>1, CpusFinite, PlacesDivide DEF AffinityType
<1>2. InGroups(P, W, aff_cpus) /\ Apart(P, aff_cpus) /\ cpu_set = C \ UNION Homes(P, aff_cpus)
  BY DEF SetsSeen, Sound, Unseen, Left
<1> HIDE DEF P, C, W
<1>3. (C \ UNION Homes(P, aff_cpus)) = {} <=> Homes(P, aff_cpus) = P
  BY ONLY <1>1, <1>2, NothingLeft
<1>4. Full(P, W, 1, aff_cpus) <=> Apart(P, aff_cpus) /\ Homes(P, aff_cpus) = P
  BY ONLY <1>1, <1>2, FullWhenApart
<1>5. LinesOf(topo, test) = 1 /\ OrderOK
  BY AnyOrder DEF LinesOf, BySet, BySocket, ByTask
<1>6. Placed <=> Full(P, W, 1, aff_cpus)
  BY <1>5, JudgedIs DEF Judged, P, W
<1> QED  BY <1>2, <1>3, <1>4, <1>6 DEF Decided

-----------------------------------------------------------------------------
(* One task per NUMA node: its lines may share a node, but are counted.      *)

\* The same for a line of OneTaskPerNumaNode.
LEMMA ConsumeNumaStep ==
  ASSUME AffinityType, AffinityType', NodesSeen, NEW set \in Reports, ConsumeNuma(set)
  PROVE  Going(NodesSeen') \/ Refused
<1> DEFINE P == PlacesOf(topo, test)
           C == Cpus(topo)
           W == WidthOf(topo, test)
           M == Append(aff_cpus, set)
<1>1. test = "OneTaskPerNumaNode" /\ Read(set) /\ pc = "consume"
  BY DEF ConsumeNuma, Read
<1>2. /\ TopologyOK(topo) /\ C \subseteq Nat /\ IsPartition(P, C)
      /\ aff_cpus \in Outputs(C) /\ set \in SUBSET C /\ set # {} /\ First(set) \in C
      /\ aff_cpus' = M /\ M \in Outputs(C)
      /\ topo' = topo /\ test' = test /\ job' = job /\ job = Asks(topo, test)
  BY <1>1, LineRead
<1>3. InGroups(P, W, aff_cpus) /\ cpu_set = Left(P, C, aff_cpus)
  BY <1>1 DEF NodesSeen, Sound, Unseen
<1>4. Siblings(topo, First(set), "node") = HomeOf(P, set)
  <2>1. P = topo.numa_nodes
    BY <1>1 DEF PlacesOf, BySocket
  <2> QED  BY <1>2, <2>1, GroupIs DEF HomeOf
<1>5. FitsNuma(set) <=> set \in W /\ set \subseteq HomeOf(P, set)
  <2>1. W = {a \in SUBSET C : Cardinality(a) = Asks(topo, test).num_cpus_per_task}
    BY <1>1 DEF WidthOf, BySocket, ByTask
  <2> HIDE DEF W, P
  <2> QED  BY <1>2, <1>4, <2>1 DEF FitsNuma
<1> HIDE DEF P, C, W, M
<1>6. CASE FitsNuma(set) /\ cpu_set' = cpu_set \ Siblings(topo, First(set), "node") /\ pc' = pc
  <2>1. set \in W /\ set \subseteq HomeOf(P, set)
    BY <1>5, <1>6
  <2>2. InGroups(P, W, M)
    BY ONLY <1>2, <1>3, <2>1, InGroupsNext DEF M
  <2>3. Left(P, C, M) = Left(P, C, aff_cpus) \ HomeOf(P, set)
    <3>1. Consumes(P, C, aff_cpus, set)
      BY ONLY <1>2, LeftNext
    <3> QED  BY <3>1 DEF Consumes, M
  <2>4. cpu_set' = Left(P, C, M)
    BY <1>3, <1>4, <1>6, <2>3
  <2>5. Sound' /\ cpu_set' = Unseen'
    BY <1>2, <2>2, <2>4 DEF Sound, Unseen, P, C, W
  <2> QED  BY <1>1, <1>6, <2>5 DEF Going, NodesSeen
<1>7. CASE ~FitsNuma(set) /\ Reject
  <2>1. ~(set \in W /\ set \subseteq HomeOf(P, set))
    BY <1>5, <1>7
  <2> DEFINE n == LinesOf(topo, test)
  <2> HIDE DEF n
  <2>2. ~Fit(P, W, n, M)
    BY ONLY <1>2, <2>1, Misfit DEF M
  <2>3. ~Fit(PlacesOf(topo', test'), WidthOf(topo', test'), LinesOf(topo', test'), aff_cpus')
    BY <1>2, <2>2 DEF P, W, n
  <2>4. job' = Asks(topo', test') /\ pc' = "done" /\ result' = "sanity_error"
    BY <1>2, <1>7 DEF Reject
  <2> QED  BY <2>3, <2>4, RefusedIs
<1> QED  BY <1>6, <1>7 DEF ConsumeNuma

\* The lines are placed if they are as many as the nodes, and none is left out.
LEMMA NodesDecided ==
  ASSUME AffinityType, job = Asks(topo, test), NodesSeen, test = "OneTaskPerNumaNode"
  PROVE  Placed <=> Len(aff_cpus) = Cardinality(topo.numa_nodes) /\ cpu_set = {}
<1> DEFINE P == PlacesOf(topo, test)
           C == Cpus(topo)
           W == WidthOf(topo, test)
<1>1. C \subseteq Nat /\ IsPartition(P, C) /\ IsFiniteSet(P) /\ aff_cpus \in Outputs(C)
  <2>1. TopologyOK(topo)
    BY TopologiesAssumption DEF AffinityType
  <2> QED  BY <2>1, CpusFinite, PlacesDivide DEF AffinityType
<1>2. InGroups(P, W, aff_cpus) /\ cpu_set = C \ UNION Homes(P, aff_cpus)
  BY DEF NodesSeen, Sound, Unseen, Left
<1>3. P = topo.numa_nodes
  BY DEF PlacesOf, BySocket
<1> HIDE DEF P, C, W
<1>4. (C \ UNION Homes(P, aff_cpus)) = {} <=> Homes(P, aff_cpus) = P
  BY ONLY <1>1, <1>2, NothingLeft
<1>5. Full(P, W, 1, aff_cpus) <=> Len(aff_cpus) = Cardinality(P) /\ Homes(P, aff_cpus) = P
  BY ONLY <1>1, <1>2, FullWhenCounted
<1>6. LinesOf(topo, test) = 1 /\ OrderOK
  BY AnyOrder DEF LinesOf, BySocket, ByTask
<1>7. Placed <=> Full(P, W, 1, aff_cpus)
  BY <1>6, JudgedIs DEF Judged, P, W
<1> QED  BY <1>2, <1>3, <1>4, <1>5, <1>7

-----------------------------------------------------------------------------
(* One task per socket: its threads are counted when the output has ended.  *)

\* The same for a line of a BySocket test.
LEMMA ConsumeSocketStep ==
  ASSUME AffinityType, AffinityType', ThreadsSeen, NEW set \in Reports, ConsumeSocketThread(set)
  PROVE  Going(ThreadsSeen') \/ Refused
<1> DEFINE P == PlacesOf(topo, test)
           C == Cpus(topo)
           W == WidthOf(topo, test)
           M == Append(aff_cpus, set)
<1>1. test \in BySocket /\ Read(set) /\ pc = "consume"
  BY DEF ConsumeSocketThread, Read
<1>2. /\ TopologyOK(topo) /\ C \subseteq Nat /\ IsPartition(P, C)
      /\ aff_cpus \in Outputs(C) /\ set \in SUBSET C /\ set # {} /\ First(set) \in C
      /\ aff_cpus' = M /\ M \in Outputs(C)
      /\ topo' = topo /\ test' = test /\ job' = job /\ job = Asks(topo, test)
  BY <1>1, LineRead
<1>3. InGroups(P, W, aff_cpus) /\ cpu_set = C
  BY <1>1 DEF ThreadsSeen, Sound
<1>4. Siblings(topo, First(set), "socket") = HomeOf(P, set)
  <2>1. P = SocketSet(topo)
    BY <1>1 DEF PlacesOf, BySocket
  <2> QED  BY <1>2, <2>1, GroupIs DEF HomeOf
<1>5. FitsSocket(set) <=> set \in W /\ set \subseteq HomeOf(P, set)
  <2>1. W = {a \in SUBSET C : Cardinality(a) = Asks(topo, test).num_omp_threads}
    BY <1>1 DEF WidthOf, BySocket, ByTask
  <2> HIDE DEF W, P
  <2> QED  BY <1>2, <1>4, <2>1 DEF FitsSocket
<1> HIDE DEF P, C, W, M
<1>6. CASE FitsSocket(set) /\ UNCHANGED <<pc, cpu_set>>
  <2>1. set \in W /\ set \subseteq HomeOf(P, set)
    BY <1>5, <1>6
  <2>2. InGroups(P, W, M)
    BY ONLY <1>2, <1>3, <2>1, InGroupsNext DEF M
  <2>3. Sound' /\ cpu_set' = Cpus(topo')
    BY <1>2, <1>3, <1>6, <2>2 DEF Sound, P, C, W
  <2> QED  BY <1>1, <1>6, <2>3 DEF Going, ThreadsSeen
<1>7. CASE ~FitsSocket(set) /\ Reject
  <2>1. ~(set \in W /\ set \subseteq HomeOf(P, set))
    BY <1>5, <1>7
  <2> DEFINE n == LinesOf(topo, test)
  <2> HIDE DEF n
  <2>2. ~Fit(P, W, n, M)
    BY ONLY <1>2, <2>1, Misfit DEF M
  <2>3. ~Fit(PlacesOf(topo', test'), WidthOf(topo', test'), LinesOf(topo', test'), aff_cpus')
    BY <1>2, <2>2 DEF P, W, n
  <2>4. job' = Asks(topo', test') /\ pc' = "done" /\ result' = "sanity_error"
    BY <1>2, <1>7 DEF Reject
  <2> QED  BY <2>3, <2>4, RefusedIs
<1> QED  BY <1>6, <1>7 DEF ConsumeSocketThread

\* get_socket_id finds the one socket of a CPU.
LEMMA SocketIdIs ==
  ASSUME NEW t, TopologyOK(t), NEW cpu \in Cpus(t)
  PROVE  /\ SocketId(t, cpu) \in DOMAIN t.sockets /\ cpu \in t.sockets[SocketId(t, cpu)]
         /\ \A i \in DOMAIN t.sockets : cpu \in t.sockets[i] => i = SocketId(t, cpu)
<1>1. IsPartition(SocketSet(t), Cpus(t))
  BY DEF TopologyOK
<1>2. \A i, j \in DOMAIN t.sockets : i # j => t.sockets[i] # t.sockets[j]
  BY DEF TopologyOK
<1>3. PICK i \in DOMAIN t.sockets : cpu \in t.sockets[i]
  BY <1>1 DEF IsPartition, SocketSet
<1>4. \A j \in DOMAIN t.sockets : cpu \in t.sockets[j] => j = i
  <2> SUFFICES ASSUME NEW j \in DOMAIN t.sockets, cpu \in t.sockets[j]  PROVE j = i
    OBVIOUS
  <2>1. t.sockets[i] \in SocketSet(t) /\ t.sockets[j] \in SocketSet(t)
    BY <1>3 DEF SocketSet
  <2>2. t.sockets[i] = t.sockets[j]
    BY <1>1, <1>3, <2>1 DEF IsPartition
  <2> QED  BY <1>2, <1>3, <2>2
<1>5. SocketId(t, cpu) \in DOMAIN t.sockets /\ cpu \in t.sockets[SocketId(t, cpu)]
  BY <1>3 DEF SocketId
<1> QED  BY <1>4, <1>5

\* The sockets with as many threads as were asked for are all exactly if the output
\* is the placement.
LEMMA SocketsDecided ==
  ASSUME AffinityType, ThreadsSeen, EndSocketThreads
  PROVE  cpu_set' = {} <=> Placed
<1> DEFINE P == PlacesOf(topo, test)
           C == Cpus(topo)
           W == WidthOf(topo, test)
           n == LinesOf(topo, test)
           L == aff_cpus
           S == {p \in P : Cardinality(Hosts(L, p)) = n}
<1>1. test \in BySocket /\ pc = "consume" /\ job = Asks(topo, test) /\ TopologyOK(topo)
  BY TopologiesAssumption DEF EndSocketThreads, AffinityType
<1>2. C \subseteq Nat /\ IsPartition(P, C) /\ L \in Outputs(C)
  BY <1>1, CpusFinite, PlacesDivide DEF AffinityType
<1>3. InGroups(P, W, L) /\ cpu_set = C
  BY <1>1 DEF ThreadsSeen, Sound
<1>4. P = SocketSet(topo) /\ n = job.num_omp_threads
  BY <1>1 DEF PlacesOf, LinesOf, BySocket
<1>5. ASSUME NEW i \in DOMAIN topo.sockets
      PROVE  ThreadsInSocket(i) = Cardinality(Hosts(L, topo.sockets[i])) /\ topo.sockets[i] \in P
  <2>1. topo.sockets[i] \in P
    BY <1>4 DEF SocketSet
  <2> HIDE DEF P, W
  <2>2. ASSUME NEW k \in DOMAIN L
        PROVE  SocketId(topo, First(L[k])) = i <=> L[k] \subseteq topo.sockets[i]
    <3>1. L[k] \in SUBSET C /\ L[k] # {} /\ First(L[k]) \in L[k] /\ First(L[k]) \in C
      <4>1. L[k] \in SUBSET C /\ L[k] # {}
        BY <1>2, <2>2 DEF Outputs
      <4>2. L[k] \subseteq Nat
        BY <1>2, <4>1
      <4> QED  BY <4>1, <4>2, FirstIn
    <3>2. /\ HomeOf(P, L[k]) \in P /\ First(L[k]) \in HomeOf(P, L[k]) /\ L[k] \subseteq HomeOf(P, L[k])
          /\ \A p \in P : First(L[k]) \in p => p = HomeOf(P, L[k])
      BY <1>2, <1>3, <2>2, <3>1, HomeIs DEF HomeOf, InGroups
    <3>3. SocketId(topo, First(L[k])) = i <=> First(L[k]) \in topo.sockets[i]
      BY <1>1, <3>1, SocketIdIs
    <3>4. First(L[k]) \in topo.sockets[i] <=> topo.sockets[i] = HomeOf(P, L[k])
      BY <2>1, <3>2
    <3> QED  BY <3>1, <3>2, <3>3, <3>4
  <2>3. {k \in DOMAIN L : SocketId(topo, First(L[k])) = i} = Hosts(L, topo.sockets[i])
    BY <2>2 DEF Hosts
  <2> QED  BY <2>1, <2>3 DEF ThreadsInSocket
<1>6. {topo.sockets[i] : i \in {j \in DOMAIN topo.sockets : ThreadsInSocket(j) = job.num_omp_threads}} = S
  <2>1. \A p \in P : \E i \in DOMAIN topo.sockets : p = topo.sockets[i]
    BY <1>4 DEF SocketSet
  <2> HIDE DEF P
  <2> QED  BY <1>4, <1>5, <2>1
<1>7. cpu_set' = C \ UNION S
  <2> HIDE DEF S
  <2> QED  BY <1>3, <1>6 DEF EndSocketThreads
<1>8. (C \ UNION S) = {} <=> S = P
  <2>1. ASSUME (C \ UNION S) = {}, NEW p \in P  PROVE p \in S
    <3> HIDE DEF P, L, n
    <3>1. PICK c : c \in p /\ c \in C
      <4>1. p # {} /\ p \subseteq C
        BY <1>2 DEF IsPartition
      <4> QED  BY <4>1
    <3>2. PICK h \in S : c \in h
      BY <2>1, <3>1
    <3>3. h = p
      BY <1>2, <3>1, <3>2 DEF IsPartition
    <3> QED  BY <3>2, <3>3
  <2>2. S = P => (C \ UNION S) = {}
    BY <1>2 DEF IsPartition
  <2> HIDE DEF P, n, L
  <2>3. S \subseteq P
    OBVIOUS
  <2> QED  BY <2>1, <2>2, <2>3
<1> HIDE DEF P, C, W, L
<1>9. Full(P, W, n, L) <=> S = P
  <2> HIDE DEF n
  <2>1. Fit(P, W, n, L) <=> \A p \in P : Cardinality(Hosts(L, p)) <= n
    BY ONLY <1>2, <1>3, InGroupsFit
  <2>2. \A p \in P : Cardinality(Hosts(L, p)) \in Nat
    BY <1>2, HostsCount
  <2>3. Full(P, W, n, L) <=> \A p \in P : Cardinality(Hosts(L, p)) = n
    BY <2>1, <2>2 DEF Full
  <2> QED  BY <2>3
<1>10. Placed <=> Full(P, W, n, L)
  <2>1. OrderOK
    BY <1>1, AnyOrder DEF BySocket, ByTask
  <2> QED  BY <1>1, <2>1, JudgedIs DEF Judged, P, W, L
<1> HIDE DEF S, n
<1> QED  BY <1>7, <1>8, <1>9, <1>10

-----------------------------------------------------------------------------
(* One task per core, on nodes whose cores and sockets are all of one size. *)

\* Every core has the CPUs the partition says, and no socket has more than
\* another: the loops divide the tasks evenly among the sockets.
Regular(t) ==
  /\ \A c \in t.cores : Cardinality(c) = t.num_cpus_per_core
  /\ \A s, u \in SocketSet(t) : Cardinality(s) = Cardinality(u)

CoresPerSocket(t) == NumCores(t) \div NumSockets(t)

\* The CPUs of the cores whose task is in slot i, where g is the slot of each.
Seats(P, L, g, i) == UNION {HomeOf(P, L[k]) : k \in {k \in DOMAIN L : g[k] = i}}

\* No two tasks of a slot have one core.
ApartIn(P, L, g) ==
  \A j, k \in DOMAIN L : g[j] = g[k] /\ HomeOf(P, L[j]) = HomeOf(P, L[k]) => j = k

InTurn(t) == [k \in Nat |-> ((k - 1) % NumSockets(t)) + 1]
InBlocks(t) == [k \in Nat |-> ((k - 1) \div CoresPerSocket(t)) + 1]

\* The sockets sk as the tasks of the lines L have filled them.
FilledIn(t, W, L, sk, g) ==
  /\ InGroups(t.cores, W, L)
  /\ ApartIn(t.cores, L, g)
  /\ sk = [i \in DOMAIN t.sockets |-> Seats(t.cores, L, g, i)]

Filled(g) == FilledIn(topo, WidthOf(topo, test), aff_cpus, sockets, g)

\* The sockets before the one that is being filled are whole sockets, and their
\* CPUs are consumed.
BlocksSeen ==
  test = "ConsecutiveSocketFilling" =>
    /\ Len(aff_cpus) < NumCores(topo)
    /\ Filled(InBlocks(topo))
    /\ Cardinality(sockets[FillingSocket]) =
         topo.num_cpus_per_core * (Len(aff_cpus) % CoresPerSocket(topo))
    /\ \A i \in 1 .. FillingSocket - 1 : sockets[i] \in SocketSet(topo)
    /\ cpu_set = Cpus(topo) \ UNION {sockets[i] : i \in 1 .. FillingSocket - 1}

\* The sockets are filled evenly, each with cores of its own.
TurnsSeen ==
  test = "AlternateSocketFilling" =>
    /\ Len(aff_cpus) < NumCores(topo)
    /\ Filled(InTurn(topo))
    /\ OrderOK
    /\ cpu_set = Cpus(topo)
    /\ \A i \in DOMAIN topo.sockets :
         Cardinality(sockets[i]) = topo.num_cpus_per_core *
           ((Len(aff_cpus) \div NumSockets(topo))
              + (IF i <= Len(aff_cpus) % NumSockets(topo) THEN 1 ELSE 0))

Uniform == test \in ByTask => Regular(topo)

\* What the loops have seen to, and what is decided at the end of the output.
AffinityInv ==
  Uniform =>
    /\ pc = "setup" => sockets = [i \in DOMAIN topo.sockets |-> {}]
    /\ pc = "consume" => SetsSeen /\ NodesSeen /\ ThreadsSeen /\ BlocksSeen /\ TurnsSeen
    /\ pc = "sanity" => Decided
    /\ PassMeansPlaced /\ FailMeansMisplaced

\* A regular node, in numbers.
LEMMA RegularNode ==
  ASSUME NEW t, TopologyOK(t), Regular(t)
  PROVE  /\ NumSockets(t) \in Nat \ {0} /\ CoresPerSocket(t) \in Nat \ {0}
         /\ t.num_cpus_per_core \in Nat \ {0}
         /\ NumCores(t) = CoresPerSocket(t) * NumSockets(t)
         /\ DOMAIN t.sockets = 1 .. NumSockets(t)
         /\ IsFiniteSet(t.cores) /\ Cardinality(t.cores) = NumCores(t)
         /\ IsFiniteSet(SocketSet(t)) /\ Cardinality(SocketSet(t)) = NumSockets(t)
         /\ \A s \in SocketSet(t) :
              IsFiniteSet(s) /\ Cardinality(s) = t.num_cpus_per_core * CoresPerSocket(t)
<1> DEFINE k == t.num_cpus_per_core
           N == t.num_cpus
           S == NumSockets(t)
<1>1. k \in Nat \ {0} /\ N \in Nat \ {0} /\ Cardinality(Cpus(t)) = N
  BY CpusFinite DEF TopologyOK
<1>2. /\ IsPartition(t.cores, Cpus(t)) /\ IsPartition(SocketSet(t), Cpus(t))
      /\ \A c \in t.cores, s \in SocketSet(t) : c \subseteq s \/ c \cap s = {}
  BY DEF TopologyOK
<1>3. /\ IsFiniteSet(t.cores) /\ IsFiniteSet(SocketSet(t))
      /\ \A c \in t.cores : IsFiniteSet(c)
      /\ \A s \in SocketSet(t) : IsFiniteSet(s)
  BY <1>2, CpusFinite
<1>4. Cardinality(t.cores) \in Nat /\ N = k * Cardinality(t.cores)
  <2>1. OfSize(t.cores, k) /\ Disjoint(t.cores)
    BY <1>2, <1>3 DEF OfSize, Disjoint, IsPartition, Regular
  <2>2. Cardinality(UNION t.cores) = k * Cardinality(t.cores)
    BY ONLY <1>1, <1>3, <2>1, UnionCount
  <2> QED  BY <1>1, <1>2, <1>3, <2>2, FS_CardinalityType DEF IsPartition
<1>5. S \in Nat /\ DOMAIN t.sockets = 1 .. S /\ Cardinality(SocketSet(t)) = S
  <2>1. S \in Nat /\ DOMAIN t.sockets = 1 .. S
    BY DEF TopologyOK, NumSockets
  <2> DEFINE f == [i \in 1 .. S |-> t.sockets[i]]
  <2>2. f \in Bijection(1 .. S, SocketSet(t))
    <3>1. f \in [1 .. S -> SocketSet(t)]
      BY <2>1 DEF SocketSet
    <3>2. \A i, j \in 1 .. S : f[i] = f[j] => i = j
      BY <2>1 DEF TopologyOK
    <3>3. \A s \in SocketSet(t) : \E i \in 1 .. S : f[i] = s
      BY <2>1 DEF SocketSet
    <3> HIDE DEF f, S
    <3>4. f \in Injection(1 .. S, SocketSet(t))
      BY <3>1, <3>2 DEF Injection, IsInjective
    <3>5. f \in Surjection(1 .. S, SocketSet(t))
      BY <3>1, <3>3 DEF Surjection
    <3> QED  BY <3>4, <3>5 DEF Bijection
  <2>3. ExistsBijection(1 .. S, SocketSet(t))
    BY <2>2 DEF ExistsBijection
  <2> QED  BY <2>1, <2>3, FS_CountingElements
<1>6. ASSUME NEW s \in SocketSet(t)
      PROVE  \E q \in Nat : Cardinality(s) = k * q
  <2> DEFINE Q == {c \in t.cores : c \subseteq s}
  <2>1. (UNION Q) = s
    <3>1. ASSUME NEW x \in s  PROVE x \in UNION Q
      <4>1. PICK c \in t.cores : x \in c
        BY <1>2, <1>6 DEF IsPartition
      <4>2. c \subseteq s
        BY <1>2, <1>6, <3>1, <4>1
      <4> QED  BY <4>1, <4>2
    <3> QED  BY <3>1
  <2>2. IsFiniteSet(Q) /\ OfSize(Q, k) /\ Disjoint(Q)
    <3>1. Q \in SUBSET t.cores
      OBVIOUS
    <3>2. IsFiniteSet(Q)
      BY <1>3, <3>1, FS_Subset
    <3> QED  BY <1>2, <1>3, <3>2 DEF OfSize, Disjoint, IsPartition, Regular
  <2> HIDE DEF Q, k
  <2>3. Cardinality(UNION Q) = k * Cardinality(Q) /\ Cardinality(Q) \in Nat
    <3>1. Cardinality(UNION Q) = k * Cardinality(Q)
      BY ONLY <1>1, <2>2, UnionCount
    <3> QED  BY <2>2, <3>1, FS_CardinalityType
  <2> QED  BY <2>1, <2>3
<1>7. PICK s \in SocketSet(t) : TRUE
  <2>1. 0 \in Cpus(t)
    BY <1>1 DEF Cpus
  <2> QED  BY <1>2, <2>1 DEF IsPartition
<1>8. PICK q \in Nat : Cardinality(s) = k * q
  BY <1>6
<1>9. \A u \in SocketSet(t) : IsFiniteSet(u) /\ Cardinality(u) = k * q
  BY <1>3, <1>7, <1>8 DEF Regular
<1>10. N = (k * q) * S
  <2>1. OfSize(SocketSet(t), k * q) /\ Disjoint(SocketSet(t))
    BY <1>2, <1>9 DEF OfSize, Disjoint, IsPartition
  <2> DEFINE m == k * q
  <2>2. m \in Nat
    BY <1>1, <1>8
  <2> HIDE DEF m
  <2>3. OfSize(SocketSet(t), m)
    BY <2>1 DEF m
  <2>4. Cardinality(UNION SocketSet(t)) = m * Cardinality(SocketSet(t))
    BY ONLY <1>3, <2>1, <2>2, <2>3, UnionCount
  <2> QED  BY <1>1, <1>2, <1>5, <2>4 DEF IsPartition, m
<1> DEFINE T == Cardinality(t.cores)
<1> HIDE DEF k, N, S, T
<1>11. T = q * S /\ T \in Nat \ {0} /\ S # 0 /\ q # 0
  <2>1. k * T = k * (q * S) /\ T \in Nat
    BY <1>1, <1>4, <1>5, <1>8, <1>10 DEF T
  <2> DEFINE v == q * S
  <2>2. v \in Nat
    BY <1>5, <1>8
  <2> HIDE DEF v
  <2>3. T = v
    BY <1>1, <2>1, <2>2 DEF v
  <2>4. T # 0
    BY <1>1, <1>4, <2>1 DEF T
  <2> QED  BY <2>1, <2>3, <2>4, <1>5, <1>8 DEF v
<1>12. NumCores(t) = T
  <2>1. N = k * T + 0 /\ 0 \in 0 .. k - 1
    BY <1>1, <1>4, <1>11 DEF T
  <2>2. N \div k = T
    BY ONLY <1>1, <1>11, <2>1, DivModUnique
  <2> QED  BY <2>2 DEF NumCores, N, k
<1>13. CoresPerSocket(t) = q
  <2>1. T = S * q + 0 /\ 0 \in 0 .. S - 1 /\ S \in Nat \ {0}
    BY <1>5, <1>8, <1>11
  <2>2. T \div S = q
    BY ONLY <1>8, <1>11, <2>1, DivModUnique
  <2> QED  BY <1>12, <2>2 DEF CoresPerSocket, S
<1>14. NumSockets(t) \in Nat \ {0} /\ CoresPerSocket(t) \in Nat \ {0}
  BY <1>5, <1>8, <1>11, <1>13 DEF S
<1>15. NumCores(t) = CoresPerSocket(t) * NumSockets(t) /\ Cardinality(t.cores) = NumCores(t)
  BY <1>11, <1>12, <1>13 DEF S, T
<1> QED  BY <1>1, <1>3, <1>5, <1>9, <1>13, <1>14, <1>15 DEF k, S


-----------------------------------------------------------------------------
(* The task of a line joins the tasks of its slot.                           *)

SeatsGrow(P, L, g, a, i) ==
  Seats(P, Append(L, a), g, i) =
    Seats(P, L, g, i) \cup (IF i = g[Len(L) + 1] THEN HomeOf(P, a) ELSE {})

\* A line adds its core to the seats of its socket, and to no other.
LEMMA SeatsNext ==
  ASSUME NEW P, NEW C, NEW L \in Outputs(C), NEW a \in SUBSET C, a # {}, NEW g, NEW i
  PROVE  SeatsGrow(P, L, g, a, i)
<1> DEFINE M == Append(L, a)
           n == Len(L)
<1>1. /\ DOMAIN L = 1 .. n /\ n \in Nat /\ DOMAIN M = 1 .. (n + 1)
      /\ \A k \in 1 .. n : M[k] = L[k]
      /\ M[n + 1] = a
  BY OutputNext
<1> HIDE DEF M, n
<1>2. DOMAIN M = DOMAIN L \cup {n + 1} /\ n + 1 \notin DOMAIN L
  BY <1>1
<1>3. Seats(P, M, g, i) = Seats(P, L, g, i) \cup (IF i = g[n + 1] THEN HomeOf(P, a) ELSE {})
  <2>1. CASE i = g[n + 1]
    <3>1. {k \in DOMAIN M : g[k] = i} = {k \in DOMAIN L : g[k] = i} \cup {n + 1}
      BY <1>2, <2>1
    <3>2. {HomeOf(P, M[k]) : k \in {k \in DOMAIN M : g[k] = i}}
            = {HomeOf(P, L[k]) : k \in {k \in DOMAIN L : g[k] = i}} \cup {HomeOf(P, a)}
      BY <1>1, <3>1
    <3> QED  BY <2>1, <3>2 DEF Seats
  <2>2. CASE i # g[n + 1]
    <3>1. {k \in DOMAIN M : g[k] = i} = {k \in DOMAIN L : g[k] = i}
      BY <1>2, <2>2
    <3>2. {HomeOf(P, M[k]) : k \in {k \in DOMAIN M : g[k] = i}}
            = {HomeOf(P, L[k]) : k \in {k \in DOMAIN L : g[k] = i}}
      BY <1>1, <3>1
    <3> QED  BY <2>2, <3>2 DEF Seats
  <2> QED  BY <2>1, <2>2
<1> QED  BY <1>3 DEF SeatsGrow, M, n

\* A task on CPUs that no task of the slot has is on a core of its own.
LEMMA SeatFree ==
  ASSUME NEW P, NEW C, C \subseteq Nat, IsPartition(P, C), NEW W,
         NEW L \in Outputs(C), InGroups(P, W, L), NEW g, NEW i,
         NEW a \in SUBSET C, a # {}, a \subseteq HomeOf(P, a), a \cap Seats(P, L, g, i) = {}
  PROVE  /\ \A k \in DOMAIN L : g[k] = i => HomeOf(P, L[k]) # HomeOf(P, a)
         /\ HomeOf(P, a) \cap Seats(P, L, g, i) = {}
         /\ Seats(P, L, g, i) \subseteq C
<1>1. \A k \in DOMAIN L : HomeOf(P, L[k]) \in P
  BY InGroupsHosts
<1>2. HomeOf(P, a) \in P
  BY HomeOfLine
<1>3. ASSUME NEW k \in DOMAIN L, g[k] = i  PROVE HomeOf(P, L[k]) # HomeOf(P, a)
  <2>1. HomeOf(P, L[k]) \subseteq Seats(P, L, g, i)
    BY <1>3 DEF Seats
  <2> QED  BY <2>1
<1>4. ASSUME NEW k \in DOMAIN L, g[k] = i  PROVE HomeOf(P, L[k]) \cap HomeOf(P, a) = {}
  BY <1>1, <1>2, <1>3, <1>4 DEF IsPartition
<1>5. HomeOf(P, a) \cap Seats(P, L, g, i) = {}
  BY <1>4 DEF Seats
<1>6. Seats(P, L, g, i) \subseteq C
  BY <1>1 DEF Seats, IsPartition
<1> QED  BY <1>3, <1>5, <1>6

\* Lines of one socket are on different cores, if each new one finds its core free.
LEMMA ApartInNext ==
  ASSUME NEW P, NEW C, C \subseteq Nat, IsPartition(P, C), NEW W,
         NEW L \in Outputs(C), InGroups(P, W, L), NEW g, ApartIn(P, L, g),
         NEW a \in SUBSET C, a # {}, a \subseteq HomeOf(P, a),
         a \cap Seats(P, L, g, g[Len(L) + 1]) = {}
  PROVE  ApartIn(P, Append(L, a), g)
<1> DEFINE M == Append(L, a)
           n == Len(L)
           i == g[n + 1]
<1>1. /\ DOMAIN L = 1 .. n /\ n \in Nat /\ DOMAIN M = 1 .. (n + 1)
      /\ \A k \in 1 .. n : M[k] = L[k]
      /\ M[n + 1] = a
  BY OutputNext
<1> HIDE DEF M, i
<1>2. \A k \in DOMAIN L : g[k] = i => HomeOf(P, L[k]) # HomeOf(P, a)
  <2>1. a \cap Seats(P, L, g, i) = {}
    BY DEF i
  <2> QED  BY <2>1, SeatFree
<1>3. ASSUME NEW j \in DOMAIN M, NEW k \in DOMAIN M, g[j] = g[k], HomeOf(P, M[j]) = HomeOf(P, M[k])
      PROVE  j = k
  <2>1. (j \in 1 .. n \/ j = n + 1) /\ (k \in 1 .. n \/ k = n + 1)
    BY <1>1
  <2>2. CASE j \in 1 .. n /\ k \in 1 .. n
    BY <1>1, <1>3, <2>2 DEF ApartIn
  <2>3. CASE j \in 1 .. n /\ k = n + 1
    BY <1>1, <1>2, <1>3, <2>3 DEF i
  <2>4. CASE j = n + 1 /\ k \in 1 .. n
    BY <1>1, <1>2, <1>3, <2>4 DEF i
  <2>5. CASE j = n + 1 /\ k = n + 1
    BY <2>5
  <2> QED  BY <2>1, <2>2, <2>3, <2>4, <2>5
<1> QED  BY <1>3 DEF ApartIn, M

\* A task on a CPU that a task of the slot has is on that task's core.
LEMMA SeatTaken ==
  ASSUME NEW P, NEW C, C \subseteq Nat, IsPartition(P, C), NEW W,
         NEW L \in Outputs(C), InGroups(P, W, L), NEW g, NEW i,
         NEW a \in SUBSET C, a # {}, a \in W, a \subseteq HomeOf(P, a),
         a \cap Seats(P, L, g, i) # {}
  PROVE  ~Fit(P, W, 1, Append(L, a))
<1>1. PICK c : c \in a /\ c \in Seats(P, L, g, i)
  OBVIOUS
<1>2. PICK k \in DOMAIN L : c \in HomeOf(P, L[k])
  BY <1>1 DEF Seats
<1>3. ~(a \subseteq Left(P, C, L))
  BY <1>1, <1>2 DEF Left, Homes
<1> QED  BY ONLY <1>3, C \subseteq Nat, IsPartition(P, C), L \in Outputs(C), InGroups(P, W, L),
                 a \in SUBSET C, a # {}, SetRefuses

\* One more task in the sockets.
LEMMA FilledNext ==
  ASSUME NEW t, TopologyOK(t), NEW W, NEW L \in Outputs(Cpus(t)), NEW sk, NEW g, FilledIn(t, W, L, sk, g),
         NEW a \in SUBSET Cpus(t), a # {}, a \in W, a \subseteq HomeOf(t.cores, a),
         g[Len(L) + 1] \in DOMAIN t.sockets, a \cap sk[g[Len(L) + 1]] = {}
  PROVE  FilledIn(t, W, Append(L, a),
                  [sk EXCEPT ![g[Len(L) + 1]] = sk[g[Len(L) + 1]] \cup HomeOf(t.cores, a)], g)
<1> DEFINE P == t.cores
           C == Cpus(t)
           M == Append(L, a)
           s == g[Len(L) + 1]
           new == [sk EXCEPT ![s] = sk[s] \cup HomeOf(P, a)]
<1>1. C \subseteq Nat /\ IsPartition(P, C)
  BY CpusFinite DEF TopologyOK
<1>2. InGroups(P, W, L) /\ ApartIn(P, L, g) /\ sk = [i \in DOMAIN t.sockets |-> Seats(P, L, g, i)]
  BY DEF FilledIn
<1>3. a \cap Seats(P, L, g, s) = {}
  BY <1>2
<1>4. InGroups(P, W, M)
  BY <1>2, InGroupsNext
<1>5. ApartIn(P, M, g)
  BY <1>1, <1>2, <1>3, ApartInNext
<1>6. \A i \in DOMAIN t.sockets : SeatsGrow(P, L, g, a, i)
  BY SeatsNext
<1>7. \A i \in DOMAIN t.sockets :
        Seats(P, M, g, i) = Seats(P, L, g, i) \cup (IF i = s THEN HomeOf(P, a) ELSE {})
  BY <1>6 DEF SeatsGrow
<1>8. ASSUME NEW i \in DOMAIN t.sockets  PROVE new[i] = Seats(P, M, g, i)
  <2>1. CASE i = s
    BY <1>2, <1>7, <2>1
  <2>2. CASE i # s
    BY <1>2, <1>7, <2>2
  <2> QED  BY <2>1, <2>2
<1>9. new = [i \in DOMAIN t.sockets |-> Seats(P, M, g, i)]
  <2>1. new = [i \in DOMAIN t.sockets |-> new[i]]
    BY <1>2
  <2> HIDE DEF new, M
  <2> QED  BY <1>8, <2>1
<1> QED  BY <1>4, <1>5, <1>9 DEF FilledIn

\* Its core is new to the socket.
LEMMA FilledCount ==
  ASSUME NEW t, TopologyOK(t), Regular(t), NEW W, NEW L \in Outputs(Cpus(t)), NEW sk, NEW g,
         FilledIn(t, W, L, sk, g),
         NEW a \in SUBSET Cpus(t), a # {}, a \subseteq HomeOf(t.cores, a),
         NEW s \in DOMAIN t.sockets, a \cap sk[s] = {}
  PROVE  Cardinality(sk[s] \cup HomeOf(t.cores, a)) = Cardinality(sk[s]) + t.num_cpus_per_core
<1> DEFINE P == t.cores
           C == Cpus(t)
           h == HomeOf(P, a)
<1>1. C \subseteq Nat /\ IsPartition(P, C) /\ IsFiniteSet(C)
  BY CpusFinite DEF TopologyOK
<1>2. InGroups(P, W, L) /\ sk[s] = Seats(P, L, g, s)
  BY DEF FilledIn
<1>3. h \cap sk[s] = {} /\ sk[s] \subseteq C
  BY <1>1, <1>2, SeatFree
<1>4. h \in P /\ h \subseteq C
  BY <1>1, HomeOfLine
<1>5. IsFiniteSet(h) /\ IsFiniteSet(sk[s])
  BY <1>1, <1>3, <1>4, FS_Subset
<1>6. Cardinality(h) = t.num_cpus_per_core
  BY <1>4 DEF Regular
<1> HIDE DEF h
<1>7. Cardinality(sk[s] \cup h) = Cardinality(sk[s]) + Cardinality(h) - Cardinality(sk[s] \cap h)
  BY <1>5, FS_Union
<1>8. Cardinality(sk[s] \cap h) = 0
  BY <1>3, FS_EmptySet
<1>9. Cardinality(sk[s]) \in Nat /\ Cardinality(h) \in Nat
  BY <1>5, FS_CardinalityType
<1> QED  BY <1>6, <1>7, <1>8, <1>9 DEF h

-----------------------------------------------------------------------------
(* What the tests with a task per core see of a line. *)

\* The terms of the ByTask tests: places are cores, a line is one CPU.
LEMMA TaskLine ==
  ASSUME AffinityType, pc = "consume", test \in ByTask, NEW set \in Reports, Read(set)
  PROVE  /\ PlacesOf(topo, test) = topo.cores /\ LinesOf(topo, test) = 1
         /\ PerSocket = CoresPerSocket(topo)
         /\ Siblings(topo, First(set), "core") = HomeOf(topo.cores, set)
         /\ Cardinality(set) <= 1 <=> set \in WidthOf(topo, test)
         /\ set \in WidthOf(topo, test) => set \subseteq HomeOf(topo.cores, set)
<1>1. /\ TopologyOK(topo) /\ set \in SUBSET Cpus(topo) /\ set # {} /\ First(set) \in Cpus(topo)
      /\ Cpus(topo) \subseteq Nat /\ job = Asks(topo, test)
  BY LineRead
<1>2. PlacesOf(topo, test) = topo.cores /\ LinesOf(topo, test) = 1
  BY DEF PlacesOf, LinesOf, ByTask, BySocket
<1>3. PerSocket = CoresPerSocket(topo)
  <2>1. Asks(topo, test).num_tasks = NumCores(topo)
    <3>1. Asks(topo, test) = AskCores(topo)
      BY DEF Asks, ByTask, BySocket, BySet
    <3> QED  BY <3>1 DEF AskCores, Ask
  <2> QED  BY <1>1, <2>1 DEF PerSocket, CoresPerSocket
<1>4. Siblings(topo, First(set), "core") = HomeOf(topo.cores, set)
  BY <1>1, GroupIs DEF HomeOf
<1>5. IsFiniteSet(set)
  <2>1. IsFiniteSet(Cpus(topo))
    BY <1>1, CpusFinite
  <2> QED  BY <1>1, <2>1, FS_Subset
<1>6. set \in WidthOf(topo, test) <=> Cardinality(set) = 1
  BY <1>1 DEF WidthOf, ByTask, BySocket
<1>7. Cardinality(set) <= 1 <=> Cardinality(set) = 1
  <2>1. Cardinality(set) \in Nat /\ Cardinality(set) # 0
    BY <1>1, <1>5, FS_EmptySet, FS_CardinalityType
  <2> QED  BY <2>1
<1>8. Cardinality(set) = 1 => set \subseteq HomeOf(topo.cores, set)
  <2> SUFFICES ASSUME Cardinality(set) = 1  PROVE set \subseteq HomeOf(topo.cores, set)
    OBVIOUS
  <2>1. \A c \in set : c = First(set)
    <3>1. set \subseteq Nat
      BY <1>1
    <3>2. First(set) \in set
      BY <1>1, <3>1, FirstIn
    <3>3. \A c, d \in set : c = d
      BY <1>5, AtMostOne
    <3> QED  BY <3>2, <3>3
  <2>2. First(set) \in HomeOf(topo.cores, set)
    <3>1. IsPartition(topo.cores, Cpus(topo))
      BY <1>1 DEF TopologyOK
    <3> QED  BY <1>1, <3>1, HomeIs DEF HomeOf
  <2> QED  BY <2>1, <2>2
<1> QED  BY <1>2, <1>3, <1>4, <1>6, <1>7, <1>8

\* A line that is refused for its width or its core.
LEMMA TaskRefused ==
  ASSUME AffinityType, AffinityType', pc = "consume", test \in ByTask, NEW set \in Reports, Read(set),
         NEW g, NEW s \in DOMAIN topo.sockets, Filled(g),
         ~(Cardinality(set) <= 1 /\ set \cap sockets[s] = {}), Reject
  PROVE  Refused
<1> DEFINE P == topo.cores
           C == Cpus(topo)
           W == WidthOf(topo, test)
           L == aff_cpus
           M == Append(L, set)
<1>1. /\ TopologyOK(topo) /\ C \subseteq Nat
      /\ L \in Outputs(C) /\ set \in SUBSET C /\ set # {}
      /\ aff_cpus' = M /\ topo' = topo /\ test' = test /\ job' = job /\ job = Asks(topo, test)
  BY LineRead
<1>2. /\ PlacesOf(topo, test) = P /\ LinesOf(topo, test) = 1
      /\ Cardinality(set) <= 1 <=> set \in W
      /\ set \in W => set \subseteq HomeOf(P, set)
  BY TaskLine
<1>3. InGroups(P, W, L) /\ sockets[s] = Seats(P, L, g, s)
  BY DEF Filled, FilledIn
<1>4. IsPartition(P, C)
  BY <1>1 DEF TopologyOK
<1> HIDE DEF P, C, W, L, M
<1>5. ~Fit(P, W, 1, M)
  <2>1. CASE set \notin W
    <3>1. ~(set \in W /\ set \subseteq HomeOf(P, set))
      BY <2>1
    <3> DEFINE n == 1
    <3> HIDE DEF n
    <3>2. ~Fit(P, W, n, M)
      BY ONLY <1>1, <1>4, <3>1, Misfit DEF M
    <3> QED  BY <3>2 DEF n
  <2>2. CASE set \in W
    <3>1. set \subseteq HomeOf(P, set) /\ set \cap Seats(P, L, g, s) # {}
      BY <1>2, <1>3, <2>2
    <3> QED  BY ONLY <1>1, <1>3, <1>4, <2>2, <3>1, SeatTaken DEF M
  <2> QED  BY <2>1, <2>2
<1>6. ~Fit(PlacesOf(topo', test'), WidthOf(topo', test'), LinesOf(topo', test'), aff_cpus')
  BY <1>1, <1>2, <1>5 DEF P, W
<1>7. job' = Asks(topo', test') /\ pc' = "done" /\ result' = "sanity_error"
  BY <1>1 DEF Reject
<1> QED  BY <1>6, <1>7, RefusedIs

\* All tasks seen, each in the slot of a socket: the CPUs outside the sockets
\* as they are filled tell whether each core has its task.
LEMMA TasksDecided ==
  ASSUME AffinityType, job = Asks(topo, test), test \in ByTask, Regular(topo), NEW g, Filled(g),
         Len(aff_cpus) = NumCores(topo), OrderOK,
         \A k \in DOMAIN aff_cpus : g[k] \in DOMAIN topo.sockets,
         cpu_set = Cpus(topo) \ UNION {sockets[i] : i \in DOMAIN topo.sockets}
  PROVE  Decided
<1> DEFINE P == topo.cores
           C == Cpus(topo)
           W == WidthOf(topo, test)
           L == aff_cpus
<1>1. TopologyOK(topo) /\ C \subseteq Nat /\ IsPartition(P, C) /\ L \in Outputs(C) /\ IsFiniteSet(P)
      /\ Len(L) = Cardinality(P)
  <2>1. TopologyOK(topo)
    BY TopologiesAssumption DEF AffinityType
  <2>2. IsPartition(P, C)
    BY <2>1 DEF TopologyOK
  <2> QED  BY <2>1, <2>2, CpusFinite, RegularNode DEF AffinityType
<1>2. InGroups(P, W, L) /\ \A i \in DOMAIN topo.sockets : sockets[i] = Seats(P, L, g, i)
  BY DEF Filled, FilledIn
<1>3. (UNION {sockets[i] : i \in DOMAIN topo.sockets}) = UNION Homes(P, L)
  <2>1. ASSUME NEW k \in DOMAIN L  PROVE HomeOf(P, L[k]) \subseteq sockets[g[k]]
    BY <1>2, <2>1 DEF Seats
  <2>2. ASSUME NEW i \in DOMAIN topo.sockets  PROVE sockets[i] \subseteq UNION Homes(P, L)
    BY <1>2, <2>2 DEF Seats, Homes
  <2>3. (UNION Homes(P, L)) \subseteq UNION {sockets[i] : i \in DOMAIN topo.sockets}
    BY <2>1 DEF Homes
  <2>4. (UNION {sockets[i] : i \in DOMAIN topo.sockets}) \subseteq UNION Homes(P, L)
    BY <2>2
  <2> QED  BY <2>3, <2>4
<1>4. PlacesOf(topo, test) = P /\ LinesOf(topo, test) = 1
  BY DEF PlacesOf, LinesOf, ByTask, BySocket
<1> HIDE DEF P, C, W, L
<1>5. (C \ UNION Homes(P, L)) = {} <=> Homes(P, L) = P
  BY ONLY <1>1, <1>2, NothingLeft
<1>6. Full(P, W, 1, L) <=> Len(L) = Cardinality(P) /\ Homes(P, L) = P
  BY ONLY <1>1, <1>2, FullWhenCounted
<1>7. Placed <=> Full(P, W, 1, L)
  BY <1>4, JudgedIs DEF Judged, P, W, L
<1>8. cpu_set = C \ UNION Homes(P, L)
  BY <1>3 DEF C
<1> QED  BY <1>1, <1>5, <1>6, <1>7, <1>8 DEF Decided

\* An output that is too short leaves a core out.
LEMMA TooShort ==
  ASSUME AffinityType, job = Asks(topo, test), test \in ByTask, Regular(topo), NEW g, Filled(g),
         Len(aff_cpus) < NumCores(topo)
  PROVE  ~Placed
<1> DEFINE P == topo.cores
           C == Cpus(topo)
           W == WidthOf(topo, test)
           L == aff_cpus
<1>1. TopologyOK(topo) /\ C \subseteq Nat /\ IsPartition(P, C) /\ L \in Outputs(C) /\ IsFiniteSet(P)
      /\ Len(L) < Cardinality(P) /\ Len(L) \in Nat /\ Cardinality(P) \in Nat
  <2>1. TopologyOK(topo)
    BY TopologiesAssumption DEF AffinityType
  <2>2. IsPartition(P, C)
    BY <2>1 DEF TopologyOK
  <2>3. L \in Outputs(C) /\ Len(L) \in Nat
    BY DEF AffinityType, Outputs
  <2> QED  BY <2>1, <2>2, <2>3, CpusFinite, RegularNode, FS_CardinalityType
<1>2. InGroups(P, W, L)
  BY DEF Filled, FilledIn
<1>3. PlacesOf(topo, test) = P /\ LinesOf(topo, test) = 1
  BY DEF PlacesOf, LinesOf, ByTask, BySocket
<1> HIDE DEF P, C, W, L
<1>4. Full(P, W, 1, L) <=> Len(L) = Cardinality(P) /\ Homes(P, L) = P
  BY ONLY <1>1, <1>2, FullWhenCounted
<1>5. Placed => Full(P, W, 1, L)
  BY <1>3, JudgedIs DEF Judged, P, W, L
<1> QED  BY <1>1, <1>4, <1>5

-----------------------------------------------------------------------------
(* Sockets filled one after the other. *)

\* Multiplication by a natural number keeps the order.
LEMMA TimesMono ==
  ASSUME NEW q \in Nat, NEW a \in Nat, NEW b \in Nat, a <= b
  PROVE  q * a <= q * b
<1>1. PICK e \in Nat : b = a + e
  <2>1. b - a \in Nat /\ b = a + (b - a)
    OBVIOUS
  <2> QED  BY <2>1
<1>2. q * b = q * a + q * e /\ q * e \in Nat /\ q * a \in Nat
  BY <1>1
<1> QED  BY <1>2

\* A number below q * S is in one of S blocks of length q.
LEMMA DivBound ==
  ASSUME NEW n \in Nat, NEW q \in Nat \ {0}, NEW S \in Nat, n < q * S
  PROVE  n \div q \in Nat /\ n \div q < S
<1>1. n \div q \in Nat /\ n % q \in 0 .. q - 1 /\ n = q * (n \div q) + (n % q)
  OBVIOUS
<1> DEFINE d == n \div q
           r == n % q
<1> HIDE DEF d, r
<1>2. d \in Nat /\ r \in 0 .. q - 1 /\ n = q * d + r
  BY <1>1 DEF d, r
<1>3. S <= d => q * S <= q * d
  BY <1>2, TimesMono
<1>4. d < S
  BY <1>2, <1>3
<1> QED  BY <1>2, <1>4 DEF d

\* Blocks follow one another.
LEMMA DivMono ==
  ASSUME NEW k \in Nat, NEW n \in Nat, NEW q \in Nat \ {0}, k <= n
  PROVE  k \div q \in Nat /\ k \div q <= n \div q
<1> DEFINE S == (n \div q) + 1
<1>1. S \in Nat /\ n < q * S
  OBVIOUS
<1>2. k < q * S /\ n \div q \in Nat
  BY <1>1
<1> HIDE DEF S
<1>3. k \div q \in Nat /\ k \div q < S
  BY <1>1, <1>2, DivBound
<1> QED  BY <1>2, <1>3 DEF S

\* The next of n tasks, q to a block and S blocks, where n is in block s.
Counts(n, q, S, s) ==
  /\ s \in 1 .. S /\ n % q \in Nat
  /\ n + 1 = s * q <=> n % q = q - 1
  /\ n % q # q - 1 =>
       ((n + 1) \div q) + 1 = s /\ (n + 1) % q = (n % q) + 1 /\ n + 1 < q * S
  /\ n % q = q - 1 =>
       ((n + 1) \div q) + 1 = s + 1 /\ (n + 1) % q = 0
  /\ n % q = q - 1 /\ s = S => n + 1 = q * S
  /\ n % q = q - 1 /\ s # S => n + 1 < q * S

\* Line n + 1 is in block n div q + 1, and ends it exactly if n + 1 is a multiple.
LEMMA BlockNext ==
  ASSUME NEW n \in Nat, NEW q \in Nat \ {0}, NEW S \in Nat \ {0}, n < q * S,
         NEW s, s = (n \div q) + 1
  PROVE  Counts(n, q, S, s)
<1> DEFINE d == n \div q
           r == n % q
<1>1. /\ d \in Nat /\ r \in 0 .. q - 1 /\ n = q * d + r
      /\ (n + 1) \div q = IF r = q - 1 THEN d + 1 ELSE d
      /\ (n + 1) % q = IF r = q - 1 THEN 0 ELSE r + 1
      /\ n + 1 = (d + 1) * q <=> r = q - 1
  <2>1. n = q * d + r
    OBVIOUS
  <2> QED  BY <2>1, DivNext
<1>2. d < S
  BY DivBound
<1> HIDE DEF d, r
<1>3. s \in 1 .. S /\ s = d + 1
  BY <1>1, <1>2 DEF d
<1>4. q * s <= q * S /\ q * s = q * d + q
  <2>1. q * s <= q * S
    BY <1>3, TimesMono
  <2>2. q * s = q * d + q
    BY <1>1, <1>3
  <2> QED  BY <2>1, <2>2
<1>5. r # q - 1 => n + 1 < q * S
  <2> DEFINE x == q * d
             y == q * s
             z == q * S
  <2>1. x \in Nat /\ y \in Nat /\ z \in Nat
    BY <1>1, <1>3
  <2> HIDE DEF x, y, z
  <2>2. n = x + r /\ y <= z /\ y = x + q
    BY <1>1, <1>4 DEF x, y, z
  <2>3. r # q - 1 => n + 1 < z
    BY <1>1, <2>1, <2>2
  <2> QED  BY <2>3 DEF z
<1>6. r = q - 1 => n + 1 = q * s
  BY <1>1, <1>3
<1>7. r = q - 1 /\ s # S => n + 1 < q * S
  <2>1. s # S => q * (s + 1) <= q * S
    <3>1. s # S => s + 1 <= S /\ s + 1 \in Nat
      BY <1>3
    <3> DEFINE u == s + 1
    <3> HIDE DEF u
    <3>2. u \in Nat /\ u <= S => q * u <= q * S
      BY TimesMono
    <3> QED  BY <3>1, <3>2 DEF u
  <2>2. q * (s + 1) = q * s + q
    BY <1>3
  <2> DEFINE y == q * s
             z == q * S
  <2>3. y \in Nat /\ z \in Nat
    BY <1>3
  <2> HIDE DEF y, z
  <2>4. (s # S => y + q <= z) /\ (r = q - 1 => n + 1 = y)
    BY <1>6, <2>1, <2>2 DEF y, z
  <2>5. r = q - 1 /\ s # S => n + 1 < z
    BY <2>3, <2>4
  <2> QED  BY <2>5 DEF z
<1>8. n + 1 = s * q <=> r = q - 1
  BY <1>1, <1>3
<1>9. r # q - 1 => ((n + 1) \div q) + 1 = s /\ (n + 1) % q = r + 1
  BY <1>1, <1>3
<1>10. r = q - 1 => ((n + 1) \div q) + 1 = s + 1 /\ (n + 1) % q = 0
  BY <1>1, <1>3
<1>11. r \in Nat
  BY <1>1
<1> USE DEF r
<1>12. r = q - 1 /\ s = S => n + 1 = q * S
  BY <1>6
<1> HIDE DEF r
<1> QED  BY <1>3, <1>5, <1>7, <1>8, <1>9, <1>10, <1>11, <1>12 DEF r, Counts

\* The blocks of the first n + 1 lines.
LEMMA BlockSlots ==
  ASSUME NEW t, CoresPerSocket(t) \in Nat \ {0}, NEW n \in Nat
  PROVE  /\ InBlocks(t)[n + 1] = (n \div CoresPerSocket(t)) + 1
         /\ \A k \in 1 .. (n + 1) : InBlocks(t)[k] \in 1 .. ((n \div CoresPerSocket(t)) + 1)
<1> DEFINE q == CoresPerSocket(t)
<1>1. \A k \in Nat : InBlocks(t)[k] = ((k - 1) \div q) + 1
  BY DEF InBlocks
<1>2. InBlocks(t)[n + 1] = (n \div q) + 1
  <2>1. n + 1 \in Nat /\ (n + 1) - 1 = n
    OBVIOUS
  <2> QED  BY <1>1, <2>1
<1> HIDE DEF q
<1>3. ASSUME NEW k \in 1 .. (n + 1)  PROVE InBlocks(t)[k] \in 1 .. ((n \div q) + 1)
  <2> DEFINE j == k - 1
  <2>1. j \in Nat /\ j <= n
    OBVIOUS
  <2>2. InBlocks(t)[k] = (j \div q) + 1
    BY <1>1
  <2> HIDE DEF j
  <2>3. j \div q \in Nat /\ j \div q <= n \div q
    BY <2>1, DivMono DEF q
  <2>4. n \div q \in Nat
    BY DEF q
  <2> QED  BY <2>2, <2>3, <2>4
<1> QED  BY <1>2, <1>3 DEF q

\* Consecutive tasks share a socket.
InSockets(t, L, q) ==
  \A j, k \in DOMAIN L : (j - 1) \div q = (k - 1) \div q =>
    \E s \in SocketSet(t) : L[j] \cup L[k] \subseteq s

\* The CPUs of a slot are then on one socket,
Together(t, sk) ==
  \A i \in DOMAIN t.sockets : \A x, y \in sk[i] : \A u \in SocketSet(t) : x \in u => y \in u

\* When each block of lines is in one socket, so are the CPUs seen of it.
LEMMA BlocksTogether ==
  ASSUME NEW t, TopologyOK(t), NEW W, NEW L \in Outputs(Cpus(t)), NEW sk,
         FilledIn(t, W, L, sk, InBlocks(t)), InSockets(t, L, CoresPerSocket(t)), CoresPerSocket(t) \in Nat \ {0}
  PROVE  Together(t, sk)
<1> DEFINE P == t.cores
           C == Cpus(t)
           q == CoresPerSocket(t)
           g == InBlocks(t)
<1>1. /\ C \subseteq Nat /\ IsPartition(P, C) /\ IsPartition(SocketSet(t), C)
      /\ \A c \in P, u \in SocketSet(t) : c \subseteq u \/ c \cap u = {}
  BY CpusFinite DEF TopologyOK
<1>2. InGroups(P, W, L) /\ \A i \in DOMAIN t.sockets : sk[i] = Seats(P, L, g, i)
  BY DEF FilledIn
<1> SUFFICES ASSUME NEW i \in DOMAIN t.sockets, NEW x \in sk[i], NEW y \in sk[i],
                    NEW u \in SocketSet(t), x \in u
             PROVE  y \in u
  BY DEF Together
<1>3. PICK j \in DOMAIN L : g[j] = i /\ x \in HomeOf(P, L[j])
  BY <1>2 DEF Seats
<1>4. PICK k \in DOMAIN L : g[k] = i /\ y \in HomeOf(P, L[k])
  BY <1>2 DEF Seats
<1>5. DOMAIN L = 1 .. Len(L) /\ Len(L) \in Nat
  BY DEF Outputs
<1>6. (j - 1) \div q = (k - 1) \div q
  <2>1. j \in Nat /\ k \in Nat /\ j - 1 \in Nat /\ k - 1 \in Nat
    BY <1>5
  <2>2. g[j] = ((j - 1) \div q) + 1 /\ g[k] = ((k - 1) \div q) + 1
    BY <2>1 DEF InBlocks
  <2>3. (j - 1) \div q \in Nat /\ (k - 1) \div q \in Nat
    BY <2>1
  <2> HIDE DEF q, g
  <2> QED  BY <1>3, <1>4, <2>2, <2>3
<1>7. PICK v \in SocketSet(t) : L[j] \cup L[k] \subseteq v
  BY <1>6 DEF InSockets
<1>8. ASSUME NEW m \in DOMAIN L, L[m] \subseteq v  PROVE HomeOf(P, L[m]) \subseteq v
  <2>1. HomeOf(P, L[m]) \in P
    BY <1>1, <1>2, InGroupsHosts
  <2>2. L[m] # {} /\ L[m] \subseteq HomeOf(P, L[m])
    BY <1>2 DEF InGroups, Outputs
  <2> HIDE DEF P
  <2> QED  BY <1>1, <1>8, <2>1, <2>2
<1>9. x \in v /\ y \in v
  BY <1>3, <1>4, <1>7, <1>8
<1>10. u = v
  BY <1>1, <1>9 DEF IsPartition
<1> QED  BY <1>9, <1>10

\* and a slot that is a whole socket keeps its tasks together.
LEMMA BlocksInSockets ==
  ASSUME NEW t, NEW W, NEW L \in Outputs(Cpus(t)), NEW sk, FilledIn(t, W, L, sk, InBlocks(t)),
         \A k \in DOMAIN L : InBlocks(t)[k] \in DOMAIN t.sockets,
         \A i \in DOMAIN t.sockets : sk[i] \in SocketSet(t)
  PROVE  InSockets(t, L, CoresPerSocket(t))
<1> DEFINE P == t.cores
           q == CoresPerSocket(t)
           g == InBlocks(t)
<1> SUFFICES ASSUME NEW j \in DOMAIN L, NEW k \in DOMAIN L, (j - 1) \div q = (k - 1) \div q
             PROVE  \E u \in SocketSet(t) : L[j] \cup L[k] \subseteq u
  BY DEF InSockets
<1>1. InGroups(P, W, L) /\ \A i \in DOMAIN t.sockets : sk[i] = Seats(P, L, g, i)
  BY DEF FilledIn
<1>2. j \in Nat /\ k \in Nat
  BY DEF Outputs
<1>3. g[j] = g[k]
  <2>1. g[j] = ((j - 1) \div q) + 1 /\ g[k] = ((k - 1) \div q) + 1
    BY <1>2 DEF InBlocks
  <2> QED  BY <2>1
<1>4. L[j] \subseteq sk[g[j]] /\ L[k] \subseteq sk[g[j]]
  <2>1. L[j] \subseteq HomeOf(P, L[j]) /\ L[k] \subseteq HomeOf(P, L[k])
    BY <1>1 DEF InGroups
  <2>2. HomeOf(P, L[j]) \subseteq Seats(P, L, g, g[j]) /\ HomeOf(P, L[k]) \subseteq Seats(P, L, g, g[j])
    <3> HIDE DEF g, P
    <3> QED  BY <1>3 DEF Seats
  <2> QED  BY <1>1, <2>1, <2>2
<1>5. sk[g[j]] \in SocketSet(t)
  OBVIOUS
<1> QED  BY <1>4, <1>5

\* As many CPUs as a socket has, on one socket, are that socket.
LEMMA WholeSocket ==
  ASSUME NEW t, TopologyOK(t), Regular(t), NEW X \in SUBSET Cpus(t), X # {},
         Cardinality(X) = t.num_cpus_per_core * CoresPerSocket(t)
  PROVE  /\ Siblings(t, First(X), "socket") \in SocketSet(t)
         /\ First(X) \in X /\ First(X) \in Siblings(t, First(X), "socket")
         /\ Cardinality(Siblings(t, First(X), "socket")) = Cardinality(X)
         /\ X \subseteq Siblings(t, First(X), "socket") => X \in SocketSet(t)
<1> DEFINE u == Siblings(t, First(X), "socket")
<1>1. First(X) \in X /\ First(X) \in Cpus(t)
  <2>1. X \subseteq Nat
    BY CpusFinite
  <2> QED  BY <2>1, FirstIn
<1>2. u \in SocketSet(t) /\ First(X) \in u
  <2>1. IsPartition(SocketSet(t), Cpus(t))
    BY DEF TopologyOK
  <2>2. u = Home(SocketSet(t), First(X))
    BY <1>1, GroupIs
  <2> QED  BY <1>1, <2>1, <2>2, HomeIs
<1>3. IsFiniteSet(u) /\ Cardinality(u) = Cardinality(X)
  BY <1>2, RegularNode
<1> HIDE DEF u
<1>4. X \subseteq u => X = u
  <2> SUFFICES ASSUME X \in SUBSET u  PROVE X = u
    OBVIOUS
  <2>1. Cardinality(X) = Cardinality(u) => X = u
    BY <1>3, FS_Subset
  <2> QED  BY <1>3, <2>1
<1> QED  BY <1>1, <1>2, <1>3, <1>4 DEF u

\* A test that has come to its end, with the verdict its lines call for.
Ended == pc' = "sanity" /\ Decided'

\* All tasks are in whole sockets, or in turn, and what they leave is known.
BlocksEnd ==
  /\ AffinityType /\ job = Asks(topo, test) /\ test = "ConsecutiveSocketFilling" /\ Regular(topo)
  /\ Filled(InBlocks(topo)) /\ Len(aff_cpus) = NumCores(topo) /\ OrderOK
  /\ \A k \in DOMAIN aff_cpus : InBlocks(topo)[k] \in DOMAIN topo.sockets
  /\ cpu_set = Cpus(topo) \ UNION {sockets[i] : i \in DOMAIN topo.sockets}

\* At the end of ConsecutiveSocketFilling the CPUs left decide.
LEMMA BlocksEndDecided == BlocksEnd => Decided
  BY TasksDecided DEF BlocksEnd, ByTask

\* A line of ConsecutiveSocketFilling: it fills its block, ends the test, or no
\* output that starts so is right.
LEMMA ConsumeConsecutiveStep ==
  ASSUME AffinityType, AffinityType', Regular(topo), BlocksSeen,
         NEW set \in Reports, ConsumeConsecutive(set)
  PROVE  Going(BlocksSeen') \/ Ended \/ Refused
<1> DEFINE P == topo.cores
           C == Cpus(topo)
           W == WidthOf(topo, test)
           L == aff_cpus
           M == Append(L, set)
           g == InBlocks(topo)
           q == CoresPerSocket(topo)
           S == NumSockets(topo)
           n == Len(L)
           s == (n \div q) + 1
           present == sockets[s] \cup HomeOf(P, set)
           b == topo.num_cpus_per_core
<1>1. test = "ConsecutiveSocketFilling" /\ test \in ByTask /\ Read(set) /\ pc = "consume"
  BY DEF ConsumeConsecutive, Read, ByTask
<1>2. /\ TopologyOK(topo) /\ C \subseteq Nat
      /\ L \in Outputs(C) /\ set \in SUBSET C /\ set # {}
      /\ aff_cpus' = M /\ M \in Outputs(C)
      /\ topo' = topo /\ test' = test /\ job' = job /\ job = Asks(topo, test)
  BY <1>1, LineRead
<1>3. /\ PlacesOf(topo, test) = P /\ LinesOf(topo, test) = 1 /\ PerSocket = q
      /\ Siblings(topo, First(set), "core") = HomeOf(P, set)
      /\ Cardinality(set) <= 1 <=> set \in W
      /\ set \in W => set \subseteq HomeOf(P, set)
  BY <1>1, TaskLine
<1>4. /\ S \in Nat \ {0} /\ q \in Nat \ {0} /\ b \in Nat \ {0} /\ NumCores(topo) = q * S
      /\ DOMAIN topo.sockets = 1 .. S
  BY <1>2, RegularNode
<1>5. FillingSocket = s
  BY <1>3 DEF FillingSocket
<1>6. /\ n < q * S /\ Filled(g) /\ FilledIn(topo, W, L, sockets, g)
      /\ Cardinality(sockets[s]) = b * (n % q)
      /\ \A i \in 1 .. s - 1 : sockets[i] \in SocketSet(topo)
      /\ cpu_set = C \ UNION {sockets[i] : i \in 1 .. s - 1}
  BY <1>1, <1>4, <1>5 DEF BlocksSeen, Filled
<1>7. n \in Nat /\ DOMAIN M = 1 .. (n + 1) /\ Len(M) = n + 1
  BY <1>2, OutputNext
<1>8. g[n + 1] = s /\ \A k \in 1 .. (n + 1) : g[k] \in 1 .. s
  BY <1>4, <1>7, BlockSlots
<1>9. s \in 1 .. S /\ n % q \in Nat /\ s \in DOMAIN topo.sockets
  <2>1. s \in 1 .. S /\ n % q \in Nat
    BY <1>4, <1>6, <1>7, BlockNext DEF Counts
  <2> QED  BY <1>4, <2>1
<1>10. PerSocket' = q /\ CoresPerSocket(topo') = q /\ NumCores(topo') = q * S
       /\ FillingSocket' = ((n + 1) \div q) + 1
  BY <1>2, <1>3, <1>4, <1>7 DEF PerSocket, FillingSocket
<1>11. OrderOK' <=> InSockets(topo, M, q)
  BY <1>1, <1>2, <1>10 DEF OrderOK, Batch, Lines, InSockets
<1> HIDE DEF P, C, W, L, M, g, q, S, n, s, b
<1>14. /\ n + 1 = s * q <=> n % q = q - 1
       /\ n % q # q - 1 => ((n + 1) \div q) + 1 = s /\ (n + 1) % q = (n % q) + 1 /\ n + 1 < q * S
       /\ n % q = q - 1 => ((n + 1) \div q) + 1 = s + 1 /\ (n + 1) % q = 0
       /\ n % q = q - 1 /\ s = S => n + 1 = q * S
       /\ n % q = q - 1 /\ s # S => n + 1 < q * S
  <2>1. s = (n \div q) + 1
    BY DEF s
  <2>2. n < q * S
    BY <1>6
  <2>3. Counts(n, q, S, s)
    BY ONLY <1>4, <1>7, <2>1, <2>2, BlockNext
  <2> QED  BY <2>3 DEF Counts
<1>12. CASE ~FitsConsecutive(set, s) /\ Reject
  <2>1. ~(Cardinality(set) <= 1 /\ set \cap sockets[s] = {})
    BY <1>12 DEF FitsConsecutive
  <2> QED  BY <1>1, <1>6, <1>9, <1>12, <2>1, TaskRefused
<1>13. CASE /\ FitsConsecutive(set, s)
            /\ sockets' = [sockets EXCEPT ![s] = present]
            /\ IF n + 1 = s * q
               THEN \/ /\ SocketMixed(present)
                       /\ pc' = "done"
                       /\ result' = "sanity_error"
                       /\ UNCHANGED cpu_set
                    \/ /\ ~SocketMixed(present)
                       /\ cpu_set' = cpu_set \ present
                       /\ pc' = IF s = S THEN "sanity" ELSE pc
                       /\ UNCHANGED result
               ELSE UNCHANGED <<pc, cpu_set, result>>
  <2>1. set \in W /\ set \subseteq HomeOf(P, set) /\ set \cap sockets[s] = {}
    BY <1>3, <1>13 DEF FitsConsecutive
  <2>2. FilledIn(topo, W, M, sockets', g)
    <3>1. FilledIn(topo, W, Append(L, set),
                   [sockets EXCEPT ![g[Len(L) + 1]] = sockets[g[Len(L) + 1]] \cup HomeOf(topo.cores, set)], g)
      <4>1. g[Len(L) + 1] = s
        BY <1>8 DEF n
      <4>2. g[Len(L) + 1] \in DOMAIN topo.sockets /\ set \cap sockets[g[Len(L) + 1]] = {}
        BY <1>9, <2>1, <4>1
      <4> QED  BY <1>2, <1>6, <2>1, <4>2, FilledNext DEF C, P
    <3>2. g[Len(L) + 1] = s
      BY <1>8 DEF n
    <3> QED  BY <1>13, <3>1, <3>2 DEF M, P
  <2>3. Cardinality(present) = b * (n % q) + b
    <3>1. Cardinality(sockets[s] \cup HomeOf(topo.cores, set)) = Cardinality(sockets[s]) + topo.num_cpus_per_core
      BY <1>2, <1>6, <1>9, <2>1, FilledCount DEF C, P
    <3> QED  BY <1>6, <3>1 DEF b, P
  <2>4. sockets'[s] = present /\ \A i \in DOMAIN topo.sockets : i # s => sockets'[i] = sockets[i]
    <3>1. DOMAIN sockets = DOMAIN topo.sockets
      BY <1>6 DEF FilledIn
    <3> QED  BY <1>9, <1>13, <3>1
  <2>5. Filled(InBlocks(topo))'
    BY <1>2, <2>2 DEF Filled, g, W
  <2>6. present # {} /\ present \in SUBSET C /\ set \subseteq present
    <3>1. present = Seats(P, M, g, s)
      BY <1>9, <2>2, <2>4 DEF FilledIn, P
    <3>2. InGroups(P, W, M)
      BY <2>2 DEF FilledIn, P
    <3>3. IsPartition(P, C)
      BY <1>2 DEF TopologyOK, P, C
    <3>4. \A k \in DOMAIN M : HomeOf(P, M[k]) \in P
      BY <1>2, <3>2, <3>3, InGroupsHosts
    <3>5. Seats(P, M, g, s) \subseteq C
      BY <3>3, <3>4 DEF Seats, IsPartition
    <3> QED  BY <1>2, <2>1, <3>1, <3>5
  <2>7. \A i \in 1 .. s - 1 : sockets'[i] = sockets[i]
    <3>1. \A i \in 1 .. s - 1 : i \in DOMAIN topo.sockets /\ i # s
      BY <1>4, <1>9
    <3> QED  BY <2>4, <3>1
  <2> HIDE DEF present
  <2>8. {sockets'[i] : i \in 1 .. s - 1} = {sockets[i] : i \in 1 .. s - 1}
    BY <2>7
  <2>9. CASE n + 1 # s * q
    <3>1. n % q # q - 1 /\ ((n + 1) \div q) + 1 = s /\ (n + 1) % q = (n % q) + 1 /\ n + 1 < q * S
      BY <1>14, <2>9
    <3>2. Len(aff_cpus') < NumCores(topo') /\ FillingSocket' = s
      BY <1>2, <1>7, <1>10, <3>1
    <3>3. Cardinality(sockets'[s]) = b * ((n + 1) % q)
      <4>1. b * ((n % q) + 1) = b * (n % q) + b
        BY <1>4, <1>9
      <4> QED  BY <2>3, <2>4, <3>1, <4>1
    <3>4. \A i \in 1 .. s - 1 : sockets'[i] \in SocketSet(topo)
      BY <1>6, <2>7
    <3>5. cpu_set' = C \ UNION {sockets'[i] : i \in 1 .. s - 1}
      BY <1>6, <1>13, <2>8, <2>9
    <3>6. BlocksSeen'
      BY <1>1, <1>2, <1>7, <1>10, <2>5, <3>2, <3>3, <3>4, <3>5 DEF BlocksSeen, C, b
    <3> QED  BY <1>1, <1>13, <2>9, <3>6 DEF Going
  <2>10. CASE n + 1 = s * q
    <3>1. n % q = q - 1 /\ ((n + 1) \div q) + 1 = s + 1 /\ (n + 1) % q = 0
          /\ (s = S => n + 1 = q * S) /\ (s # S => n + 1 < q * S)
      BY <1>14, <2>10
    <3>2. Cardinality(present) = b * q
      <4>1. b * (q - 1) + b = b * q
        BY <1>4
      <4> QED  BY <2>3, <3>1, <4>1
    <3> DEFINE u == Siblings(topo, First(present), "socket")
    <3>3. /\ u \in SocketSet(topo) /\ First(present) \in present /\ First(present) \in u
          /\ Cardinality(u) = Cardinality(present)
          /\ present \subseteq u => present \in SocketSet(topo)
      BY <1>2, <2>6, <3>2, WholeSocket DEF C, b, q
    <3>4. SocketMixed(present) <=> ~(present \subseteq u)
      BY <3>3 DEF SocketMixed
    <3> HIDE DEF u
    <3>5. CASE SocketMixed(present) /\ pc' = "done" /\ result' = "sanity_error"
      <4>1. PICK y \in present : y \notin u
        BY <3>4, <3>5
      <4>2. ~Together(topo, sockets')
        BY <1>9, <2>4, <3>3, <4>1 DEF Together
      <4>3. ~InSockets(topo, M, q)
        BY <1>2, <1>4, <2>2, <4>2, BlocksTogether DEF C, q, g
      <4> QED  BY <1>11, <3>5, <4>3 DEF Refused, Fits
    <3>6. CASE ~SocketMixed(present) /\ cpu_set' = cpu_set \ present /\ pc' = IF s = S THEN "sanity" ELSE pc
      <4>1. sockets'[s] \in SocketSet(topo)
        BY <2>4, <3>3, <3>4, <3>6
      <4>2. 1 .. s = (1 .. s - 1) \cup {s}
        BY <1>4, <1>9
      <4>3. \A i \in 1 .. s : sockets'[i] \in SocketSet(topo)
        <5>1. \A i \in 1 .. s - 1 : sockets'[i] \in SocketSet(topo)
          BY <1>6, <2>7
        <5> QED  BY <4>1, <4>2, <5>1
      <4>4. cpu_set' = C \ UNION {sockets'[i] : i \in 1 .. s}
        <5>1. {sockets'[i] : i \in 1 .. s} = {sockets[i] : i \in 1 .. s - 1} \cup {present}
          BY <2>4, <2>8, <4>2
        <5> QED  BY <1>6, <3>6, <5>1
      <4>5. CASE s = S
        <5>1. Len(aff_cpus') = NumCores(topo') /\ pc' = "sanity"
          BY <1>2, <1>7, <1>10, <3>1, <3>6, <4>5
        <5>2. \A k \in DOMAIN M : g[k] \in DOMAIN topo.sockets
          BY <1>4, <1>7, <1>8, <4>5
        <5>3. \A i \in DOMAIN topo.sockets : sockets'[i] \in SocketSet(topo)
          BY <1>4, <4>3, <4>5
        <5>4. InSockets(topo, M, q)
          BY <1>2, <2>2, <5>2, <5>3, BlocksInSockets DEF C, q, g
        <5>5. OrderOK'
          BY <1>11, <5>4
        <5>6. cpu_set' = C \ UNION {sockets'[i] : i \in DOMAIN topo.sockets}
          BY <1>4, <4>4, <4>5
        <5>7. BlocksEnd' => Decided'
          <6>1. (BlocksEnd => Decided)'
            BY BlocksEndDecided, PTL
          <6> QED  BY <6>1
        <5>8. BlocksEnd'
          BY <1>1, <1>2, <2>5, <5>1, <5>2, <5>5, <5>6 DEF BlocksEnd, C, g
        <5> QED  BY <5>1, <5>7, <5>8 DEF Ended
      <4>6. CASE s # S
        <5>1. Len(aff_cpus') < NumCores(topo') /\ FillingSocket' = s + 1 /\ pc' = "consume"
          BY <1>1, <1>2, <1>7, <1>10, <3>1, <3>6, <4>6
        <5>2. s + 1 \in DOMAIN topo.sockets /\ (s + 1) - 1 = s
          BY <1>4, <1>9, <4>6
        <5>3. sockets'[s + 1] = {}
          <6>1. sockets'[s + 1] = Seats(P, M, g, s + 1)
            BY <2>2, <5>2 DEF FilledIn, P
          <6>2. \A k \in DOMAIN M : g[k] # s + 1
            BY <1>7, <1>8, <1>9
          <6> QED  BY <6>1, <6>2 DEF Seats
        <5>4. Cardinality(sockets'[s + 1]) = b * ((n + 1) % q)
          <6>1. b * 0 = 0
            BY <1>4
          <6> QED  BY <3>1, <5>3, <6>1, FS_EmptySet
        <5>5. BlocksSeen'
          <6> DEFINE v == s + 1
          <6> HIDE DEF v
          <6>1. FillingSocket' = v /\ v - 1 = s /\ Cardinality(sockets'[v]) = b * ((n + 1) % q)
            BY <5>1, <5>2, <5>4 DEF v
          <6> QED  BY <1>1, <1>2, <1>7, <1>10, <2>5, <4>3, <4>4, <5>1, <6>1 DEF BlocksSeen, C, b
        <5> QED  BY <5>1, <5>5 DEF Going
      <4> QED  BY <4>5, <4>6
    <3> QED  BY <1>13, <2>10, <3>5, <3>6
  <2> QED  BY <2>9, <2>10
<1> QED
  <2>1. \/ ~FitsConsecutive(set, s) /\ Reject
        \/ /\ FitsConsecutive(set, s)
           /\ sockets' = [sockets EXCEPT ![s] = present]
           /\ IF n + 1 = s * q
              THEN \/ /\ SocketMixed(present)
                      /\ pc' = "done"
                      /\ result' = "sanity_error"
                      /\ UNCHANGED cpu_set
                   \/ /\ ~SocketMixed(present)
                      /\ cpu_set' = cpu_set \ present
                      /\ pc' = IF s = S THEN "sanity" ELSE pc
                      /\ UNCHANGED result
              ELSE UNCHANGED <<pc, cpu_set, result>>
    BY <1>3, <1>5 DEF ConsumeConsecutive, n, L, S
  <2> QED  BY <1>12, <1>13, <2>1

-----------------------------------------------------------------------------
(* Sockets filled in turn. *)

\* The next of n tasks, dealt to S sockets, where s is the socket of the next.
Deals(n, q, S, s) ==
  /\ s \in 1 .. S /\ n \div S \in Nat /\ n % S = s - 1
  /\ s # S => (n + 1) \div S = n \div S /\ (n + 1) % S = s /\ n + 1 < q * S
  /\ s = S => (n + 1) \div S = (n \div S) + 1 /\ (n + 1) % S = 0
  /\ s = S /\ (n + 1) \div S = q => n + 1 = q * S
  /\ s = S /\ (n + 1) \div S # q => n + 1 < q * S

\* Line n + 1 goes to socket n % S + 1, and ends a round exactly if n + 1 is a
\* multiple of S.
LEMMA TurnNext ==
  ASSUME NEW n \in Nat, NEW q \in Nat \ {0}, NEW S \in Nat \ {0}, n < q * S,
         NEW s, s = (n % S) + 1
  PROVE  Deals(n, q, S, s)
<1> DEFINE d == n \div S
           r == n % S
           m == n + 1
           D == m \div S
           R == m % S
<1>1. /\ d \in Nat /\ r \in 0 .. S - 1
      /\ D = IF r = S - 1 THEN d + 1 ELSE d
      /\ R = IF r = S - 1 THEN 0 ELSE r + 1
  BY DivNext
<1>2. m = S * D + R /\ m \in Nat /\ D \in Nat /\ R \in 0 .. S - 1
  <2>1. m \in Nat
    OBVIOUS
  <2> HIDE DEF m
  <2> QED  BY <2>1
<1>3. m <= q * S
  OBVIOUS
<1> HIDE DEF d, r, D, R, m
<1>4. m = q * S => D = q /\ R = 0
  <2> SUFFICES ASSUME m = q * S  PROVE D = q /\ R = 0
    OBVIOUS
  <2>1. m = S * q + 0
    OBVIOUS
  <2>2. 0 \in 0 .. S - 1
    OBVIOUS
  <2>3. m \div S = q /\ m % S = 0
    BY ONLY <1>2, <2>1, <2>2, q \in Nat \ {0}, S \in Nat \ {0}, DivModUnique
  <2> QED  BY <2>3 DEF D, R
<1>5. r # S - 1 => m < q * S
  <2>1. r # S - 1 => R # 0
    BY <1>1
  <2> DEFINE z == q * S
  <2>2. z \in Nat
    OBVIOUS
  <2>3. m <= z /\ (m = z => R = 0)
    BY <1>3, <1>4
  <2> HIDE DEF z
  <2>4. r # S - 1 => m < z
    BY <1>2, <2>1, <2>2, <2>3
  <2> QED  BY <2>4 DEF z
<1>6. r = S - 1 /\ D = q => m = q * S
  <2> SUFFICES ASSUME r = S - 1, D = q  PROVE m = q * S
    OBVIOUS
  <2>1. R = 0
    BY <1>1
  <2>2. m = S * q + 0
    BY <1>2, <2>1
  <2> QED  BY <2>2
<1>7. D # q => m < q * S
  <2> DEFINE z == q * S
  <2>1. z \in Nat
    OBVIOUS
  <2>2. m <= z /\ (m = z => D = q)
    BY <1>3, <1>4
  <2> HIDE DEF z
  <2>3. D # q => m < z
    BY <1>2, <2>1, <2>2
  <2> QED  BY <2>3 DEF z
<1>8. s = r + 1 /\ s \in 1 .. S /\ r = s - 1 /\ (s = S <=> r = S - 1)
  <2>1. s = r + 1
    BY DEF r
  <2> QED  BY <1>1, <2>1
<1>9. /\ s \in 1 .. S /\ d \in Nat /\ r = s - 1
      /\ s # S => D = d /\ R = s
      /\ s = S => D = d + 1 /\ R = 0
  BY <1>1, <1>8
<1>10. /\ s # S => m < q * S
       /\ s = S /\ D = q => m = q * S
       /\ s = S /\ D # q => m < q * S
  BY <1>5, <1>6, <1>7, <1>8
<1> QED  BY ONLY <1>9, <1>10 DEF Deals, d, r, m, D, R

\* The turns of the first n + 1 lines.
LEMMA TurnSlots ==
  ASSUME NEW t, NumSockets(t) \in Nat \ {0}, NEW n \in Nat
  PROVE  /\ InTurn(t)[n + 1] = (n % NumSockets(t)) + 1
         /\ \A k \in 1 .. (n + 1) : InTurn(t)[k] \in 1 .. NumSockets(t)
<1> DEFINE S == NumSockets(t)
<1>1. \A k \in Nat : InTurn(t)[k] = ((k - 1) % S) + 1
  BY DEF InTurn
<1> HIDE DEF S
<1>2. InTurn(t)[n + 1] = (n % S) + 1
  <2>1. n + 1 \in Nat /\ (n + 1) - 1 = n
    OBVIOUS
  <2> QED  BY <1>1, <2>1
<1>3. ASSUME NEW k \in 1 .. (n + 1)  PROVE InTurn(t)[k] \in 1 .. S
  <2>1. k \in Nat /\ k - 1 \in Nat /\ S \in Nat \ {0}
    BY DEF S
  <2>2. (k - 1) % S \in 0 .. S - 1
    BY <2>1
  <2> QED  BY <1>1, <2>1, <2>2
<1> QED  BY <1>2, <1>3 DEF S

\* Task k is on the socket whose turn it is.
Turned(t, L) == \A k \in DOMAIN L : L[k] \subseteq t.sockets[InTurn(t)[k]]

\* The order AlternateSocketFilling is named for, in the terms of turns.
LEMMA OrderIsTurned ==
  ASSUME test = "AlternateSocketFilling", NEW C, aff_cpus \in Outputs(C)
  PROVE  OrderOK <=> Turned(topo, aff_cpus)
<1>1. \A k \in DOMAIN aff_cpus : k \in Nat
  BY DEF Outputs
<1>2. \A k \in DOMAIN aff_cpus : InTurn(topo)[k] = ((k - 1) % NumSockets(topo)) + 1
  BY <1>1 DEF InTurn
<1> QED  BY <1>2 DEF OrderOK, Turned, Lines

\* What each socket has been dealt, in CPUs.
Dealt(t, sk, b, d, r) ==
  \A i \in DOMAIN t.sockets : Cardinality(sk[i]) = b * (d + (IF i <= r THEN 1 ELSE 0))

\* All tasks are dealt, and what they leave is known.
TurnsEnd ==
  /\ AffinityType /\ job = Asks(topo, test) /\ test = "AlternateSocketFilling" /\ Regular(topo)
  /\ Filled(InTurn(topo)) /\ Len(aff_cpus) = NumCores(topo) /\ OrderOK
  /\ \A k \in DOMAIN aff_cpus : InTurn(topo)[k] \in DOMAIN topo.sockets
  /\ cpu_set = Cpus(topo) \ UNION {sockets[i] : i \in DOMAIN topo.sockets}

\* At the end of AlternateSocketFilling the CPUs left decide.
LEMMA TurnsEndDecided == TurnsEnd => Decided
  BY TasksDecided DEF TurnsEnd, ByTask

\* One socket more has had its CPUs in this round; after the last a round begins.
LEMMA DealtNext ==
  ASSUME NEW t, NEW S \in Nat \ {0}, DOMAIN t.sockets = 1 .. S, NEW b \in Nat, NEW d \in Nat, NEW s \in 1 .. S,
         NEW sk, DOMAIN sk = 1 .. S, Dealt(t, sk, b, d, s - 1), NEW X, Cardinality(X) = Cardinality(sk[s]) + b
  PROVE  /\ s # S => Dealt(t, [sk EXCEPT ![s] = X], b, d, s)
         /\ s = S => Dealt(t, [sk EXCEPT ![s] = X], b, d + 1, 0)
<1> DEFINE new == [sk EXCEPT ![s] = X]
<1>1. new[s] = X /\ \A i \in 1 .. S : i # s => new[i] = sk[i]
  OBVIOUS
<1> HIDE DEF new
<1>2. Cardinality(sk[s]) = b * d /\ Cardinality(new[s]) = b * d + b
  <2>1. Cardinality(sk[s]) = b * (d + (IF s <= s - 1 THEN 1 ELSE 0))
    BY DEF Dealt
  <2>2. ~(s <= s - 1)
    OBVIOUS
  <2>3. b * (d + 0) = b * d
    OBVIOUS
  <2> QED  BY <1>1, <2>1, <2>2, <2>3
<1>3. \A i \in 1 .. S : i # s => Cardinality(new[i]) = b * (d + (IF i <= s THEN 1 ELSE 0))
  <2>1. \A i \in 1 .. S : i # s => (i <= s - 1 <=> i <= s)
    OBVIOUS
  <2>2. \A i \in 1 .. S : Cardinality(sk[i]) = b * (d + (IF i <= s - 1 THEN 1 ELSE 0))
    BY DEF Dealt
  <2> QED  BY <1>1, <2>1, <2>2
<1>4. b * (d + 1) = b * d + b /\ b * ((d + 1) + 0) = b * d + b
  OBVIOUS
<1>5. Dealt(t, new, b, d, s)
  <2>1. s <= s
    OBVIOUS
  <2>2. Cardinality(new[s]) = b * (d + (IF s <= s THEN 1 ELSE 0))
    BY <1>2, <1>4, <2>1
  <2> QED  BY <1>3, <2>2 DEF Dealt
<1>6. s = S => Dealt(t, new, b, d + 1, 0)
  <2> SUFFICES ASSUME s = S, NEW i \in 1 .. S
               PROVE  Cardinality(new[i]) = b * ((d + 1) + (IF i <= 0 THEN 1 ELSE 0))
    BY DEF Dealt
  <2>1. i <= s /\ ~(i <= 0)
    OBVIOUS
  <2>2. Cardinality(new[i]) = b * (d + (IF i <= s THEN 1 ELSE 0))
    BY <1>5 DEF Dealt
  <2>3. Cardinality(new[i]) = b * (d + 1)
    BY <2>1, <2>2
  <2> QED  BY <1>4, <2>1, <2>3
<1> QED  BY <1>5, <1>6 DEF new

\* A line of AlternateSocketFilling: it takes its turn, ends the test, or no output
\* that starts so is right.
LEMMA ConsumeAlternateStep ==
  ASSUME AffinityType, AffinityType', Regular(topo), TurnsSeen,
         NEW set \in Reports, ConsumeAlternate(set)
  PROVE  Going(TurnsSeen') \/ Ended \/ Refused
<1> DEFINE P == topo.cores
           C == Cpus(topo)
           W == WidthOf(topo, test)
           L == aff_cpus
           M == Append(L, set)
           g == InTurn(topo)
           q == CoresPerSocket(topo)
           S == NumSockets(topo)
           n == Len(L)
           s == AlternateSocket
           X == sockets[s] \cup Siblings(topo, First(set), "core")
           seen == [sockets EXCEPT ![s] = X]
           b == topo.num_cpus_per_core
           round == (n + 1) \div S
           even == \A i \in DOMAIN seen : Cardinality(seen[i]) = round * b
           left == IF s = S /\ ~even THEN cpu_set \cup {-1} ELSE cpu_set
           last == s = S /\ round = PerSocket
<1>1. test = "AlternateSocketFilling" /\ test \in ByTask /\ Read(set) /\ pc = "consume"
  BY DEF ConsumeAlternate, Read, ByTask
<1>2. /\ TopologyOK(topo) /\ C \subseteq Nat
      /\ L \in Outputs(C) /\ set \in SUBSET C /\ set # {}
      /\ aff_cpus' = M /\ M \in Outputs(C)
      /\ topo' = topo /\ test' = test /\ job' = job /\ job = Asks(topo, test)
  BY <1>1, LineRead
<1>3. /\ PlacesOf(topo, test) = P /\ LinesOf(topo, test) = 1 /\ PerSocket = q
      /\ Siblings(topo, First(set), "core") = HomeOf(P, set)
      /\ Cardinality(set) <= 1 <=> set \in W
      /\ set \in W => set \subseteq HomeOf(P, set)
  BY <1>1, TaskLine
<1>4. /\ S \in Nat \ {0} /\ q \in Nat \ {0} /\ b \in Nat \ {0} /\ NumCores(topo) = q * S
      /\ DOMAIN topo.sockets = 1 .. S
  BY <1>2, RegularNode
<1>5. s = (n % S) + 1 /\ X = sockets[s] \cup HomeOf(P, set)
  BY <1>3 DEF AlternateSocket
<1>6. /\ n < q * S /\ Filled(g) /\ FilledIn(topo, W, L, sockets, g) /\ OrderOK
      /\ Dealt(topo, sockets, b, n \div S, n % S)
      /\ cpu_set = C
  BY <1>1, <1>4 DEF TurnsSeen, Filled, Dealt
<1>7. n \in Nat /\ DOMAIN M = 1 .. (n + 1) /\ Len(M) = n + 1 /\ DOMAIN L = 1 .. n
      /\ (\A k \in 1 .. n : M[k] = L[k]) /\ M[n + 1] = set
  BY <1>2, OutputNext
<1>8. g[n + 1] = s /\ \A k \in 1 .. (n + 1) : g[k] \in 1 .. S
  BY <1>4, <1>5, <1>7, TurnSlots
<1>9. Deals(n, q, S, s)
  <2>1. n < q * S /\ s = (n % S) + 1
    BY <1>5, <1>6
  <2> HIDE DEF n, q, S, s
  <2> QED  BY ONLY <1>4, <1>7, <2>1, TurnNext
<1>10. Turned(topo, L)
  BY <1>1, <1>2, <1>6, OrderIsTurned
<1>11. OrderOK' <=> Turned(topo, M)
  <2>1. \A k \in 1 .. (n + 1) : g[k] = ((k - 1) % S) + 1
    BY DEF InTurn
  <2>2. OrderOK' <=> \A k \in DOMAIN M : M[k] \subseteq topo.sockets[((k - 1) % S) + 1]
    BY <1>1, <1>2 DEF OrderOK, Lines
  <2> HIDE DEF M, n, S
  <2> QED  BY <1>7, <2>1, <2>2 DEF Turned
<1>12. DOMAIN sockets = 1 .. S
  BY <1>4, <1>6 DEF FilledIn
<1> HIDE DEF P, C, W, L, M, g, q, S, n, s, b, X
<1>13. s \in 1 .. S /\ s \in DOMAIN topo.sockets /\ n \div S \in Nat /\ n % S = s - 1
  BY <1>4, <1>9 DEF Deals
<1>14. CASE ~FitsAlternate(set, s) /\ Reject
  <2>1. CASE ~(Cardinality(set) <= 1 /\ set \cap sockets[s] = {})
    BY <1>1, <1>6, <1>13, <1>14, <2>1, TaskRefused
  <2>2. CASE ~(set \subseteq topo.sockets[s])
    <3>1. n + 1 \in DOMAIN M /\ M[n + 1] = set /\ g[n + 1] = s
      BY <1>7, <1>8
    <3>2. ~Turned(topo, M)
      BY <2>2, <3>1 DEF Turned, g
    <3> QED  BY <1>11, <1>14, <3>2 DEF Refused, Fits, Reject
  <2> QED  BY <1>14, <2>1, <2>2 DEF FitsAlternate
<1>15. CASE /\ FitsAlternate(set, s)
            /\ sockets' = seen
            /\ cpu_set' = IF last THEN left \ UNION {seen[i] : i \in DOMAIN seen} ELSE left
            /\ pc' = IF last THEN "sanity" ELSE pc
  <2>1. set \in W /\ set \subseteq HomeOf(P, set) /\ set \cap sockets[s] = {} /\ set \subseteq topo.sockets[s]
    BY <1>3, <1>15 DEF FitsAlternate
  <2>2. FilledIn(topo, W, M, sockets', g)
    <3>1. g[Len(L) + 1] = s
      BY <1>8 DEF n
    <3>2. FilledIn(topo, W, Append(L, set),
                   [sockets EXCEPT ![g[Len(L) + 1]] = sockets[g[Len(L) + 1]] \cup HomeOf(topo.cores, set)], g)
      <4>1. g[Len(L) + 1] \in DOMAIN topo.sockets /\ set \cap sockets[g[Len(L) + 1]] = {}
        BY <1>13, <2>1, <3>1
      <4> QED  BY <1>2, <1>6, <2>1, <4>1, FilledNext DEF C, P
    <3> QED  BY <1>5, <1>15, <3>1, <3>2 DEF M, P
  <2>3. Cardinality(X) = Cardinality(sockets[s]) + b
    <3>1. Cardinality(sockets[s] \cup HomeOf(topo.cores, set)) = Cardinality(sockets[s]) + topo.num_cpus_per_core
      <4>1. /\ TopologyOK(topo) /\ L \in Outputs(Cpus(topo)) /\ FilledIn(topo, W, L, sockets, g)
            /\ set \in SUBSET Cpus(topo) /\ set # {} /\ set \subseteq HomeOf(topo.cores, set)
            /\ s \in DOMAIN topo.sockets /\ set \cap sockets[s] = {}
        BY <1>2, <1>6, <1>13, <2>1 DEF C, P
      <4> QED  BY ONLY <4>1, Regular(topo), FilledCount
    <3> QED  BY <1>5, <3>1 DEF b, P
  <2>4. Filled(InTurn(topo))'
    BY <1>2, <2>2 DEF Filled, g, W
  <2>5. Turned(topo, M)
    <3>1. \A k \in 1 .. n : L[k] \subseteq topo.sockets[InTurn(topo)[k]]
      BY <1>7, <1>10 DEF Turned
    <3>2. M[n + 1] \subseteq topo.sockets[InTurn(topo)[n + 1]]
      BY <1>7, <1>8, <2>1 DEF g
    <3>3. \A k \in DOMAIN M : k \in 1 .. n \/ k = n + 1
      BY <1>7
    <3> QED  BY <1>7, <3>1, <3>2, <3>3 DEF Turned
  <2>6. OrderOK'
    BY <1>11, <2>5
  <2>7. /\ s # S => Dealt(topo, seen, b, n \div S, s)
        /\ s = S => Dealt(topo, seen, b, (n \div S) + 1, 0)
    <3> DEFINE d == n \div S
    <3>1. Dealt(topo, sockets, b, d, s - 1) /\ d \in Nat
      BY <1>6, <1>13
    <3> HIDE DEF d
    <3>2. /\ s # S => Dealt(topo, [sockets EXCEPT ![s] = X], b, d, s)
          /\ s = S => Dealt(topo, [sockets EXCEPT ![s] = X], b, d + 1, 0)
      BY ONLY <1>4, <1>12, <1>13, <2>3, <3>1, DealtNext
    <3> QED  BY <3>2 DEF d
  <2>8. DOMAIN seen = 1 .. S
    BY <1>12
  <2>9. left = C
    <3>1. s = S => even
      <4> SUFFICES ASSUME s = S, NEW i \in 1 .. S  PROVE Cardinality(seen[i]) = round * b
        BY <2>8
      <4>1. round = (n \div S) + 1
        BY <1>9 DEF Deals
      <4>2. Cardinality(seen[i]) = b * (((n \div S) + 1) + (IF i <= 0 THEN 1 ELSE 0))
        <5> HIDE DEF seen
        <5> QED  BY <1>4, <2>7 DEF Dealt
      <4>3. ~(i <= 0)
        OBVIOUS
      <4>4. Cardinality(seen[i]) = b * (((n \div S) + 1) + 0)
        BY <4>2, <4>3
      <4> DEFINE d == n \div S
                 c == Cardinality(seen[i])
      <4>5. d \in Nat /\ c = b * ((d + 1) + 0) /\ round = d + 1
        BY <1>13, <4>1, <4>4
      <4> HIDE DEF c, d, round
      <4>6. c = round * b
        BY <1>4, <4>5
      <4> QED  BY <4>6 DEF c
    <3> QED  BY <1>6, <3>1
  <2> HIDE DEF left, even, round
  <2>10. CASE last
    <3>1. s = S /\ round = q
      BY <1>3, <2>10
    <3>2. Len(aff_cpus') = NumCores(topo') /\ pc' = "sanity"
      <4>1. n + 1 = q * S
        BY <1>9, <3>1 DEF Deals, round
      <4>2. NumCores(topo') = q * S
        BY <1>2, <1>4
      <4>3. Len(aff_cpus') = n + 1
        BY <1>2, <1>7
      <4> QED  BY <1>15, <2>10, <4>1, <4>2, <4>3
    <3>3. \A k \in DOMAIN M : g[k] \in DOMAIN topo.sockets
      BY <1>4, <1>7, <1>8
    <3>4. cpu_set' = C \ UNION {sockets'[i] : i \in DOMAIN topo.sockets}
      <4>1. cpu_set' = C \ UNION {seen[i] : i \in 1 .. S}
        BY <1>15, <2>8, <2>9, <2>10
      <4> HIDE DEF seen
      <4> QED  BY <1>4, <1>15, <4>1
    <3>5. TurnsEnd' => Decided'
      <4>1. (TurnsEnd => Decided)'
        BY TurnsEndDecided, PTL
      <4> QED  BY <4>1
    <3>6. TurnsEnd'
      BY <1>1, <1>2, <2>4, <2>6, <3>2, <3>3, <3>4 DEF TurnsEnd, C, g
    <3> QED  BY <3>2, <3>5, <3>6 DEF Ended
  <2>11. CASE ~last
    <3>1. pc' = "consume" /\ cpu_set' = C
      BY <1>1, <1>15, <2>9, <2>11
    <3>2. n + 1 < q * S
      BY <1>3, <1>9, <2>11 DEF Deals, round
    <3>3. Len(aff_cpus') = n + 1 /\ NumCores(topo') = q * S /\ NumSockets(topo') = S
      BY <1>2, <1>4, <1>7 DEF S
    <3>4. Dealt(topo, sockets', b, (n + 1) \div S, (n + 1) % S)
      <4>1. CASE s # S
        <5>1. (n + 1) \div S = n \div S /\ (n + 1) % S = s
          BY <1>9, <4>1 DEF Deals
        <5> HIDE DEF seen
        <5> QED  BY <1>15, <2>7, <4>1, <5>1
      <4>2. CASE s = S
        <5>1. (n + 1) \div S = (n \div S) + 1 /\ (n + 1) % S = 0
          BY <1>9, <4>2 DEF Deals
        <5> HIDE DEF seen
        <5> QED  BY <1>15, <2>7, <4>2, <5>1
      <4> QED  BY <4>1, <4>2
    <3>5. Len(aff_cpus') < NumCores(topo')
      BY <3>2, <3>3
    <3>6. Dealt(topo', sockets', b, Len(aff_cpus') \div NumSockets(topo'), Len(aff_cpus') % NumSockets(topo'))
      BY <1>2, <3>3, <3>4
    <3>7. TurnsSeen'
      BY <1>1, <1>2, <2>4, <2>6, <3>1, <3>5, <3>6 DEF TurnsSeen, Dealt, C, b
    <3> QED  BY <3>1, <3>7 DEF Going
  <2> HIDE DEF last
  <2> QED  BY <2>10, <2>11
<1> QED
  <2>1. \/ ~FitsAlternate(set, s) /\ Reject
        \/ /\ FitsAlternate(set, s)
           /\ sockets' = seen
           /\ cpu_set' = IF last THEN left \ UNION {seen[i] : i \in DOMAIN seen} ELSE left
           /\ pc' = IF last THEN "sanity" ELSE pc
    BY DEF ConsumeAlternate, n, L, S, s, X, b
  <2> HIDE DEF seen, left, last
  <2> QED  BY <1>14, <1>15, <2>1

-----------------------------------------------------------------------------
(* The affinity tests. *)

\* The verdict an output calls for is its own.
LEMMA SameLines ==
  ASSUME UNCHANGED <<topo, test, job, aff_cpus>>
  PROVE  (Fits' <=> Fits) /\ (Placed' <=> Placed)
<1>1. /\ Places' = Places /\ LinesPerPlace' = LinesPerPlace /\ Lines' = Lines
  BY DEF Places, LinesPerPlace, Lines
<1>2. ASSUME NEW k  PROVE WidthOK(k)' <=> WidthOK(k)
  BY DEF WidthOK
<1>3. ASSUME NEW p  PROVE Hosted(p)' = Hosted(p)
  BY <1>1 DEF Hosted
<1>4. OrderOK' <=> OrderOK
  BY DEF OrderOK, Batch, PerSocket, Lines
<1>5. Fits' <=> Fits
  BY <1>1, <1>2, <1>3, <1>4 DEF Fits
<1>6. Placed' <=> Placed
  BY <1>1, <1>3, <1>5 DEF Placed
<1> QED  BY <1>5, <1>6

\* No line has been read yet.
LEMMA NoLines ==
  ASSUME NEW P, NEW C, NEW W
  PROVE  InGroups(P, W, <<>>) /\ Apart(P, <<>>) /\ Left(P, C, <<>>) = C
<1>1. DOMAIN <<>> = {}
  OBVIOUS
<1> QED  BY <1>1 DEF InGroups, Apart, Left, Homes

\* Before the first line nothing is filled.
LEMMA NoSeats ==
  ASSUME NEW t, NEW W, NEW g
  PROVE  FilledIn(t, W, <<>>, [i \in DOMAIN t.sockets |-> {}], g)
<1>1. DOMAIN <<>> = {}
  OBVIOUS
<1>2. \A i : Seats(t.cores, <<>>, g, i) = {}
  BY <1>1 DEF Seats
<1> QED  BY <1>1, <1>2 DEF FilledIn, InGroups, ApartIn

\* The loops start on the whole node.
LEMMA SetupSees ==
  ASSUME AffinityType, Uniform, sockets = [i \in DOMAIN topo.sockets |-> {}], Setup
  PROVE  SetsSeen' /\ NodesSeen' /\ ThreadsSeen' /\ BlocksSeen' /\ TurnsSeen'
<1>1. /\ topo' = topo /\ test' = test /\ aff_cpus' = <<>> /\ cpu_set' = Cpus(topo) /\ sockets' = sockets
      /\ job' = Asks(topo, test)
  BY DEF Setup, AffinityType
<1>2. Sound' /\ Apart(PlacesOf(topo', test'), aff_cpus') /\ Unseen' = Cpus(topo)
  BY <1>1, NoLines DEF Sound, Unseen
<1>3. SetsSeen' /\ NodesSeen' /\ ThreadsSeen'
  BY <1>1, <1>2 DEF SetsSeen, NodesSeen, ThreadsSeen
<1>4. CASE test \in ByTask
  <2> DEFINE S == NumSockets(topo)
             q == CoresPerSocket(topo)
             b == topo.num_cpus_per_core
  <2>1. /\ S \in Nat \ {0} /\ q \in Nat \ {0} /\ b \in Nat \ {0} /\ NumCores(topo) = q * S
        /\ DOMAIN topo.sockets = 1 .. S
    <3>1. TopologyOK(topo) /\ Regular(topo)
      BY <1>4, TopologiesAssumption DEF AffinityType, Uniform
    <3> QED  BY <3>1, RegularNode
  <2>2. Len(aff_cpus') = 0 /\ NumCores(topo') = q * S /\ CoresPerSocket(topo') = q /\ NumSockets(topo') = S
    BY <1>1, <2>1
  <2>3. 0 < q * S /\ 0 \div q = 0 /\ 0 % q = 0 /\ 0 \div S = 0 /\ 0 % S = 0 /\ b * 0 = 0
    <3>1. 0 \div q = 0 /\ 0 % q = 0
      BY <2>1
    <3>2. 0 \div S = 0 /\ 0 % S = 0 /\ b * 0 = 0
      BY <2>1
    <3>3. q * 1 <= q * S
      BY <2>1, TimesMono
    <3> QED  BY <2>1, <3>1, <3>2, <3>3
  <2>4. Filled(InBlocks(topo))' /\ Filled(InTurn(topo))'
    BY <1>1, NoSeats DEF Filled
  <2>5. \A i \in DOMAIN topo.sockets : Cardinality(sockets'[i]) = 0
    BY <1>1, FS_EmptySet
  <2> HIDE DEF S, q, b
  <2>6. PerSocket' = q
    <3>1. job'.num_tasks = NumCores(topo)
      <4>1. Asks(topo, test) = AskCores(topo)
        BY <1>4 DEF Asks, ByTask, BySocket, BySet
      <4> QED  BY <1>1, <4>1 DEF AskCores, Ask
    <3> QED  BY <1>1, <3>1 DEF PerSocket, CoresPerSocket, q
  <2>7. FillingSocket' = 1
    BY <2>1, <2>2, <2>3, <2>6 DEF FillingSocket
  <2>8. 1 \in DOMAIN topo.sockets /\ 1 .. 1 - 1 = {}
    BY <2>1
  <2>9. BlocksSeen'
    <3>1. Len(aff_cpus') < NumCores(topo')
      BY <2>2, <2>3
    <3>2. Cardinality(sockets'[1]) = topo'.num_cpus_per_core * (Len(aff_cpus') % CoresPerSocket(topo'))
      BY <1>1, <2>2, <2>3, <2>5, <2>8 DEF b
    <3>3. cpu_set' = Cpus(topo') \ UNION {sockets'[i] : i \in 1 .. 1 - 1}
      BY <1>1, <2>8
    <3> DEFINE one == 1
    <3> HIDE DEF one
    <3>4. /\ FillingSocket' = one /\ 1 .. one - 1 = {}
          /\ Cardinality(sockets'[one]) = topo'.num_cpus_per_core * (Len(aff_cpus') % CoresPerSocket(topo'))
          /\ cpu_set' = Cpus(topo') \ UNION {sockets'[i] : i \in 1 .. one - 1}
      BY <2>7, <2>8, <3>2, <3>3 DEF one
    <3> QED  BY <2>4, <3>1, <3>4 DEF BlocksSeen
  <2>10. TurnsSeen'
    <3>1. Len(aff_cpus') < NumCores(topo')
      BY <2>2, <2>3
    <3>2. OrderOK'
      <4>1. Lines' = {}
        BY <1>1 DEF Lines
      <4> QED  BY <4>1 DEF OrderOK
    <3>3. \A i \in DOMAIN topo.sockets : ~(i <= 0)
      BY <2>1
    <3>4. \A i \in DOMAIN topo.sockets : Cardinality(sockets'[i]) = b * (0 + (IF i <= 0 THEN 1 ELSE 0))
      <4>1. b * (0 + 0) = 0
        BY <2>1
      <4> QED  BY <2>5, <3>3, <4>1
    <3>5. \A i \in DOMAIN topo'.sockets :
            Cardinality(sockets'[i]) = topo'.num_cpus_per_core *
              ((Len(aff_cpus') \div NumSockets(topo'))
                 + (IF i <= Len(aff_cpus') % NumSockets(topo') THEN 1 ELSE 0))
      BY <1>1, <2>2, <2>3, <3>4 DEF b
    <3> QED  BY <1>1, <2>4, <3>1, <3>2, <3>5 DEF TurnsSeen
  <2> QED  BY <1>3, <2>9, <2>10
<1>5. CASE test \notin ByTask
  BY <1>1, <1>3, <1>5 DEF BlocksSeen, TurnsSeen, ByTask
<1> QED  BY <1>4, <1>5

\* One line read: its test goes on, has come to its end or has failed.
LEMMA LineStep ==
  ASSUME AffinityType, AffinityType', Uniform, pc = "consume",
         SetsSeen, NodesSeen, ThreadsSeen, BlocksSeen, TurnsSeen, NEW set \in Reports,
         \/ ConsumeSet(set) \/ ConsumeSocketThread(set)
         \/ ConsumeConsecutive(set) \/ ConsumeAlternate(set) \/ ConsumeNuma(set)
  PROVE  Going(SetsSeen' /\ NodesSeen' /\ ThreadsSeen' /\ BlocksSeen' /\ TurnsSeen') \/ Ended \/ Refused
<1> DEFINE All == SetsSeen' /\ NodesSeen' /\ ThreadsSeen' /\ BlocksSeen' /\ TurnsSeen'
<1>1. test' = test /\ test \in Tests
  BY DEF AffinityType, ConsumeSet, ConsumeSocketThread, ConsumeConsecutive, ConsumeAlternate, ConsumeNuma, Read
<1>2. /\ test \notin BySet => SetsSeen'
      /\ test # "OneTaskPerNumaNode" => NodesSeen'
      /\ test \notin BySocket => ThreadsSeen'
      /\ test # "ConsecutiveSocketFilling" => BlocksSeen'
      /\ test # "AlternateSocketFilling" => TurnsSeen'
  BY <1>1 DEF SetsSeen, NodesSeen, ThreadsSeen, BlocksSeen, TurnsSeen
<1>3. CASE ConsumeSet(set)
  <2>1. test \in BySet
    BY <1>3 DEF ConsumeSet
  <2>2. NodesSeen' /\ ThreadsSeen' /\ BlocksSeen' /\ TurnsSeen'
    BY <1>1, <1>2, <2>1 DEF BySet, BySocket
  <2>3. Going(SetsSeen') \/ Refused
    BY <1>3, ConsumeSetStep
  <2> QED  BY <2>2, <2>3 DEF Going
<1>4. CASE ConsumeSocketThread(set)
  <2>1. test \in BySocket
    BY <1>4 DEF ConsumeSocketThread
  <2>2. SetsSeen' /\ NodesSeen' /\ BlocksSeen' /\ TurnsSeen'
    BY <1>1, <1>2, <2>1 DEF BySet, BySocket
  <2>3. Going(ThreadsSeen') \/ Refused
    BY <1>4, ConsumeSocketStep
  <2> QED  BY <2>2, <2>3 DEF Going
<1>5. CASE ConsumeNuma(set)
  <2>1. test = "OneTaskPerNumaNode"
    BY <1>5 DEF ConsumeNuma
  <2>2. SetsSeen' /\ ThreadsSeen' /\ BlocksSeen' /\ TurnsSeen'
    BY <1>2, <2>1 DEF BySet, BySocket
  <2>3. Going(NodesSeen') \/ Refused
    BY <1>5, ConsumeNumaStep
  <2> QED  BY <2>2, <2>3 DEF Going
<1>6. CASE ConsumeConsecutive(set)
  <2>1. test = "ConsecutiveSocketFilling" /\ Regular(topo)
    BY <1>6 DEF ConsumeConsecutive, Uniform, ByTask
  <2>2. SetsSeen' /\ NodesSeen' /\ ThreadsSeen' /\ TurnsSeen'
    BY <1>2, <2>1 DEF BySet, BySocket
  <2>3. Going(BlocksSeen') \/ Ended \/ Refused
    BY <1>6, <2>1, ConsumeConsecutiveStep
  <2> QED  BY <2>2, <2>3 DEF Going
<1>7. CASE ConsumeAlternate(set)
  <2>1. test = "AlternateSocketFilling" /\ Regular(topo)
    BY <1>7 DEF ConsumeAlternate, Uniform, ByTask
  <2>2. SetsSeen' /\ NodesSeen' /\ ThreadsSeen' /\ BlocksSeen'
    BY <1>2, <2>1 DEF BySet, BySocket
  <2>3. Going(TurnsSeen') \/ Ended \/ Refused
    BY <1>7, <2>1, ConsumeAlternateStep
  <2> QED  BY <2>2, <2>3 DEF Going
<1> QED  BY <1>3, <1>4, <1>5, <1>6, <1>7

\* The output has ended.
LEMMA EndStep ==
  ASSUME AffinityType, Uniform, pc = "consume",
         SetsSeen, NodesSeen, ThreadsSeen, BlocksSeen, TurnsSeen,
         EndSets \/ EndSocketThreads \/ EndNuma \/ ShortOutput
  PROVE  Ended \/ (pc' = "done" /\ result' \in {"wrong_count", "index_error"} /\ ~Placed')
<1>1. UNCHANGED <<topo, test, job, aff_cpus>> /\ job = Asks(topo, test)
  BY DEF AffinityType, EndSets, EndSocketThreads, EndNuma, ShortOutput
<1>2. Placed' <=> Placed
  BY <1>1, SameLines
<1>3. CASE EndSets
  <2>1. Decided /\ cpu_set' = cpu_set /\ pc' = "sanity"
    BY <1>1, <1>3, SetsDecided DEF EndSets
  <2> QED  BY <1>2, <2>1 DEF Decided, Ended
<1>4. CASE EndSocketThreads
  <2>1. (cpu_set' = {} <=> Placed) /\ pc' = "sanity"
    BY <1>4, SocketsDecided DEF EndSocketThreads
  <2> QED  BY <1>2, <2>1 DEF Decided, Ended
<1>5. CASE EndNuma
  <2>1. cpu_set' = cpu_set /\ (Placed <=> Len(aff_cpus) = Cardinality(topo.numa_nodes) /\ cpu_set = {})
    BY <1>1, <1>5, NodesDecided DEF EndNuma
  <2>2. CASE Len(aff_cpus) # Cardinality(topo.numa_nodes)
    BY <1>2, <1>5, <2>1, <2>2 DEF EndNuma
  <2>3. CASE Len(aff_cpus) = Cardinality(topo.numa_nodes)
    BY <1>2, <1>5, <2>1, <2>3 DEF EndNuma, Ended, Decided
  <2> QED  BY <2>2, <2>3
<1>6. CASE ShortOutput
  <2>1. test \in ByTask /\ Regular(topo) /\ pc' = "done" /\ result' = "index_error"
    BY <1>6 DEF ShortOutput, Uniform
  <2>2. CASE test = "ConsecutiveSocketFilling"
    <3>1. Len(aff_cpus) < NumCores(topo) /\ Filled(InBlocks(topo))
      BY <2>2 DEF BlocksSeen
    <3>2. ~Placed
      BY <1>1, <2>1, <3>1, TooShort
    <3> QED  BY <1>2, <2>1, <3>2
  <2>3. CASE test = "AlternateSocketFilling"
    <3>1. Len(aff_cpus) < NumCores(topo) /\ Filled(InTurn(topo))
      BY <2>3 DEF TurnsSeen
    <3>2. ~Placed
      BY <1>1, <2>1, <3>1, TooShort
    <3> QED  BY <1>2, <2>1, <3>2
  <2> QED  BY <2>1, <2>2, <2>3 DEF ByTask
<1> QED  BY <1>3, <1>4, <1>5, <1>6

\* AffinityInv holds at the start ...
LEMMA AffinityInvStarts == Init => AffinityInv
  BY DEF Init, AffinityInv, PassMeansPlaced, FailMeansMisplaced

\* ... and every step keeps it.
LEMMA AffinityInvStep == AffinityType /\ AffinityType' /\ AffinityInv /\ [Next]_vars => AffinityInv'
<1> SUFFICES ASSUME AffinityType, AffinityType', AffinityInv, [Next]_vars, Uniform'
             PROVE  AffinityInv'
  BY DEF AffinityInv
<1>1. topo' = topo /\ test' = test
  BY DEF Next, vars, Skip, Setup, EndSets, EndSocketThreads, EndNuma, ShortOutput, assert_consumed_cpu_set,
         Done, ConsumeSet, ConsumeSocketThread, ConsumeConsecutive, ConsumeAlternate, ConsumeNuma, Read
<1>2. Uniform
  BY <1>1 DEF Uniform
<1>3. /\ pc = "setup" => sockets = [i \in DOMAIN topo.sockets |-> {}]
      /\ pc = "consume" => SetsSeen /\ NodesSeen /\ ThreadsSeen /\ BlocksSeen /\ TurnsSeen
      /\ pc = "sanity" => Decided
      /\ PassMeansPlaced /\ FailMeansMisplaced
  BY <1>2 DEF AffinityInv
<1>4. ASSUME pc' # "done"  PROVE result' = "none" /\ PassMeansPlaced' /\ FailMeansMisplaced'
  BY <1>4 DEF AffinityType, PassMeansPlaced, FailMeansMisplaced
<1>5. ASSUME Ended  PROVE AffinityInv'
  BY <1>4, <1>5 DEF Ended, AffinityInv
<1>6. CASE Skip
  BY <1>6 DEF Skip, AffinityInv, PassMeansPlaced, FailMeansMisplaced
<1>7. CASE Setup
  <2>1. pc = "setup" /\ pc' = "consume"
    BY <1>7 DEF Setup
  <2>2. SetsSeen' /\ NodesSeen' /\ ThreadsSeen' /\ BlocksSeen' /\ TurnsSeen'
    BY <1>2, <1>3, <1>7, <2>1, SetupSees
  <2> QED  BY <1>4, <2>1, <2>2 DEF AffinityInv
<1>8. CASE EndSets \/ EndSocketThreads \/ EndNuma \/ ShortOutput
  <2>1. pc = "consume"
    BY <1>8 DEF EndSets, EndSocketThreads, EndNuma, ShortOutput
  <2>2. Ended \/ (pc' = "done" /\ result' \in {"wrong_count", "index_error"} /\ ~Placed')
    BY <1>2, <1>3, <1>8, <2>1, EndStep
  <2> QED  BY <1>5, <2>2 DEF AffinityInv, PassMeansPlaced, FailMeansMisplaced
<1>9. CASE assert_consumed_cpu_set
  <2>1. /\ UNCHANGED <<topo, test, job, aff_cpus>> /\ Decided
        /\ pc' = "done" /\ result' = IF cpu_set = {} THEN "pass" ELSE "not_consumed"
    BY <1>3, <1>9 DEF assert_consumed_cpu_set
  <2>2. Placed' <=> Placed
    BY <2>1, SameLines
  <2> QED  BY <2>1, <2>2 DEF Decided, AffinityInv, PassMeansPlaced, FailMeansMisplaced
<1>10. ASSUME NEW set \in Reports,
              \/ ConsumeSet(set) \/ ConsumeSocketThread(set)
              \/ ConsumeConsecutive(set) \/ ConsumeAlternate(set) \/ ConsumeNuma(set)
       PROVE  AffinityInv'
  <2>1. pc = "consume"
    BY <1>10 DEF ConsumeSet, ConsumeSocketThread, ConsumeConsecutive, ConsumeAlternate, ConsumeNuma, Read
  <2>2. Going(SetsSeen' /\ NodesSeen' /\ ThreadsSeen' /\ BlocksSeen' /\ TurnsSeen') \/ Ended \/ Refused
    BY <1>2, <1>3, <1>10, <2>1, LineStep
  <2>3. CASE Going(SetsSeen' /\ NodesSeen' /\ ThreadsSeen' /\ BlocksSeen' /\ TurnsSeen')
    BY <1>4, <2>3 DEF Going, AffinityInv
  <2>4. CASE Refused
    BY <2>4 DEF Refused, AffinityInv, PassMeansPlaced, FailMeansMisplaced
  <2> QED  BY <1>5, <2>2, <2>3, <2>4
<1>11. CASE Done \/ UNCHANGED vars
  <2>1. UNCHANGED vars
    BY <1>11 DEF Done
  <2>2. (Fits' <=> Fits) /\ (Placed' <=> Placed)
    BY <2>1, SameLines DEF vars
  <2>3. /\ SetsSeen' <=> SetsSeen
        /\ NodesSeen' <=> NodesSeen
        /\ ThreadsSeen' <=> ThreadsSeen
    BY <2>1 DEF vars, SetsSeen, NodesSeen, ThreadsSeen, Sound, Unseen
  <2>4. BlocksSeen' <=> BlocksSeen
    BY <2>1 DEF vars, BlocksSeen, Filled, FillingSocket, PerSocket
  <2>5. TurnsSeen' <=> TurnsSeen
    <3>1. OrderOK' <=> OrderOK
      BY <2>1 DEF vars, OrderOK, Batch, PerSocket, Lines
    <3> QED  BY <2>1, <3>1 DEF vars, TurnsSeen, Filled
  <2>6. Decided' <=> Decided
    BY <2>1, <2>2 DEF vars, Decided
  <2>7. PassMeansPlaced' /\ FailMeansMisplaced'
    BY <1>3, <2>1, <2>2 DEF vars, PassMeansPlaced, FailMeansMisplaced
  <2> QED  BY <1>3, <2>1, <2>3, <2>4, <2>5, <2>6, <2>7 DEF vars, AffinityInv
<1> QED  BY <1>6, <1>7, <1>8, <1>9, <1>10, <1>11 DEF Next

\* A test that passes has seen the placement its description promises, on every
\* node, for every output of any length; for the two tests that fill sockets
\* with tasks, on nodes whose cores and sockets are of one size.
THEOREM PassProved == Spec => [](Uniform => PassMeansPlaced)
<1>1. AffinityType /\ AffinityInv => (Uniform => PassMeansPlaced)
  BY DEF AffinityInv
<1> QED  BY <1>1, AffinityTypeStarts, AffinityTypeStep, AffinityInvStarts, AffinityInvStep, PTL DEF Spec

\* A test fails only on an output that is not that placement, and a line is
\* refused only when no output that starts so is.
THEOREM FailProved == Spec => [](Uniform => FailMeansMisplaced)
<1>1. AffinityType /\ AffinityInv => (Uniform => FailMeansMisplaced)
  BY DEF AffinityInv
<1> QED  BY <1>1, AffinityTypeStarts, AffinityTypeStep, AffinityInvStarts, AffinityInvStep, PTL DEF Spec

-----------------------------------------------------------------------------
(* The system integration checks, of any systems. *)

ChecksSpec == ChecksInit /\ [][ChecksNext]_checkVars

\* What a check looks for in the output of its command.
Looks(c, command, expected, not_expected) ==
  c.command = command /\ c.expected = expected /\ c.not_expected = not_expected

Shape(c) ==
  \/ Looks(c, "or FAILED", NoSearch, Search("FAILED", "stdout")) /\ c.wanted = TRUE
  \/ Looks(c, "or FAILED", Search("FAILED", "stdout"), NoSearch) /\ c.wanted = FALSE
  \/ Looks(c, "show", Search("found", "stdout"), NoSearch) /\ c.wanted = TRUE
  \/ Looks(c, "show", NoSearch, Search("found", "stdout")) /\ c.wanted = FALSE
  \/ Looks(c, "timeout", NoSearch, Killed) /\ c.wanted = TRUE
  \/ Looks(c, "late", Killed, NoSearch) /\ c.wanted = TRUE
  \/ c.name \in Blind

\* What the factory makes of its arguments.
LEMMA CheckIs ==
  ASSUME NEW names, NEW command, NEW expected, NEW not_expected, NEW wanted, NEW systems, NEW where,
         NEW c \in Check(names, command, expected, not_expected, wanted, systems, where)
  PROVE  Looks(c, command, expected, not_expected) /\ c.wanted = wanted /\ c.name \in names
<1> DEFINE v == make_valid_systems(systems, where)
<1> HIDE DEF v
<1>1. PICK n \in names :
        c = [name |-> n, command |-> command, expected |-> expected, not_expected |-> not_expected,
             wanted |-> wanted, valid_systems |-> v]
  BY DEF Check, v
<1> QED  BY <1>1 DEF Looks

\* Two calls of the factory that have no name of their own.
LEMMA MadeInPlace ==
  ASSUME NEW names, NEW systems, NEW where
  PROVE  /\ \A c \in Check(names, "timeout", NoSearch, Killed, TRUE, systems, where) : Shape(c)
         /\ \A c \in Check(names, "or FAILED", NoSearch, Search("FAILED", "stdout"), TRUE,
                          systems, where) : Shape(c)
<1>1. ASSUME NEW c \in Check(names, "timeout", NoSearch, Killed, TRUE, systems, where)  PROVE Shape(c)
  <2>1. Looks(c, "timeout", NoSearch, Killed) /\ c.wanted = TRUE
    BY CheckIs, Zenon
  <2> QED  BY <2>1, Zenon DEF Shape
<1>2. ASSUME NEW c \in Check(names, "or FAILED", NoSearch, Search("FAILED", "stdout"), TRUE, systems, where)
      PROVE  Shape(c)
  <2>1. Looks(c, "or FAILED", NoSearch, Search("FAILED", "stdout")) /\ c.wanted = TRUE
    BY CheckIs, Zenon
  <2> QED  BY <2>1, Zenon DEF Shape
<1> QED  BY <1>1, <1>2, Zenon

\* The factory makes no check of another shape.
LEMMA ShapesMade == \A c \in create_checks : Shape(c)
<1>1. ASSUME NEW names, NEW systems, NEW c \in OrFailed(names, systems)  PROVE Shape(c)
  <2>1. c \in Check(names, "or FAILED", NoSearch, Search("FAILED", "stdout"), TRUE, systems, {})
    BY DEF OrFailed
  <2>2. Looks(c, "or FAILED", NoSearch, Search("FAILED", "stdout")) /\ c.wanted = TRUE
    BY <2>1, CheckIs, Zenon
  <2> QED  BY <2>2, Zenon DEF Shape
<1>2. ASSUME NEW names, NEW systems, NEW c \in FailedExpected(names, systems)  PROVE Shape(c)
  <2>1. c \in Check(names, "or FAILED", Search("FAILED", "stdout"), NoSearch, FALSE, systems, {})
    BY DEF FailedExpected
  <2>2. Looks(c, "or FAILED", Search("FAILED", "stdout"), NoSearch) /\ c.wanted = FALSE
    BY <2>1, CheckIs, Zenon
  <2> QED  BY <2>2, Zenon DEF Shape
<1>3. ASSUME NEW names, NEW systems, NEW c \in Shows(names, systems)  PROVE Shape(c)
  <2>1. c \in Check(names, "show", Search("found", "stdout"), NoSearch, TRUE, systems, {})
    BY DEF Shows
  <2>2. Looks(c, "show", Search("found", "stdout"), NoSearch) /\ c.wanted = TRUE
    BY <2>1, CheckIs, Zenon
  <2> QED  BY <2>2, Zenon DEF Shape
<1>4. ASSUME NEW names, NEW systems, NEW c \in ShowsNot(names, systems)  PROVE Shape(c)
  <2>1. c \in Check(names, "show", NoSearch, Search("found", "stdout"), FALSE, systems, {})
    BY DEF ShowsNot
  <2>2. Looks(c, "show", NoSearch, Search("found", "stdout")) /\ c.wanted = FALSE
    BY <2>1, CheckIs, Zenon
  <2> QED  BY <2>2, Zenon DEF Shape
<1>5. ASSUME NEW c \in SLEEP  PROVE Shape(c)
  <2>1. \/ c \in Check({"timeout-completes"}, "timeout", Search("", "stderr"), NoSearch, TRUE, DESC, {})
        \/ c \in Check({"timeout-signal-term"}, "late", Killed, NoSearch, TRUE, DESC, {})
    BY <1>5, Zenon DEF SLEEP
  <2>2. c.name \in {"timeout-completes"} \/ (Looks(c, "late", Killed, NoSearch) /\ c.wanted = TRUE)
    BY <2>1, CheckIs, Zenon
  <2> QED  BY <2>2, Zenon DEF Shape, Blind
<1>6. ASSUME NEW c \in FS  PROVE Shape(c)
  <2>1. \/ c \in Check({"df-command-timeout"}, "timeout", NoSearch, Killed, TRUE, DESC, {})
        \/ c \in Check({"fs-no-full"}, "timeout", Search("", "stdout"), Killed, FALSE, DESC, {})
        \/ \E names, systems : c \in OrFailed(names, systems)
    BY <1>6, Zenon DEF FS
  <2>2. CASE c \in Check({"df-command-timeout"}, "timeout", NoSearch, Killed, TRUE, DESC, {})
    BY <2>2, MadeInPlace, Zenon
  <2>3. CASE c \in Check({"fs-no-full"}, "timeout", Search("", "stdout"), Killed, FALSE, DESC, {})
    <3>1. c.name \in {"fs-no-full"}
      BY <2>3, CheckIs, Zenon
    <3> QED  BY <3>1, Zenon DEF Shape, Blind
  <2> QED  BY <1>1, <2>1, <2>2, <2>3, Zenon
<1>7. ASSUME NEW c \in LDAP  PROVE Shape(c)
  <2>1. \/ c \in Check({"ldap-getent-hosts"}, "partial", Search("found", "stdout"),
                       Search("sending signal", "stdout"), TRUE, DESC, {})
        \/ \E names, systems : c \in Shows(names, systems)
    BY <1>7, Zenon DEF LDAP
  <2>2. c.name \in {"ldap-getent-hosts"} \/ Shape(c)
    BY <1>3, <2>1, CheckIs, Zenon
  <2> QED  BY <2>2, Zenon DEF Shape, Blind
<1>8. ASSUME NEW c \in SLURM  PROVE Shape(c)
  <2>1. \/ c \in Check({"slurm-config-exists"}, "or FAILED", NoSearch, Search("FAILED", "stdout"), TRUE,
                       DESC, {"+remote"})
        \/ \E names, systems : c \in OrFailed(names, systems)
        \/ \E names, systems : c \in Shows(names, systems)
    BY <1>8, Zenon DEF SLURM
  <2>2. CASE c \in Check({"slurm-config-exists"}, "or FAILED", NoSearch, Search("FAILED", "stdout"), TRUE,
                         DESC, {"+remote"})
    BY <2>2, MadeInPlace, Zenon
  <2> QED  BY <1>1, <1>3, <2>1, <2>2, Zenon
<1>9. \A c \in PING \cup PROXY \cup DNS \cup NETIFACE : Shape(c)
  BY <1>1, <1>2, <1>3 DEF PING, PROXY, DNS, NETIFACE
<1>10. \A c \in OSINSTALL \cup OSSERVICE \cup TOOLS \cup MOUNTS : Shape(c)
  BY <1>1, <1>2, <1>3 DEF OSINSTALL, OSSERVICE, TOOLS, MOUNTS
<1>11. \A c \in VSBASE \cup VSERVICES \cup Libraries \cup Workarounds : Shape(c)
  BY <1>1, <1>3, <1>4 DEF VSBASE, VSERVICES, Libraries, Workarounds
<1> HIDE DEF Shape
<1> QED  BY <1>5, <1>6, <1>7, <1>8, <1>9, <1>10, <1>11 DEF create_checks

\* What is judged is what the command has written.
ChecksInv ==
  /\ check \in create_checks
  /\ machine \in [there : BOOLEAN, tool : {"works", "missing", "hangs"}]
  /\ phase # "end" => verdict = "none"
  /\ phase = "sanity" =>
       output = Writes /\ (machine.tool = "hangs" => check.command \in UnderTimeout)
  /\ FaultFound

\* A check that passes has found its pattern, or has not found what must not be.
LEMMA IsFound ==
  ASSUME NEW what, NEW where, what # "" /\ what # "nothing", Validated
  PROVE  /\ check.expected = Search(what, where) => <<what, where>> \in output
         /\ check.not_expected = Search(what, where) => <<what, where>> \notin output
<1>1. Search(what, where).what = what /\ Search(what, where).where = where
  BY DEF Search
<1> QED  BY <1>1 DEF Validated, Found

\* What the machine has, and what the description says it has.
LEMMA IsThere ==
  ASSUME check.command \in {"or FAILED", "show"}, machine.tool \in {"works", "missing", "hangs"},
         machine.there \in BOOLEAN, machine.tool = "hangs" => check.command \in UnderTimeout
  PROVE  /\ HasIt /\ check.wanted = TRUE => AsDescribed
         /\ ~HasIt /\ check.wanted = FALSE => AsDescribed \/ (~check.wanted /\ machine.tool = "missing")
<1>1. machine.tool # "hangs"
  BY DEF UnderTimeout
<1>2. AsDescribed <=> (machine.there = check.wanted)
  BY <1>1 DEF AsDescribed
<1>3. HasIt /\ check.wanted = TRUE => machine.there = check.wanted
  BY Zenon DEF HasIt
<1>4. ~HasIt => ~machine.there \/ machine.tool = "missing"
  BY <1>1 DEF HasIt
<1>5. ~machine.there /\ check.wanted = FALSE => machine.there = check.wanted
  BY Zenon
<1>6. check.wanted = FALSE => ~check.wanted
  BY Zenon
<1> QED  BY <1>2, <1>3, <1>4, <1>5, <1>6, Zenon

\* A check that passes, and is not blind, is as described.
LEMMA PassAsDescribed ==
  ASSUME check \in create_checks, machine \in [there : BOOLEAN, tool : {"works", "missing", "hangs"}],
         output = Writes, machine.tool = "hangs" => check.command \in UnderTimeout, Validated,
         check.name \notin Blind
  PROVE  AsDescribed \/ (~check.wanted /\ machine.tool = "missing")
<1> DEFINE Expect == AsDescribed \/ (~check.wanted /\ machine.tool = "missing")
<1>1. Shape(check) /\ machine.there \in BOOLEAN /\ machine.tool \in {"works", "missing", "hangs"}
  BY ShapesMade
<1>2. ASSUME Looks(check, "or FAILED", NoSearch, Search("FAILED", "stdout"))  PROVE check.wanted = TRUE => Expect
  <2>1. check.command = "or FAILED" /\ <<"FAILED", "stdout">> \notin output
    BY <1>2, IsFound DEF Looks
  <2>2. HasIt
    BY <2>1 DEF Writes
  <2> QED  BY <1>1, <2>1, <2>2, IsThere
<1>3. ASSUME Looks(check, "or FAILED", Search("FAILED", "stdout"), NoSearch)  PROVE check.wanted = FALSE => Expect
  <2>1. check.command = "or FAILED" /\ <<"FAILED", "stdout">> \in output
    BY <1>3, IsFound DEF Looks
  <2>2. ~HasIt
    BY <2>1 DEF Writes
  <2> QED  BY <1>1, <2>1, <2>2, IsThere
<1>4. ASSUME Looks(check, "show", Search("found", "stdout"), NoSearch)  PROVE check.wanted = TRUE => Expect
  <2>1. check.command = "show" /\ <<"found", "stdout">> \in output
    BY <1>4, IsFound DEF Looks
  <2>2. HasIt
    BY <2>1 DEF Writes
  <2> QED  BY <1>1, <2>1, <2>2, IsThere
<1>5. ASSUME Looks(check, "show", NoSearch, Search("found", "stdout"))  PROVE check.wanted = FALSE => Expect
  <2>1. check.command = "show" /\ <<"found", "stdout">> \notin output
    BY <1>5, IsFound DEF Looks
  <2>2. ~HasIt
    BY <2>1 DEF Writes
  <2> QED  BY <1>1, <2>1, <2>2, IsThere
<1>6. ASSUME Looks(check, "timeout", NoSearch, Killed)  PROVE check.wanted = TRUE => Expect
  <2>1. check.command = "timeout" /\ <<"sending signal", "stderr">> \notin output
    BY <1>6, IsFound DEF Looks, Killed
  <2>2. machine.tool # "hangs"
    BY <2>1 DEF Writes
  <2>3. check.wanted = TRUE => check.wanted
    BY Zenon
  <2>4. check.wanted => AsDescribed
    BY <2>1, <2>2 DEF AsDescribed
  <2> QED  BY <2>3, <2>4
<1>7. ASSUME Looks(check, "late", Killed, NoSearch)  PROVE Expect
  <2>1. check.command = "late" /\ <<"sending signal", "stderr">> \in output
    BY <1>7, IsFound DEF Looks, Killed
  <2>2. machine.tool # "missing"
    BY <2>1 DEF Writes
  <2> QED  BY <2>1, <2>2 DEF AsDescribed
<1> HIDE DEF Expect
<1>8. Expect
  BY <1>1, <1>2, <1>3, <1>4, <1>5, <1>6, <1>7, Zenon DEF Shape
<1> QED  BY <1>8 DEF Expect

\* Every step keeps ChecksInv.
LEMMA ChecksInvStep == ChecksInv /\ [ChecksNext]_checkVars => ChecksInv'
<1> SUFFICES ASSUME ChecksInv, [ChecksNext]_checkVars  PROVE ChecksInv'
  OBVIOUS
<1>1. CASE check_system
  BY <1>1 DEF check_system, To, ChecksInv, FaultFound
<1>2. CASE set_command_options
  BY <1>2 DEF set_command_options, To, ChecksInv, FaultFound
<1>3. CASE RunCommand
  <2>1. UNCHANGED <<check, machine>> /\ (phase' = "sanity" \/ phase' = "end") /\ verdict' # "pass"
        /\ (phase' # "end" => verdict' = "none")
    BY <1>3 DEF RunCommand, To
  <2>2. phase' = "sanity" => output' = Writes /\ (machine.tool = "hangs" => check.command \in UnderTimeout)
    BY <1>3 DEF RunCommand, To
  <2>3. Writes' = Writes
    BY <2>1 DEF Writes, HasIt
  <2> QED  BY <2>1, <2>2, <2>3 DEF ChecksInv, FaultFound
<1>4. CASE validate
  <2>1. UNCHANGED <<check, machine, output>> /\ phase' = "end" /\ (verdict' = "pass" => Validated)
    BY <1>4 DEF validate, To
  <2>2. verdict' = "pass" /\ check.name \notin Blind =>
          AsDescribed \/ (~check.wanted /\ machine.tool = "missing")
    BY <1>4, <2>1, PassAsDescribed DEF validate, ChecksInv
  <2>3. AsDescribed' <=> AsDescribed
    BY <2>1 DEF AsDescribed
  <2> QED  BY <2>1, <2>2, <2>3 DEF ChecksInv, FaultFound
<1>5. CASE ChecksOver \/ UNCHANGED checkVars
  <2>1. UNCHANGED checkVars
    BY <1>5 DEF ChecksOver
  <2>2. (AsDescribed' <=> AsDescribed) /\ Writes' = Writes
    BY <2>1 DEF checkVars, AsDescribed, Writes, HasIt
  <2> QED  BY <2>1, <2>2 DEF checkVars, ChecksInv, FaultFound
<1> QED  BY <1>1, <1>2, <1>3, <1>4, <1>5 DEF ChecksNext

\* A check that passes means what its description says, on every system and
\* machine, whichever of the checks of the repository are selected.
THEOREM FaultsProved ==
  ASSUME Selected \subseteq create_checks
  PROVE  ChecksSpec => []FaultFound
<1>1. ChecksInit => ChecksInv
  BY DEF ChecksInit, ChecksInv, FaultFound
<1>2. ChecksInv => FaultFound
  BY DEF ChecksInv
<1> QED  BY <1>1, <1>2, ChecksInvStep, PTL DEF ChecksSpec

-----------------------------------------------------------------------------
(* The tests of checks/: any classes, partitions and environments.  What a  *)
(* case comes to is settled case by case: not by the order the cases run    *)
(* in, nor by which of them fail, skip or are blocked.                      *)

TestsSpec == TestsInit /\ [][TestsNext]_testVars

\* A case that has been in step c has found the cases it uses ready.
UsedReady(c) == Hook(c).at \in LoadPoints \/ \A d \in Used(c) : end[d] = "passed"

SessionInv ==
  /\ IsSession(session) /\ Described(session)
  /\ DOMAIN next = session /\ DOMAIN held = session /\ DOMAIN end = session
  /\ \A c \in session : next[c] \in Nat \ {0} /\ next[c] <= Len(Steps(c)) + 1

\* What a case holds is what the steps behind it have left.
HeldInv ==
  \A c \in session :
    /\ held[c] = HeldAt(c, next[c])
    /\ \A j \in 1..(next[c] - 1) : Goes(c, j)

EndInv ==
  \A c \in session :
    /\ end[c] = "passed" => next[c] = Len(Steps(c)) + 1
    /\ end[c] = "raised" => next[c] \in Reached(c) /\ UsedReady(c)

TestsInv == SessionInv /\ HeldInv /\ EndInv

Advance(c) ==
  /\ next[c] <= Len(Steps(c)) /\ Goes(c, next[c])
  /\ next' = [next EXCEPT ![c] = @ + 1]
  /\ held' = [held EXCEPT ![c] = @ \cup Leaves(c, Hook(c))]
  /\ UNCHANGED <<session, end>>

\* A step adds what it leaves to what is held.
LEMMA HeldNext ==
  ASSUME NEW c, NEW k \in Nat \ {0}
  PROVE  HeldAt(c, k + 1) = HeldAt(c, k) \cup Leaves(c, Steps(c)[k])
<1> DEFINE L(j) == Leaves(c, Steps(c)[j])
<1>1. 1..((k + 1) - 1) = (1..(k - 1)) \cup {k}
  OBVIOUS
<1> HIDE DEF L
<1>2. UNION {L(j) : j \in 1..((k + 1) - 1)} = (UNION {L(j) : j \in 1..(k - 1)}) \cup L(k)
  BY ONLY <1>1
<1> QED  BY <1>2 DEF HeldAt, L

\* Who was ready stays so while no case ends.
LEMMA HoldsStill ==
  ASSUME UNCHANGED <<session, end>>, NEW c
  PROVE  (\A d \in Used(c) : end[d] = "passed")' <=> (\A d \in Used(c) : end[d] = "passed")
BY DEF Used

\* Who may run has found the cases it uses ready.
LEMMA RunsReady ==
  ASSUME NEW c \in session, MayRun(c)
  PROVE  UsedReady(c) /\ end[c] = "running" /\ next[c] <= Len(Steps(c))
<1>1. CASE Loaded
  BY <1>1 DEF MayRun, UsedReady, Steps
<1>2. CASE ~Loaded
  <2>1. PICK d \in session : IsLoading(d)
    BY <1>2 DEF Loaded
  <2>2. IsLoading(Loading)
    BY <2>1 DEF Loading
  <2> QED  BY <1>2, <2>2 DEF MayRun, IsLoading, UsedReady, Steps
<1> QED  BY <1>1, <1>2

\* What is missing is what the case lacks, whatever else happens.
LEMMA MissingIs ==
  ASSUME TestsInv, NEW c \in session, UsedReady(c), next[c] <= Len(Steps(c))
  PROVE  Missing(c) = Lacks(session, c, next[c])
<1> DEFINE h == Hook(c)
           k == next[c]
           P == {a \in h.parents : \A d \in Sources(c) : d.test # a[1] \/ a[2] \notin held[d]}
           Q == {a \in h.parents : \A d \in SourcesOf(session, c) :
                   d.test # a[1] \/ a[2] \notin HeldAt(d, Len(Steps(d)) + 1)}
<1>1. /\ held[c] = HeldAt(c, k) /\ h = Steps(c)[k] /\ k \in 1..Len(Steps(c))
      /\ Sources(c) = SourcesOf(session, c) /\ Sources(c) \subseteq Used(c)
  <2>1. Len(Steps(c)) \in Nat /\ k \in Nat \ {0}
    BY DEF TestsInv, SessionInv, Described
  <2>2. Sources(c) = SourcesOf(session, c) /\ Sources(c) \subseteq Used(c)
    BY DEF Sources, SourcesOf, Used
  <2> QED  BY <2>1, <2>2 DEF TestsInv, HeldInv, Hook, Steps
<1>2. P = Q
  <2>1. CASE h.at \in LoadPoints
    <3>1. h.parents = {}
      BY <1>1, <2>1 DEF TestsInv, SessionInv, Described
    <3> QED  BY <3>1
  <2>2. CASE \A d \in Used(c) : end[d] = "passed"
    <3>1. \A d \in Used(c) : held[d] = HeldAt(d, Len(Steps(d)) + 1)
      BY <2>2 DEF Used, TestsInv, HeldInv, EndInv
    <3> QED  BY <1>1, <3>1
  <2> QED  BY <2>1, <2>2 DEF UsedReady
<1>3. Missing(c) = (h.reads \ held[c]) \cup P
                     \cup (IF h.rows = AnyRow \/ h.rows \cap held[c] # {} THEN {} ELSE {"row"})
  BY DEF Missing
<1>4. Lacks(session, c, k) = (h.reads \ HeldAt(c, k)) \cup Q
                     \cup (IF h.rows = AnyRow \/ h.rows \cap HeldAt(c, k) # {} THEN {} ELSE {"row"})
  BY <1>1 DEF Lacks
<1> HIDE DEF P, Q
<1> QED  BY <1>1, <1>2, <1>3, <1>4

\* A hook that runs and a stage advance their case by one step that does not skip.
LEMMA StepAdvances ==
  ASSUME TestsInv, NEW c \in session, RunHook(c) \/ RunStage(c)
  PROVE  Advance(c) /\ MayRun(c)
<1>1. held[c] = HeldAt(c, next[c]) /\ Hook(c) = Steps(c)[next[c]]
  BY DEF TestsInv, HeldInv, Hook, Steps
<1>2. MayRun(c)
  BY DEF RunHook, RunStage, IsHook
<1>3. next[c] <= Len(Steps(c))
  BY <1>2, RunsReady
<1>4. CASE RunHook(c)
  <2>1. Hook(c).at \notin Stages /\ ~Skips(c)
    BY <1>4 DEF RunHook, IsHook
  <2>2. Goes(c, next[c])
    BY <1>1, <2>1 DEF Goes, Skips
  <2>3. Leaves(c, Hook(c)) = Hook(c).writes \cup Hook(c).sets
    BY <2>1 DEF Leaves
  <2>4. held' = [held EXCEPT ![c] = @ \cup Leaves(c, Hook(c))]
    <3>1. held' = [held EXCEPT ![c] = @ \cup Hook(c).sets \cup Hook(c).writes]
      BY <1>4 DEF RunHook
    <3>2. held[c] \cup Hook(c).sets \cup Hook(c).writes = held[c] \cup Leaves(c, Hook(c))
      BY <2>3
    <3> QED  BY <3>1, <3>2
  <2> QED  BY <1>2, <1>3, <1>4, <2>2, <2>4 DEF RunHook, Advance
<1>5. CASE RunStage(c)
  <2>1. Hook(c).at \in Stages
    BY <1>5 DEF RunStage
  <2>2. Goes(c, next[c])
    BY <1>1, <2>1 DEF Goes
  <2>3. Leaves(c, Hook(c)) = Hook(c).writes \cup (IF Hook(c).at = "setup" THEN Facts(c) ELSE {})
    BY <2>1 DEF Leaves
  <2>4. held' = [held EXCEPT ![c] = @ \cup Leaves(c, Hook(c))]
    <3>1. held' = [held EXCEPT ![c] = @ \cup Hook(c).writes
                                        \cup IF Hook(c).at = "setup" THEN Facts(c) ELSE {}]
      BY <1>5 DEF RunStage
    <3>2. held[c] \cup Hook(c).writes \cup (IF Hook(c).at = "setup" THEN Facts(c) ELSE {})
            = held[c] \cup Leaves(c, Hook(c))
      BY <2>3
    <3> QED  BY <3>1, <3>2
  <2> QED  BY <1>2, <1>3, <1>5, <2>2, <2>4 DEF RunStage, Advance
<1> QED  BY <1>4, <1>5

\* The session and what is described of it stay.
LEMMA SameSession ==
  ASSUME TestsInv, UNCHANGED session
  PROVE  (IsSession(session) /\ Described(session))' /\ \A c \in session : Len(Steps(c)) \in Nat
BY DEF TestsInv, SessionInv, Described

\* A case that advances keeps the invariant: it has not passed, so that nobody is
\* using it.
LEMMA AdvanceKeeps ==
  ASSUME TestsInv, NEW c \in session, Advance(c), end[c] = "running"
  PROVE  TestsInv'
<1>1. /\ session' = session /\ end' = end
      /\ next' = [next EXCEPT ![c] = next[c] + 1]
      /\ held' = [held EXCEPT ![c] = held[c] \cup Leaves(c, Hook(c))]
      /\ next[c] <= Len(Steps(c)) /\ Goes(c, next[c])
  BY DEF Advance
<1>2. /\ \A d \in session : next[d] \in Nat \ {0} /\ next[d] <= Len(Steps(d)) + 1
      /\ DOMAIN next = session /\ DOMAIN held = session /\ DOMAIN end = session
      /\ Len(Steps(c)) \in Nat
  BY SameSession, <1>1 DEF TestsInv, SessionInv
<1>3. \A d \in session : d # c => next'[d] = next[d] /\ held'[d] = held[d]
  BY <1>1, <1>2
<1>4. next'[c] = next[c] + 1 /\ held'[c] = held[c] \cup Leaves(c, Hook(c))
  BY <1>1, <1>2
<1>5. SessionInv'
  <2>1. DOMAIN next' = session' /\ DOMAIN held' = session' /\ DOMAIN end' = session'
    BY <1>1, <1>2
  <2>2. \A d \in session : next'[d] \in Nat \ {0} /\ next'[d] <= Len(Steps(d)) + 1
    BY <1>1, <1>2, <1>3, <1>4
  <2> QED  BY <1>1, <2>1, <2>2, SameSession DEF SessionInv
<1>6. HeldInv'
  <2>1. held'[c] = HeldAt(c, next'[c])
    <3>1. held[c] = HeldAt(c, next[c]) /\ Hook(c) = Steps(c)[next[c]]
      BY DEF TestsInv, HeldInv, Hook, Steps
    <3> QED  BY <1>2, <1>4, <3>1, HeldNext
  <2>2. \A j \in 1..(next'[c] - 1) : Goes(c, j)
    <3>1. \A j \in 1..(next[c] - 1) : Goes(c, j)
      BY DEF TestsInv, HeldInv
    <3>2. \A j \in 1..((next[c] + 1) - 1) : j \in 1..(next[c] - 1) \/ j = next[c]
      BY <1>2
    <3> QED  BY <1>1, <1>4, <3>1, <3>2
  <2> QED  BY <1>1, <1>3, <2>1, <2>2 DEF TestsInv, HeldInv
<1>7. EndInv'
  <2>1. \A d \in session : d # c => (UsedReady(d)' <=> UsedReady(d))
    BY <1>1, <1>3 DEF UsedReady, Used, Hook
  <2> QED  BY <1>1, <1>3, <2>1 DEF TestsInv, EndInv
<1> QED  BY <1>5, <1>6, <1>7 DEF TestsInv

\* A case that ends keeps the invariant: those it uses have passed before it.
LEMMA EndsKeeps ==
  ASSUME TestsInv, NEW c \in session, NEW how, Ends(c, how), end[c] = "running",
         how = "passed" => next[c] = Len(Steps(c)) + 1,
         how = "raised" => next[c] \in Reached(c) /\ UsedReady(c)
  PROVE  TestsInv'
<1>1. /\ session' = session /\ next' = next /\ held' = held
      /\ end' = [end EXCEPT ![c] = how]
  BY DEF Ends
<1>2. DOMAIN end = session
  BY DEF TestsInv, SessionInv
<1>3. SessionInv'
  BY <1>1, <1>2, SameSession DEF TestsInv, SessionInv
<1>4. HeldInv'
  BY <1>1 DEF TestsInv, HeldInv
<1>5. EndInv'
  <2>1. \A d \in session : end[d] = "passed" => end'[d] = "passed"
    BY <1>1, <1>2
  <2>2. \A d \in session : UsedReady(d) => UsedReady(d)'
    BY <1>1, <2>1 DEF UsedReady, Used, Hook
  <2>3. \A d \in session : d # c => end'[d] = end[d]
    BY <1>1, <1>2
  <2>4. end'[c] = how
    BY <1>1, <1>2
  <2>5. \A d \in session : end'[d] = "passed" => next[d] = Len(Steps(d)) + 1
    BY <2>3, <2>4 DEF TestsInv, EndInv
  <2>6. \A d \in session : end'[d] = "raised" => next[d] \in Reached(d) /\ UsedReady(d)'
    BY <2>2, <2>3, <2>4 DEF TestsInv, EndInv
  <2> QED  BY <1>1, <2>5, <2>6 DEF EndInv
<1> QED  BY <1>3, <1>4, <1>5 DEF TestsInv

\* The first state, without the choice of the session.
LEMMA TestsStart ==
  ASSUME TestsInit
  PROVE  /\ IsSession(session)
         /\ next = [c \in session |-> 1] /\ held = [c \in session |-> c.env \cap Ambient]
         /\ put = [c \in session |-> {}] /\ lost = [c \in session |-> {}]
         /\ end = [c \in session |-> "running"] /\ blame = {}
<1>1. IsSession(session)
  BY Zenon DEF TestsInit, IsSession
<1>2. next = [c \in session |-> 1] /\ held = [c \in session |-> c.env \cap Ambient]
  BY Zenon DEF TestsInit
<1>3. put = [c \in session |-> {}] /\ lost = [c \in session |-> {}]
  BY Zenon DEF TestsInit
<1>4. end = [c \in session |-> "running"] /\ blame = {}
  BY Zenon DEF TestsInit
<1> QED  BY <1>1, <1>2, <1>3, <1>4

\* TestsInv holds at the start ...
LEMMA TestsInvStarts ==
  ASSUME \A S : IsSession(S) => Described(S), TestsInit
  PROVE  TestsInv
<1>1. IsSession(session) /\ Described(session)
  BY TestsStart
<1>2. \A c \in session : next[c] = 1 /\ held[c] = c.env \cap Ambient /\ end[c] = "running"
  BY TestsStart
<1>3. \A c : HeldAt(c, 1) = c.env \cap Ambient
  <2>1. 1..(1 - 1) = {}
    OBVIOUS
  <2> QED  BY <2>1 DEF HeldAt
<1>4. \A c \in session : 1 \in Nat \ {0} /\ 1 <= Len(Steps(c)) + 1 /\ 1..(1 - 1) = {}
  BY <1>1 DEF Described
<1>5. DOMAIN next = session /\ DOMAIN held = session /\ DOMAIN end = session
  BY TestsStart
<1>6. SessionInv
  BY <1>1, <1>2, <1>4, <1>5 DEF SessionInv
<1>7. HeldInv
  BY <1>2, <1>3, <1>4 DEF HeldInv
<1>8. EndInv
  BY <1>2 DEF EndInv
<1> QED  BY <1>6, <1>7, <1>8 DEF TestsInv

\* A case that raises has come to a step that does not skip.
LEMMA RaisesReached ==
  ASSUME TestsInv, NEW c \in session, HookRaises(c) \/ OutsideRaises(c)
  PROVE  /\ next[c] \in Reached(c) /\ UsedReady(c) /\ end[c] = "running"
         /\ Missing(c) = Lacks(session, c, next[c])
<1>1. MayRun(c) /\ Hook(c).at \notin Stages /\ ~Skips(c)
  BY DEF HookRaises, OutsideRaises, IsHook
<1>2. UsedReady(c) /\ end[c] = "running" /\ next[c] <= Len(Steps(c))
  BY <1>1, RunsReady
<1>3. held[c] = HeldAt(c, next[c]) /\ Hook(c) = Steps(c)[next[c]]
  BY DEF TestsInv, HeldInv, Hook, Steps
<1>4. Goes(c, next[c])
  BY <1>1, <1>3 DEF Goes, Skips
<1>5. \A j \in 1..(next[c] - 1) : Goes(c, j)
  BY DEF TestsInv, HeldInv
<1>6. next[c] \in Nat \ {0} /\ Len(Steps(c)) \in Nat
  BY DEF TestsInv, SessionInv, Described
<1>7. \A j \in 1..next[c] : Goes(c, j)
  <2>1. \A j \in 1..next[c] : j \in 1..(next[c] - 1) \/ j = next[c]
    BY <1>6
  <2> QED  BY <1>4, <1>5, <2>1
<1>8. next[c] \in Reached(c)
  BY <1>1, <1>2, <1>3, <1>6, <1>7 DEF Reached
<1> QED  BY <1>2, <1>8, MissingIs

\* ... and every step keeps it, whichever case makes it.
LEMMA TestsInvStep == TestsInv /\ [TestsNext]_testVars => TestsInv'
<1> SUFFICES ASSUME TestsInv, [TestsNext]_testVars  PROVE TestsInv'
  OBVIOUS
<1>1. ASSUME NEW c \in session, CaseStep(c)  PROVE TestsInv'
  <2>1. CASE RunHook(c) \/ RunStage(c)
    <3>1. Advance(c) /\ end[c] = "running"
      BY <2>1, StepAdvances, RunsReady
    <3> QED  BY <3>1, AdvanceKeeps
  <2>2. CASE HookRaises(c) \/ OutsideRaises(c)
    <3>1. next[c] \in Reached(c) /\ UsedReady(c) /\ end[c] = "running"
      BY <2>2, RaisesReached
    <3>2. Ends(c, "raised")
      BY <2>2 DEF HookRaises, OutsideRaises
    <3> QED  BY <3>1, <3>2, EndsKeeps
  <2>3. CASE SkipCase(c)
    <3>1. Ends(c, "skipped") /\ end[c] = "running"
      BY <2>3, RunsReady DEF SkipCase, IsHook
    <3> QED  BY <3>1, EndsKeeps
  <2>4. CASE FailCase(c)
    <3>1. Ends(c, "failed") /\ end[c] = "running"
      BY <2>4, RunsReady DEF FailCase
    <3> QED  BY <3>1, EndsKeeps
  <2>5. CASE PassCase(c)
    <3>1. Ends(c, "passed") /\ end[c] = "running" /\ next[c] > Len(Steps(c))
      BY <2>5 DEF PassCase, Steps
    <3>2. next[c] = Len(Steps(c)) + 1
      BY <3>1 DEF TestsInv, SessionInv, Described
    <3> QED  BY <3>1, <3>2, EndsKeeps
  <2>6. CASE BlockCase(c)
    <3>1. end[c] = "running" /\ (Ends(c, "skipped") \/ Ends(c, "blocked"))
      BY <2>6 DEF BlockCase
    <3> QED  BY <3>1, EndsKeeps
  <2> QED  BY <1>1, <2>1, <2>2, <2>3, <2>4, <2>5, <2>6 DEF CaseStep
<1>2. CASE UNCHANGED testVars
  BY <1>2, SameSession DEF testVars, TestsInv, SessionInv, HeldInv, EndInv, UsedReady, Used, Hook
<1> QED  BY <1>1, <1>2 DEF TestsNext, SessionOver

\* No step changes the cases of the session.
LEMMA SessionStays ==
  ASSUME [TestsNext]_testVars
  PROVE  UNCHANGED session
BY DEF TestsNext, SessionOver, CaseStep, RunHook, HookRaises, OutsideRaises, SkipCase, RunStage,
       FailCase, PassCase, BlockCase, Ends, testVars

UnsetInv == TestsInv /\ Informed(session) /\ NothingUnset

\* Every step keeps UnsetInv.
LEMMA UnsetInvStep == UnsetInv /\ [TestsNext]_testVars => UnsetInv'
<1> SUFFICES ASSUME UnsetInv, [TestsNext]_testVars  PROVE UnsetInv'
  OBVIOUS
<1>1. TestsInv' /\ session' = session
  BY TestsInvStep, SessionStays DEF UnsetInv
<1>2. Informed(session)'
  BY <1>1 DEF UnsetInv, Informed
<1>3. NothingUnset'
  <2>1. ASSUME NEW c \in session, HookRaises(c)  PROVE blame' \subseteq FromOutside
    <3>1. next[c] \in Reached(c) /\ Missing(c) = Lacks(session, c, next[c])
      BY <2>1, RaisesReached DEF UnsetInv
    <3>2. Missing(c) \subseteq FromOutside
      BY <3>1 DEF UnsetInv, Informed
    <3> QED  BY <2>1, <3>2 DEF HookRaises, UnsetInv, NothingUnset
  <2>2. ASSUME NEW c \in session, CaseStep(c), ~HookRaises(c)  PROVE UNCHANGED blame
    BY <2>2 DEF CaseStep, RunHook, OutsideRaises, SkipCase, RunStage, FailCase, PassCase, BlockCase
  <2>3. blame' = blame \/ blame' \subseteq FromOutside
    BY <2>1, <2>2 DEF TestsNext, SessionOver, testVars
  <2> QED  BY <2>3 DEF UnsetInv, NothingUnset
<1> QED  BY <1>1, <1>2, <1>3 DEF UnsetInv

\* No hook finds an attribute unset, if each case by itself is informed: no
\* interleaving, failure or skip, and no other environment, takes anything away
\* that the hooks before it, or the tests in use, are to leave.
THEOREM UnsetProved ==
  ASSUME \A S : IsSession(S) => Described(S) /\ Informed(S)
  PROVE  TestsSpec => []NothingUnset
<1>1. TestsInit => UnsetInv
  <2> SUFFICES ASSUME TestsInit  PROVE UnsetInv
    OBVIOUS
  <2>1. TestsInv
    BY TestsInvStarts
  <2>2. blame = {} /\ IsSession(session)
    BY TestsStart
  <2> QED  BY <2>1, <2>2 DEF UnsetInv, NothingUnset
<1>2. UnsetInv => NothingUnset
  BY DEF UnsetInv
<1> QED  BY <1>1, <1>2, UnsetInvStep, PTL DEF TestsSpec

RowsInv == TestsInv /\ HasRows(session)

\* Every step keeps RowsInv.
LEMMA RowsInvStep == RowsInv /\ [TestsNext]_testVars => RowsInv'
<1> SUFFICES ASSUME RowsInv, [TestsNext]_testVars  PROVE RowsInv'
  OBVIOUS
<1>1. TestsInv' /\ session' = session
  BY TestsInvStep, SessionStays DEF RowsInv
<1> QED  BY <1>1 DEF RowsInv, HasRows

\* ReferencedRuns is a statement about one state.
LEMMA RowsInvSays == RowsInv => ReferencedRuns
<1> SUFFICES ASSUME RowsInv, NEW c \in session, end[c] = "raised", "procinfo" \in held[c],
                    Class[c.test].refs \cap held[c] # {}
             PROVE  "row" \notin Missing(c)
  BY DEF ReferencedRuns
<1>1. next[c] \in Reached(c) /\ UsedReady(c) /\ held[c] = HeldAt(c, next[c])
  BY DEF RowsInv, TestsInv, EndInv, HeldInv
<1>2. next[c] <= Len(Steps(c))
  BY <1>1 DEF Reached
<1>3. Missing(c) = Lacks(session, c, next[c])
  BY <1>1, <1>2, MissingIs DEF RowsInv
<1> QED  BY <1>1, <1>3 DEF RowsInv, HasRows

\* A case with a reference is not ended by a table without its row, if that is
\* so of each case by itself.
THEOREM RowsProved ==
  ASSUME \A S : IsSession(S) => Described(S) /\ HasRows(S)
  PROVE  TestsSpec => []ReferencedRuns
<1>1. TestsInit => RowsInv
  BY TestsInvStarts, TestsStart DEF RowsInv
<1> QED  BY <1>1, RowsInvStep, RowsInvSays, PTL DEF TestsSpec


\* The options of a case were added by steps behind it.
PutInv ==
  /\ DOMAIN put = session /\ DOMAIN lost = session
  /\ \A c \in session : \A o \in put[c] : \E j \in 1..(next[c] - 1) : o \in Steps(c)[j].adds
KeepsInv == TestsInv /\ KeepsAll(session) /\ PutInv /\ NothingLost

\* A step of a case that keeps its options loses none.
LEMMA StepKeeps ==
  ASSUME TestsInv, PutInv, NEW c \in session, Keeps(c), RunHook(c)
  PROVE  put[c] \ PutBy(Hook(c), put[c]) = {} /\ Late(c) = {}
<1> DEFINE h == Hook(c)
           k == next[c]
<1>1. h = Steps(c)[k] /\ held[c] = HeldAt(c, k)
  BY DEF Hook, Steps, TestsInv, HeldInv
<1>2. k \in 1..Len(Steps(c))
  <2>1. MayRun(c)
    BY DEF RunHook, IsHook
  <2> QED  BY <2>1, RunsReady DEF TestsInv, SessionInv, Described
<1>3. /\ \A o \in h.adds : o[1] \notin held[c]
      /\ \A j \in 1..(k - 1) : \A o \in Steps(c)[j].adds : o[1] \in h.assigns => o \in h.adds
  BY <1>1, <1>2 DEF Keeps
<1>4. Late(c) = {}
  BY <1>3 DEF Late
<1>5. \A o \in put[c] : o[1] \in h.assigns => o \in h.adds
  BY <1>3 DEF PutInv
<1>6. PutBy(h, put[c]) = {o \in put[c] : o[1] \notin h.assigns} \cup h.adds
  BY DEF PutBy
<1> HIDE DEF h, k
<1>7. put[c] \ PutBy(h, put[c]) = {}
  BY <1>5, <1>6
<1> QED  BY <1>4, <1>7 DEF h

\* A hook that runs leaves the options where they were added and loses none.
LEMMA HookPuts ==
  ASSUME KeepsInv, NEW c \in session, RunHook(c), session' = session
  PROVE  PutInv' /\ NothingLost'
<1> DEFINE h == Hook(c)
           New == PutBy(h, put[c])
           Gone == (put[c] \ New) \cup Late(c)
<1>1. /\ put' = [put EXCEPT ![c] = New]
      /\ lost' = [lost EXCEPT ![c] = lost[c] \cup Gone]
      /\ next' = [next EXCEPT ![c] = next[c] + 1]
  <2>1. put' = [put EXCEPT ![c] = New] /\ next' = [next EXCEPT ![c] = next[c] + 1]
    BY DEF RunHook
  <2>2. lost' = [lost EXCEPT ![c] = lost[c] \cup (put[c] \ PutBy(h, put[c])) \cup Late(c)]
    BY DEF RunHook
  <2>3. lost[c] \cup (put[c] \ PutBy(h, put[c])) \cup Late(c) = lost[c] \cup Gone
    OBVIOUS
  <2> QED  BY <2>1, <2>2, <2>3
<1>2. h = Steps(c)[next[c]] /\ next[c] \in Nat \ {0} /\ (\A d \in session : next[d] \in Nat \ {0})
  BY DEF Hook, Steps, KeepsInv, TestsInv, SessionInv
<1>3. DOMAIN put = session /\ DOMAIN lost = session /\ DOMAIN next = session
  BY DEF KeepsInv, PutInv, TestsInv, SessionInv
<1>4. \A o \in New : o \in put[c] \/ o \in h.adds
  BY DEF PutBy
<1>5. c.test \notin LosesItsOwn => Gone = {}
  <2>1. c.test \notin LosesItsOwn => Keeps(c)
    BY DEF KeepsInv, KeepsAll
  <2> QED  BY <2>1, StepKeeps DEF KeepsInv
<1> HIDE DEF h, New, Gone
<1>6. /\ put'[c] = New /\ lost'[c] = lost[c] \cup Gone /\ next'[c] = next[c] + 1
      /\ \A d \in session : d # c => put'[d] = put[d] /\ lost'[d] = lost[d] /\ next'[d] = next[d]
      /\ DOMAIN put' = session /\ DOMAIN lost' = session
  BY <1>1, <1>3
<1>7. \A o \in put'[c] : \E j \in 1..(next'[c] - 1) : o \in Steps(c)[j].adds
  <2>1. ASSUME NEW o \in put[c]  PROVE \E j \in 1..(next'[c] - 1) : o \in Steps(c)[j].adds
    <3>1. PICK j \in 1..(next[c] - 1) : o \in Steps(c)[j].adds
      BY DEF KeepsInv, PutInv
    <3> QED  BY <1>2, <1>6, <3>1
  <2>2. ASSUME NEW o \in h.adds  PROVE \E j \in 1..(next'[c] - 1) : o \in Steps(c)[j].adds
    BY <1>2, <1>6
  <2> QED  BY <1>4, <1>6, <2>1, <2>2
<1>8. PutInv'
  BY <1>6, <1>7 DEF KeepsInv, PutInv
<1>9. NothingLost'
  <2>1. \A d \in session : d.test \notin LosesItsOwn => lost[d] = {}
    BY DEF KeepsInv, NothingLost
  <2>2. \A d \in session : d.test \notin LosesItsOwn => lost'[d] = {}
    BY <1>5, <1>6, <2>1
  <2> QED  BY <2>2 DEF NothingLost
<1> QED  BY <1>8, <1>9

\* Every step keeps KeepsInv.
LEMMA KeepsInvStep == KeepsInv /\ [TestsNext]_testVars => KeepsInv'
<1> SUFFICES ASSUME KeepsInv, [TestsNext]_testVars  PROVE KeepsInv'
  OBVIOUS
<1>1. TestsInv' /\ session' = session
  BY TestsInvStep, SessionStays DEF KeepsInv
<1>2. KeepsAll(session)'
  BY <1>1 DEF KeepsInv, KeepsAll
<1>3. PutInv' /\ NothingLost'
  <2>1. ASSUME NEW c \in session, RunStage(c)  PROVE PutInv' /\ NothingLost'
    <3>1. UNCHANGED <<put, lost>> /\ next' = [next EXCEPT ![c] = next[c] + 1]
      BY <2>1 DEF RunStage
    <3>2. DOMAIN next = session /\ \A d \in session : next[d] \in Nat \ {0}
      BY DEF KeepsInv, TestsInv, SessionInv
    <3>3. \A d \in session : next[d] <= next'[d] /\ next'[d] \in Nat
      BY <3>1, <3>2
    <3>4. \A d \in session : 1..(next[d] - 1) \subseteq 1..(next'[d] - 1)
      BY <3>2, <3>3
    <3> QED  BY <1>1, <3>1, <3>4 DEF KeepsInv, PutInv, NothingLost
  <2>2. CASE UNCHANGED <<put, lost, next>>
    BY <1>1, <2>2 DEF KeepsInv, PutInv, NothingLost
  <2>3. ASSUME NEW c \in session, CaseStep(c), ~RunHook(c), ~RunStage(c)
        PROVE  UNCHANGED <<put, lost, next>>
    BY <2>3 DEF CaseStep, HookRaises, OutsideRaises, SkipCase, FailCase, PassCase, BlockCase, Ends
  <2> QED  BY <1>1, <2>1, <2>2, <2>3, HookPuts DEF TestsNext, SessionOver, testVars
<1> QED  BY <1>1, <1>2, <1>3 DEF KeepsInv

\* No option is lost, in whatever session, by a class whose steps, in their
\* order, assign away nothing an earlier one has added and add nothing too late.
THEOREM KeepsProved ==
  ASSUME \A S : IsSession(S) => Described(S) /\ KeepsAll(S)
  PROVE  TestsSpec => []NothingLost
<1>1. TestsInit => KeepsInv
  <2> SUFFICES ASSUME TestsInit  PROVE KeepsInv
    OBVIOUS
  <2>1. TestsInv /\ KeepsAll(session)
    BY TestsInvStarts, TestsStart
  <2>2. put = [c \in session |-> {}] /\ lost = [c \in session |-> {}]
    BY TestsStart
  <2> QED  BY <2>1, <2>2 DEF KeepsInv, PutInv, NothingLost
<1>2. KeepsInv => NothingLost
  BY DEF KeepsInv
<1> QED  BY <1>1, <1>2, KeepsInvStep, PTL DEF TestsSpec
===============================================================================
