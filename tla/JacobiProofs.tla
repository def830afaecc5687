----------------------------- MODULE JacobiProofs -----------------------------
(***************************************************************************)
(* Theorems about Jacobi, for any number of ranks, rows and iterations.    *)
(* The rows are divided among the ranks by integer division; from there on *)
(* each rank is where its rounds say, and so are its rows and messages.    *)
(***************************************************************************)
EXTENDS Jacobi, FiniteSetTheorems, TLAPS

-----------------------------------------------------------------------------
(* How the rows are divided. *)

LEMMA DivBounds ==
    ASSUME NEW a \in Nat, NEW n \in Nat \ {0}
    PROVE  a \div n \in Nat /\ n * (a \div n) <= a /\ a < n * (a \div n) + n
  OBVIOUS

LEMMA DivUnique ==
    ASSUME NEW a \in Nat, NEW n \in Nat \ {0}, NEW q \in Nat, n * q <= a, a < n * q + n
    PROVE  a \div n = q
  OBVIOUS

LEMMA DivMonotone ==
    ASSUME NEW a \in Nat, NEW b \in Nat, NEW n \in Nat \ {0}
    PROVE  /\ a <= b => a \div n <= b \div n
           /\ a + n <= b => a \div n + 1 <= b \div n
  OBVIOUS

\* The interior rows are divided by rows First(0) = 0, First(1)...
First(r) == (r * (Rows - 2)) \div NumProcs

LEMMA FirstRow ==
    /\ First(0) = 0 /\ First(NumProcs) = Rows - 2
    /\ \A r \in Nat : First(r) \in Nat
    /\ \A r, s \in Nat : r < s => First(r) + 1 <= First(s)
<1>1. Rows - 2 \in Nat \ {0} /\ NumProcs \in Nat \ {0} /\ NumProcs <= Rows - 2
  BY JacobiAssumption
<1>2. First(0) = 0 /\ First(NumProcs) = Rows - 2
  BY <1>1, DivUnique DEF First
<1>3. ASSUME NEW r \in Nat  PROVE r * (Rows - 2) \in Nat /\ First(r) \in Nat
  BY <1>1, DivBounds DEF First
<1>4. ASSUME NEW r \in Nat, NEW s \in Nat, r < s  PROVE First(r) + 1 <= First(s)
  <2>1. r * (Rows - 2) + (Rows - 2) <= s * (Rows - 2)
    BY <1>1, <1>4
  <2>2. r * (Rows - 2) + NumProcs <= s * (Rows - 2)
    BY <1>1, <1>3, <2>1
  <2> QED  BY <1>1, <1>3, <2>2, DivMonotone DEF First
<1> QED  BY <1>2, <1>3, <1>4

LEMMA StripeRows ==
    ASSUME NEW r \in Ranks
    PROVE  /\ iRowFirst(r) = First(r) /\ iRowLast(r) = First(r + 1) + 1
           /\ Own(r) = First(r) + 1..First(r + 1)
           /\ Stripe(r) = First(r)..First(r + 1) + 1
           /\ Own(r) \subseteq Interior /\ Own(r) # {}
           /\ r \in Nat /\ r + 1 \in Nat /\ First(r) \in Nat /\ First(r + 1) \in Nat
           /\ (First(r) = 0 <=> r = 0) /\ (First(r + 1) = Rows - 2 <=> r = Last)
<1>1. /\ r \in Nat /\ r + 1 \in Nat /\ r < r + 1
      /\ r + 1 <= NumProcs /\ NumProcs \in Nat /\ Rows \in Nat /\ Rows >= 2
  BY JacobiAssumption DEF Ranks
<1>2. /\ First(r) \in Nat /\ First(r + 1) \in Nat /\ First(r) + 1 <= First(r + 1)
      /\ (r # 0 => First(r) > 0) /\ First(0) = 0
      /\ First(NumProcs) = Rows - 2
      /\ (r # Last => First(r + 1) + 1 <= First(NumProcs))
  BY <1>1, FirstRow DEF Last
<1>3. iRowFirst(r) = First(r)
  BY DEF First, iRowFirst
<1>4. r + 1 = NumProcs <=> r = Last
  BY <1>1 DEF Last
<1>5. iRowLast(r) = First(r + 1) + 1
  BY <1>1, <1>2, <1>4 DEF First, iRowLast
<1> QED  BY <1>1, <1>2, <1>3, <1>4, <1>5 DEF Own, Stripe, Interior

LEMMA OwnInStripe ==
    ASSUME NEW r \in Ranks, NEW j \in Own(r)
    PROVE  j \in Stripe(r) /\ j \in Interior /\ j \in Int
  BY StripeRows DEF Interior

LEMMA OwnersApart ==
    ASSUME NEW r \in Ranks, NEW s \in Ranks, NEW j \in Own(r) \cap Own(s)
    PROVE  r = s
<1>1. /\ r \in Nat /\ s \in Nat
      /\ j > First(r) /\ j <= First(r + 1) /\ j > First(s) /\ j <= First(s + 1) /\ j \in Int
      /\ \A q \in {r, s, r + 1, s + 1} : First(q) \in Nat
  BY StripeRows
<1>2. ~(r < s) /\ ~(s < r)
  <2>1. r + 1 < s \/ r + 1 = s \/ ~(r < s)
    BY <1>1
  <2>2. s + 1 < r \/ s + 1 = r \/ ~(s < r)
    BY <1>1
  <2> QED  BY <1>1, <2>1, <2>2, FirstRow
<1> QED  BY <1>1, <1>2

\* Every interior row has an owner: the rank given by the inverse division.
LEMMA OwnerExists ==
    ASSUME NEW j \in Interior
    PROVE  \E r \in Ranks : j \in Own(r)
<1> DEFINE M == Rows - 2
           N == NumProcs
           r == (j * N - 1) \div M
<1>1. j \in Nat \ {0} /\ j <= M /\ M \in Nat \ {0} /\ N \in Nat \ {0}
  BY JacobiAssumption DEF Interior
<1> HIDE DEF M, N
<1>2. j * N \in Nat \ {0} /\ j * N <= M * N
  BY <1>1
<1>3. r \in Nat /\ M * r <= j * N - 1 /\ j * N - 1 < M * r + M
  BY <1>1, <1>2, DivBounds
<1> HIDE DEF r
<1>4. r < N
  BY <1>1, <1>2, <1>3
<1>5. r * M < N * j /\ N * j <= (r + 1) * M
  BY <1>1, <1>3
<1>6. (r * M) \div N < j
  <2>1. r * M \in Nat
    BY <1>1, <1>3
  <2>2. N * ((r * M) \div N) <= r * M /\ (r * M) \div N \in Nat
    BY <1>1, <2>1, DivBounds
  <2> QED  BY <1>1, <1>5, <2>1, <2>2
<1>7. j <= ((r + 1) * M) \div N
  <2> DEFINE x == (r + 1) * M
  <2>1. x \in Nat
    BY <1>1, <1>3
  <2>2. N * j <= x
    BY <1>5
  <2> HIDE DEF x
  <2>3. x < N * (x \div N) + N /\ x \div N \in Nat
    BY <1>1, <2>1, DivBounds
  <2>4. N * j < N * (x \div N + 1)
    BY <1>1, <2>1, <2>2, <2>3
  <2>5. j <= x \div N
    BY <1>1, <2>3, <2>4
  <2> QED  BY <2>5 DEF x
<1>8. r \in Ranks
  BY <1>1, <1>3, <1>4 DEF Ranks, N
<1>9. j \in Own(r)
  BY <1>1, <1>3, <1>6, <1>7, <1>8, StripeRows DEF First, M, N
<1> QED  BY <1>8, <1>9

LEMMA OwnerIs ==
    ASSUME NEW r \in Ranks, NEW j \in Own(r)
    PROVE  OwnerOf(j) = r
  BY OwnersApart DEF OwnerOf

LEMMA OwnerOwns ==
    ASSUME NEW j \in Interior
    PROVE  OwnerOf(j) \in Ranks /\ j \in Own(OwnerOf(j))
  BY OwnerExists DEF OwnerOf

-----------------------------------------------------------------------------
(* The inductive invariant. *)

Cells == [sweeps : Nat, right : BOOLEAN]

Exchanging == {"send", "copy", "wait"}
Looping == {"receive", "sweep"} \cup Exchanging
Over == {"error", "print", "done"}
Places == {"bcast", "allreduce"} \cup Looping \cup Over

TypeOK ==
    /\ pc \in [Ranks -> Places]
    /\ iIterMax \in [Ranks -> Nat] /\ iIterCount \in [Ranks -> Nat]
    /\ rounds \in [Ranks -> Nat]
    /\ DOMAIN U = Ranks /\ DOMAIN uold = Ranks
    /\ \A r \in Ranks : DOMAIN U[r] = Stripe(r) /\ DOMAIN uold[r] = Stripe(r)
    /\ DOMAIN posted = Ranks /\ \A r \in Ranks : posted[r] \subseteq Receives(r)
    /\ chan \in [Links -> Seq(Cells)]
    /\ zeroed \subseteq Ranks /\ eager \in BOOLEAN
    /\ verdict \in Seq(BOOLEAN)

\* A rank leaves the loop after round k.
Stop(k) == k >= iIterMax[0] \/ verdict[k]

\* Whoever has begun another round was not to stop after the one before, and
\* whoever has left the loop was; a verdict is given when all have joined.
CountInv ==
    \A r \in Ranks :
        /\ rounds[r] = iIterCount[r] + (IF pc[r] = "allreduce" THEN 1 ELSE 0)
        /\ iIterCount[r] <= Len(verdict) /\ Len(verdict) <= rounds[r]
        /\ pc[r] = "bcast" => rounds[r] = 0 /\ iIterMax[r] = 0
        /\ pc[r] # "bcast" => iIterMax[r] = iIterMax[0] /\ iIterMax[0] >= 1
        /\ \A k \in 1..rounds[r] - 1 : ~Stop(k)
        /\ pc[r] \in Looping /\ rounds[r] > 0 => ~Stop(rounds[r])
        /\ pc[r] \in Over => rounds[r] > 0 /\ Stop(rounds[r])

\* What row j holds after k sweeps of the grid, when B are the boundary rows
\* that are set.
Right(B, j, k) == \A b \in Boundary \ B : ~(j - b <= k /\ b - j <= k)
Swept(B, j, k) == Row(k, Right(B, j, k))

\* Where its rows are concerned, a rank is as far as its rounds say.
RowInv ==
    \A r \in Ranks :
        /\ \A j \in Own(r) : U[r][j] = Swept(BoundarySet, j, rounds[r])
        /\ \A j \in Stripe(r) \cap Boundary : uold[r][j].right <=> j \in BoundarySet
        /\ pc[r] \in {"wait", "sweep"} =>
              \A j \in Own(r) : uold[r][j] = Swept(BoundarySet, j, rounds[r])
        /\ pc[r] \notin Exchanging => posted[r] = {}
        /\ pc[r] \in {"sweep"} \cup Exchanging =>
              \A x \in Receives(r) \ posted[r] :
                  uold[r][x[3]] = Swept(BoundarySet, x[3], rounds[r])

\* The tag and the row of the messages of a link.
Used(l) == l[3] = IF l[2] = l[1] + 1 THEN iTagMoveRight ELSE iTagMoveLeft
LinkRow(l) == IF l[2] = l[1] + 1 THEN First(l[2]) ELSE First(l[1]) + 1

\* How many messages have been sent to a link and taken from it.
Sent(l) == rounds[l[1]] + (IF pc[l[1]] \in {"copy", "wait", "sweep"} THEN 1 ELSE 0)
Taken(l) ==
    rounds[l[2]] + (IF /\ pc[l[2]] \in {"sweep"} \cup Exchanging
                       /\ <<l[1], l[3], LinkRow(l)>> \notin posted[l[2]]
                    THEN 1 ELSE 0)

\* A link holds the row of every sweep from the one to be taken to the last
\* one sent.
ChanInv ==
    \A l \in Links :
        /\ Used(l) => /\ Len(chan[l]) = Sent(l) - Taken(l)
                      /\ \A i \in 1..Len(chan[l]) :
                            chan[l][i] = Swept(BoundarySet, LinkRow(l), Taken(l) + i - 1)
        /\ ~Used(l) => chan[l] = <<>>

Finished == {r \in Ranks : pc[r] \in {"print", "done"}}

EndInv ==
    /\ sums = {[rank |-> r, rows |-> ErrorRows(r)] : r \in Finished}
    /\ \A r \in Ranks : pc[r] = "print" => r = 0
    /\ summary.printed \in BOOLEAN
    /\ summary.printed => /\ Finished = Ranks /\ pc[0] = "done"
                          /\ summary.sums = sums /\ summary.iterations = rounds[0]

IInv == TypeOK /\ CountInv /\ RowInv /\ ChanInv /\ EndInv

-----------------------------------------------------------------------------
(* Ranks and links. *)

LEMMA RanksAre ==
    /\ 0 \in Ranks /\ Last \in Ranks /\ Ranks \subseteq Nat
    /\ \A r \in Ranks : r # 0 => r - 1 \in Ranks
    /\ \A r \in Ranks : r # Last => r + 1 \in Ranks
    /\ \A r \in Ranks : r - 1 \in Ranks => r # 0
    /\ \A r \in Ranks : r + 1 \in Ranks => r # Last
    /\ IsFiniteSet(Ranks) /\ Cardinality(Ranks) = NumProcs
<1>1. IsFiniteSet(Ranks) /\ Cardinality(Ranks) = NumProcs
  BY JacobiAssumption, FS_Interval DEF Ranks
<1> QED  BY <1>1, JacobiAssumption DEF Ranks, Last

LEMMA LinksAre ==
    ASSUME NEW l \in Links
    PROVE  /\ l[1] \in Ranks /\ l[2] \in Ranks /\ l[3] \in Tags
           /\ l = <<l[1], l[2], l[3]>> /\ l[1] # l[2]
           /\ l[2] = l[1] + 1 \/ l[1] = l[2] + 1
           /\ LinkRow(l) \in Own(l[1]) /\ LinkRow(l) \in Interior
           /\ LinkRow(l) = IF l[2] = l[1] + 1 THEN iRowFirst(l[2]) ELSE iRowLast(l[2])
<1>0. /\ l[1] \in Ranks /\ l[2] \in Ranks /\ l[3] \in Tags
      /\ l = <<l[1], l[2], l[3]>>
      /\ l[2] = l[1] + 1 \/ l[1] = l[2] + 1
  BY DEF Links
<1>1. l[1] \in Nat /\ l[2] \in Nat /\ l[1] # l[2]
  BY <1>0, RanksAre
<1>2. LinkRow(l) \in Own(l[1]) /\ LinkRow(l) \in Interior
  <2>1. First(l[1]) + 1 <= First(l[1] + 1)
    BY <1>1, FirstRow
  <2>2. LinkRow(l) = IF l[2] = l[1] + 1 THEN First(l[1] + 1) ELSE First(l[1]) + 1
    BY DEF LinkRow
  <2>3. /\ Own(l[1]) = First(l[1]) + 1..First(l[1] + 1) /\ Own(l[1]) \subseteq Interior
        /\ First(l[1]) \in Nat /\ First(l[1] + 1) \in Nat
    BY <1>0, StripeRows
  <2> QED  BY <2>1, <2>2, <2>3
<1>3. LinkRow(l) = IF l[2] = l[1] + 1 THEN iRowFirst(l[2]) ELSE iRowLast(l[2])
  BY <1>0, <1>1, StripeRows DEF LinkRow
<1> QED  BY <1>0, <1>1, <1>2, <1>3

\* The request of a rank for the messages of a link, and the link of a request.
LEMMA RequestOfLink ==
    ASSUME NEW l \in Links, Used(l)
    PROVE  <<l[1], l[3], LinkRow(l)>> \in Receives(l[2])
<1>1. /\ l[1] \in Ranks /\ l[2] \in Ranks /\ l[1] \in Nat /\ l[2] \in Nat
      /\ l[2] = l[1] + 1 \/ l[1] = l[2] + 1
      /\ LinkRow(l) = IF l[2] = l[1] + 1 THEN iRowFirst(l[2]) ELSE iRowLast(l[2])
  BY LinksAre, RanksAre
<1>2. CASE l[2] = l[1] + 1
  BY <1>1, <1>2 DEF Receives, Used, iTagMoveRight
<1>3. CASE l[1] = l[2] + 1
  BY <1>1, <1>3 DEF Receives, Used, iTagMoveLeft
<1> QED  BY <1>1, <1>2, <1>3

LEMMA LinkOfRequest ==
    ASSUME NEW r \in Ranks, NEW x \in Receives(r)
    PROVE  LET l == <<x[1], r, x[2]>> IN
           /\ l \in Links /\ Used(l)
           /\ x = <<l[1], l[3], LinkRow(l)>>
           /\ x[3] = LinkRow(l) /\ x[3] \in Stripe(r) /\ x[3] \notin Own(r)
           /\ x[3] \notin Boundary
<1> DEFINE l == <<x[1], r, x[2]>>
<1>1. r \in Nat /\ x[1] \in Ranks /\ x[1] \in Nat
  BY RanksAre DEF Receives
<1>2. /\ x = <<r - 1, iTagMoveRight, iRowFirst(r)>> \/ x = <<r + 1, iTagMoveLeft, iRowLast(r)>>
      /\ x[2] \in Tags
  BY DEF Receives, Tags, iTagMoveLeft, iTagMoveRight
<1>3. l \in Links /\ Used(l)
  BY <1>1, <1>2 DEF Links, Used, iTagMoveLeft, iTagMoveRight
<1>4. x[3] = LinkRow(l)
  BY <1>1, <1>2, <1>3, LinksAre
<1>5. x[3] \in Stripe(r) /\ x[3] \notin Own(r)
  BY <1>2, StripeRows
<1>6. x[3] \notin Boundary
  <2>1. LinkRow(l) \in Interior
    BY <1>3, LinksAre
  <2> QED  BY <1>4, <2>1, JacobiAssumption DEF Interior, Boundary
<1> QED  BY <1>2, <1>3, <1>4, <1>5, <1>6

LEMMA PostSendsEffect ==
    ASSUME TypeOK, NEW r \in Ranks, PostSends(r), NEW l \in Links
    PROVE  chan'[l] = IF l[1] = r /\ Used(l) THEN Append(chan[l], U[r][LinkRow(l)]) ELSE chan[l]
<1>1. chan'[l] = IF \E x \in Sends(r) : l = <<r, x[1], x[2]>>
                 THEN LET x == CHOOSE y \in Sends(r) : l = <<r, y[1], y[2]>>
                      IN  Append(chan[l], U[r][x[3]])
                 ELSE chan[l]
  BY DEF PostSends
<1>2. /\ l[1] \in Ranks /\ l[2] \in Ranks /\ l[1] \in Nat /\ l[2] \in Nat
      /\ l = <<l[1], l[2], l[3]>>
      /\ l[2] = l[1] + 1 \/ l[1] = l[2] + 1
  BY LinksAre, RanksAre
<1>3. ASSUME NEW x \in Sends(r), l = <<r, x[1], x[2]>>
      PROVE  l[1] = r /\ Used(l) /\ x[3] = LinkRow(l)
  <2>1. /\ r \in Nat /\ l[1] = r /\ l[2] = x[1] /\ l[3] = x[2]
        /\ iRowLast(r) - 1 = First(r + 1) /\ iRowFirst(r) = First(r)
    BY <1>3, RanksAre, StripeRows
  <2>2. CASE x = <<r + 1, iTagMoveRight, iRowLast(r) - 1>>
    BY <2>1, <2>2 DEF Used, LinkRow
  <2>3. CASE x = <<r - 1, iTagMoveLeft, iRowFirst(r) + 1>>
    BY <2>1, <2>3 DEF Used, LinkRow
  <2> QED  BY <2>2, <2>3 DEF Sends
<1>4. ASSUME l[1] = r, Used(l)
      PROVE  \E x \in Sends(r) : l = <<r, x[1], x[2]>>
  <2>1. CASE l[2] = l[1] + 1
    <3> DEFINE x == <<r + 1, iTagMoveRight, iRowLast(r) - 1>>
    <3>1. x \in Sends(r)
      BY <1>2, <1>4, <2>1 DEF Sends
    <3>2. l = <<r, x[1], x[2]>>
      BY <1>2, <1>4, <2>1 DEF Used
    <3> QED  BY <3>1, <3>2
  <2>2. CASE l[1] = l[2] + 1
    <3> DEFINE x == <<r - 1, iTagMoveLeft, iRowFirst(r) + 1>>
    <3>1. x \in Sends(r)
      BY <1>2, <1>4, <2>2 DEF Sends
    <3>2. l = <<r, x[1], x[2]>>
      BY <1>2, <1>4, <2>2 DEF Used
    <3> QED  BY <3>1, <3>2
  <2> QED  BY <1>2, <2>1, <2>2
<1> QED  BY <1>1, <1>3, <1>4

-----------------------------------------------------------------------------
(* The stencil. *)

LEMMA BoundarySetType == BoundarySet \subseteq Boundary
  BY DEF BoundarySet, Boundary

LEMMA RightType == \A B, j, k : Right(B, j, k) \in BOOLEAN
  BY DEF Right

LEMMA SweptType ==
    ASSUME NEW B, NEW j \in Int, NEW k \in Nat
    PROVE  Swept(B, j, k) \in Cells /\ Swept(B, j, k).sweeps = k
           /\ (Swept(B, j, k).right <=> Right(B, j, k))
  BY RightType DEF Swept, Row, Cells

\* One sweep more brings the boundary rows one row nearer.
LEMMA RightNext ==
    ASSUME NEW B \in SUBSET Boundary, NEW j \in Interior, NEW k \in Nat
    PROVE  Right(B, j, k + 1) <=>
              /\ Right(B, j, k)
              /\ IF j - 1 \in Boundary THEN j - 1 \in B ELSE Right(B, j - 1, k)
              /\ IF j + 1 \in Boundary THEN j + 1 \in B ELSE Right(B, j + 1, k)
<1>1. j \in Nat /\ j >= 1 /\ j <= Rows - 2 /\ Rows \in Nat
  BY JacobiAssumption DEF Interior
<1>2. /\ j - 1 \in Boundary <=> j = 1
      /\ j + 1 \in Boundary <=> j = Rows - 2
  BY <1>1 DEF Boundary
<1>3. \A i \in Int, n \in Nat : Right(B, i, n) <=>
          /\ 0 \in B \/ ~(i <= n /\ -i <= n)
          /\ Rows - 1 \in B \/ ~(i - (Rows - 1) <= n /\ (Rows - 1) - i <= n)
  BY <1>1 DEF Right, Boundary
<1>4. k + 1 \in Nat /\ j \in Int /\ j - 1 \in Int /\ j + 1 \in Int
  BY <1>1
<1>5. /\ Right(B, j, k + 1) <=> /\ 0 \in B \/ ~(j <= k + 1)
                                /\ Rows - 1 \in B \/ ~((Rows - 1) - j <= k + 1)
      /\ Right(B, j, k) <=> /\ 0 \in B \/ ~(j <= k)
                            /\ Rows - 1 \in B \/ ~((Rows - 1) - j <= k)
      /\ Right(B, j - 1, k) <=> /\ 0 \in B \/ ~(j - 1 <= k)
                                /\ Rows - 1 \in B \/ ~((Rows - 1) - (j - 1) <= k)
      /\ Right(B, j + 1, k) <=> \/ j + 1 = Rows - 1 /\ Rows - 1 \in B /\ (0 \in B \/ ~(j + 1 <= k))
                                \/ /\ j + 1 # Rows - 1
                                   /\ 0 \in B \/ ~(j + 1 <= k)
                                   /\ Rows - 1 \in B \/ ~((Rows - 1) - (j + 1) <= k)
  BY <1>1, <1>3, <1>4
<1>6. 0 \in B \/ 0 \notin B
  OBVIOUS
<1> QED  BY <1>1, <1>2, <1>5

\* A rank whose rows are all there sweeps them as the whole grid is swept.
LEMMA SweepRight ==
    ASSUME TypeOK, RowInv, NEW r \in Ranks, pc[r] = "sweep", posted[r] = {}, NEW j \in Own(r)
    PROVE  Stencil(r, j) = Swept(BoundarySet, j, rounds[r] + 1)
<1> DEFINE k == rounds[r]
<1>1. k \in Nat /\ j \in Int /\ j - 1 \in Int /\ j + 1 \in Int /\ j \in Interior
  BY StripeRows DEF TypeOK, Interior
<1>2. uold[r][j] = Swept(BoundarySet, j, k)
  BY DEF RowInv
<1>3. uold[r][j].sweeps = k /\ (uold[r][j].right <=> Right(BoundarySet, j, k))
  BY <1>1, <1>2, SweptType
<1>4. ASSUME NEW i \in {j - 1, j + 1}
      PROVE  Agrees(r, i, k) <=> IF i \in Boundary THEN i \in BoundarySet
                                 ELSE Right(BoundarySet, i, k)
  <2>1. i \in Int /\ i \in Stripe(r)
    BY <1>1, StripeRows
  <2>2. CASE i \in Boundary
    BY <2>1, <2>2 DEF RowInv, Agrees
  <2>3. CASE i \notin Boundary
    <3>1. uold[r][i] = Swept(BoundarySet, i, k)
      <4>1. CASE i \in Own(r)
        BY <4>1 DEF RowInv
      <4>2. CASE i = First(r)
        <5>1. r # 0
          BY <2>3, <4>2, StripeRows DEF Boundary
        <5>2. <<r - 1, iTagMoveRight, iRowFirst(r)>> \in Receives(r)
          BY <5>1, RanksAre DEF Receives
        <5> QED  BY <4>2, <5>2, StripeRows DEF RowInv
      <4>3. CASE i = First(r + 1) + 1
        <5>1. r # Last
          BY <2>3, <4>3, StripeRows, JacobiAssumption DEF Boundary
        <5>2. <<r + 1, iTagMoveLeft, iRowLast(r)>> \in Receives(r)
          BY <5>1, RanksAre DEF Receives
        <5> QED  BY <4>3, <5>2, StripeRows DEF RowInv
      <4>4. i \in Own(r) \/ i = First(r) \/ i = First(r + 1) + 1
        BY <2>1, StripeRows
      <4> QED  BY <4>1, <4>2, <4>3, <4>4
    <3> QED  BY <1>1, <2>1, <2>3, <3>1, SweptType DEF Agrees
  <2> QED  BY <2>2, <2>3
<1>5. Right(BoundarySet, j, k + 1) <=>
          (uold[r][j].right /\ Agrees(r, j - 1, k) /\ Agrees(r, j + 1, k))
  BY <1>1, <1>3, <1>4, RightNext, BoundarySetType
<1>6. Right(BoundarySet, j, k + 1) =
          (uold[r][j].right /\ Agrees(r, j - 1, k) /\ Agrees(r, j + 1, k))
  BY <1>5, RightType
<1> QED  BY <1>3, <1>6 DEF Stencil, Swept, Row

-----------------------------------------------------------------------------
(* Type correctness, and the rounds. *)

LEMMA PlacesAre ==
    /\ Exchanging \subseteq Looping /\ Looping \subseteq Places /\ Over \subseteq Places
    /\ "bcast" \in Places /\ "allreduce" \in Places
  BY DEF Exchanging, Looping, Over, Places

\* Append, for sequences of anything.
LEMMA AppendIs ==
    ASSUME NEW S, NEW s \in Seq(S), NEW e \in S
    PROVE  /\ Append(s, e) \in Seq(S) /\ Len(Append(s, e)) = Len(s) + 1
           /\ \A i \in 1..Len(s) : Append(s, e)[i] = s[i]
           /\ Append(s, e)[Len(s) + 1] = e
  OBVIOUS

LEMMA InitInv == Init => IInv
<1> SUFFICES ASSUME Init  PROVE IInv
  OBVIOUS
<1>1. TypeOK
  BY DEF Init, TypeOK, Places
<1>2. CountInv
  BY DEF Init, CountInv, Looping, Over, Exchanging
<1>3. RowInv
  <2> SUFFICES ASSUME NEW r \in Ranks
               PROVE  /\ \A j \in Own(r) : U[r][j] = Swept(BoundarySet, j, rounds[r])
                      /\ \A j \in Stripe(r) \cap Boundary :
                            uold[r][j].right <=> j \in BoundarySet
                      /\ posted[r] = {}
    BY DEF Init, RowInv, Exchanging
  <2>1. ASSUME NEW j \in Own(r)  PROVE U[r][j] = Swept(BoundarySet, j, rounds[r])
    <3>1. Right(BoundarySet, j, 0) = TRUE
      BY StripeRows, JacobiAssumption DEF Right, Boundary, Interior
    <3>2. U[r][j] = Row(0, TRUE) /\ rounds[r] = 0
      <4>1. j \in Stripe(r)
        BY OwnInStripe
      <4> QED  BY <4>1 DEF Init
    <3> QED  BY <3>1, <3>2 DEF Swept
  <2>2. ASSUME NEW j \in Stripe(r), j \in Boundary
        PROVE  uold[r][j].right <=> j \in BoundarySet
    <3>1. uold[r][j].right <=> r \in zeroed
      BY DEF Init, Row, Garbage
    <3>2. (j = 0 /\ r = 0) \/ (j = Rows - 1 /\ r = Last)
      <4>1. /\ j \in First(r)..First(r + 1) + 1 /\ First(r) \in Nat /\ First(r + 1) \in Nat
            /\ (First(r) = 0 <=> r = 0) /\ (First(r + 1) = Rows - 2 <=> r = Last)
            /\ First(r + 1) <= Rows - 2 /\ Rows \in Nat
        BY StripeRows, JacobiAssumption DEF Interior
      <4> QED  BY <2>2, <4>1 DEF Boundary
    <3>3. 0 # Rows - 1
      BY JacobiAssumption
    <3>4. CASE j = 0 /\ r = 0
      BY <3>1, <3>3, <3>4 DEF BoundarySet
    <3>5. CASE j = Rows - 1 /\ r = Last
      BY <3>1, <3>3, <3>5 DEF BoundarySet
    <3> QED  BY <3>2, <3>4, <3>5
  <2> QED  BY <2>1, <2>2 DEF Init
<1>4. ChanInv
  <2> SUFFICES ASSUME NEW l \in Links  PROVE chan[l] = <<>> /\ Sent(l) = 0 /\ Taken(l) = 0
    BY DEF ChanInv
  <2> QED  BY LinksAre DEF Init, Sent, Taken, Exchanging
<1>5. EndInv
  BY DEF Init, EndInv, Finished, NoSummary
<1> QED  BY <1>1, <1>2, <1>3, <1>4, <1>5 DEF IInv

LEMMA TypeStep == TypeOK /\ RowInv /\ [Next]_vars => TypeOK'
<1> SUFFICES ASSUME TypeOK, RowInv, [Next]_vars  PROVE TypeOK'
  OBVIOUS
<1> USE DEF TypeOK, mpi
<1>g. ASSUME NEW r \in Ranks, NEW l \in Places, Goto(r, l)  PROVE pc' \in [Ranks -> Places]
  BY <1>g DEF Goto
<1>1. ASSUME NEW r \in Ranks, Bcast(r)  PROVE TypeOK'
  <2>1. PICK max \in 1..MaxIter : /\ iIterMax' = [iIterMax EXCEPT ![r] = max]
                                  /\ Continue(r, 0, max, FALSE)
    BY <1>1 DEF Bcast
  <2>2. iIterMax' \in [Ranks -> Nat]
    BY <2>1
  <2>3. pc' \in [Ranks -> Places]
    BY <1>g, <2>1 DEF Continue, Places, Looping, Over
  <2> QED  BY <1>1, <2>2, <2>3 DEF Bcast
<1>2. ASSUME NEW r \in Ranks, PostReceives(r)  PROVE TypeOK'
  <2>1. pc' \in [Ranks -> Places]
    BY <1>2, <1>g DEF PostReceives, Places, Looping, Exchanging
  <2> QED  BY <1>2, <2>1 DEF PostReceives
<1>3. ASSUME NEW r \in Ranks, PostSends(r)  PROVE TypeOK'
  <2>1. pc' \in [Ranks -> Places]
    BY <1>3, <1>g DEF PostSends, Places, Looping, Exchanging
  <2>2. ASSUME NEW l \in Links  PROVE chan'[l] \in Seq(Cells)
    <3>1. l[1] = r => U[r][LinkRow(l)] \in Cells
      <4> HAVE l[1] = r
      <4>1. LinkRow(l) \in Own(r) /\ LinkRow(l) \in Int
        BY LinksAre DEF Interior
      <4> QED  BY <4>1, SweptType DEF RowInv
    <3>2. chan'[l] = IF l[1] = r /\ Used(l) THEN Append(chan[l], U[r][LinkRow(l)]) ELSE chan[l]
      BY <1>3, PostSendsEffect
    <3> QED  BY <3>1, <3>2, AppendIs
  <2>3. chan' \in [Links -> Seq(Cells)]
    BY <1>3, <2>2 DEF PostSends
  <2> QED  BY <1>3, <2>1, <2>3 DEF PostSends
<1>4. ASSUME NEW r \in Ranks, Copy(r)  PROVE TypeOK'
  <2>1. pc' \in [Ranks -> Places]
    BY <1>4, <1>g DEF Copy, Places, Looping, Exchanging
  <2> QED  BY <1>4, <2>1 DEF Copy
<1>5. ASSUME NEW r \in Ranks, Waitall(r)  PROVE TypeOK'
  <2>1. pc' \in [Ranks -> Places]
    BY <1>5, <1>g DEF Waitall, Places, Looping
  <2> QED  BY <1>5, <2>1 DEF Waitall
<1>6. ASSUME NEW r \in Ranks, Sweep(r)  PROVE TypeOK'
  <2>1. pc' \in [Ranks -> Places]
    BY <1>6, <1>g DEF Sweep, Places
  <2>2. DOMAIN U' = Ranks /\ \A q \in Ranks : DOMAIN U'[q] = Stripe(q)
    BY <1>6 DEF Sweep
  <2>3. rounds' \in [Ranks -> Nat]
    BY <1>6 DEF Sweep
  <2> QED  BY <1>6, <2>1, <2>2, <2>3 DEF Sweep
<1>7. ASSUME NEW r \in Ranks, Allreduce(r)  PROVE TypeOK'
  <2>1. PICK converged \in BOOLEAN :
          /\ UNCHANGED verdict \/ verdict' = Append(verdict, converged)
          /\ iIterCount' = [iIterCount EXCEPT ![r] = @ + 1]
          /\ Continue(r, iIterCount[r] + 1, iIterMax[r], converged)
    BY <1>7 DEF Allreduce
  <2>2. pc' \in [Ranks -> Places]
    BY <1>g, <2>1 DEF Continue, Places, Looping, Over
  <2>3. verdict' \in Seq(BOOLEAN)
    <3>1. verdict \in Seq(BOOLEAN)
      OBVIOUS
    <3>2. Append(verdict, converged) \in Seq(BOOLEAN)
      BY ONLY <3>1, AppendIs, converged \in BOOLEAN
    <3> QED  BY ONLY <2>1, <3>1, <3>2
  <2>4. iIterCount' \in [Ranks -> Nat]
    BY <2>1
  <2> QED  BY <1>7, <2>2, <2>3, <2>4 DEF Allreduce
<1>8. ASSUME NEW r \in Ranks, CheckError(r)  PROVE TypeOK'
  <2>1. pc' \in [Ranks -> Places]
    BY <1>8, <1>g DEF CheckError, Places, Over
  <2> QED  BY <1>8, <2>1 DEF CheckError
<1>9. ASSUME NEW r \in Ranks, PrintResults(r)  PROVE TypeOK'
  <2>1. pc' \in [Ranks -> Places]
    BY <1>9, <1>g DEF PrintResults, Places, Over
  <2> QED  BY <1>9, <2>1 DEF PrintResults
<1>10. ASSUME NEW r \in Ranks, Deliver(r)  PROVE TypeOK'
  <2>1. PICK x \in posted[r] :
          LET l == <<x[1], r, x[2]>> IN
          /\ chan[l] # <<>>
          /\ uold' = [uold EXCEPT ![r][x[3]] = Head(chan[l])]
          /\ chan' = [chan EXCEPT ![l] = Tail(@)]
          /\ posted' = [posted EXCEPT ![r] = @ \ {x}]
    BY <1>10 DEF Deliver
  <2>2. chan' \in [Links -> Seq(Cells)]
    BY <2>1, LinkOfRequest
  <2> QED  BY <1>10, <2>1, <2>2 DEF Deliver
<1>11. CASE UNCHANGED vars
  BY <1>11 DEF vars
<1> QED  BY <1>1, <1>2, <1>3, <1>4, <1>5, <1>6, <1>7, <1>8, <1>9, <1>10, <1>11
         DEF Next, Rank, Exchange, Terminating

\* CountInv, said of one rank.
CountOf(r) ==
    /\ rounds[r] = iIterCount[r] + (IF pc[r] = "allreduce" THEN 1 ELSE 0)
    /\ iIterCount[r] <= Len(verdict) /\ Len(verdict) <= rounds[r]
    /\ pc[r] = "bcast" => rounds[r] = 0 /\ iIterMax[r] = 0
    /\ pc[r] # "bcast" => iIterMax[r] = iIterMax[0] /\ iIterMax[0] >= 1
    /\ \A k \in 1..rounds[r] - 1 : ~Stop(k)
    /\ pc[r] \in Looping /\ rounds[r] > 0 => ~Stop(rounds[r])
    /\ pc[r] \in Over => rounds[r] > 0 /\ Stop(rounds[r])

LEMMA CountStep == TypeOK /\ CountInv /\ [Next]_vars => CountInv'
<1> SUFFICES ASSUME TypeOK, CountInv, [Next]_vars, NEW q \in Ranks  PROVE CountOf(q)'
  BY DEF CountInv, CountOf
<1>0. \A r \in Ranks : CountOf(r)
  BY DEF CountInv, CountOf
<1>t. /\ pc \in [Ranks -> Places] /\ iIterMax \in [Ranks -> Nat]
      /\ iIterCount \in [Ranks -> Nat] /\ rounds \in [Ranks -> Nat] /\ Len(verdict) \in Nat
      /\ 0 \in Ranks /\ verdict \in Seq(BOOLEAN)
  BY RanksAre DEF TypeOK
<1>a. \A r \in Ranks :
          /\ pc[r] # "allreduce" => rounds[r] = iIterCount[r]
          /\ pc[r] = "allreduce" => rounds[r] = iIterCount[r] + 1
          /\ iIterCount[r] <= Len(verdict) /\ Len(verdict) <= rounds[r]
          /\ iIterCount[r] \in Nat /\ rounds[r] \in Nat
  BY <1>0, <1>t DEF CountOf
<1>b. "allreduce" \notin Looping \cup Over /\ "bcast" \notin Looping \cup Over
  BY DEF Looping, Over, Exchanging
\* Steps that move within the loop, or within what comes after it.
<1>s. ASSUME UNCHANGED <<iIterMax, iIterCount, rounds, verdict>>,
             \/ pc'[q] = pc[q]
             \/ pc[q] \in Looping /\ pc'[q] \in Looping
             \/ pc[q] \in Over /\ pc'[q] \in Over
      PROVE  CountOf(q)'
  <2>1. /\ pc[q] = "bcast" <=> pc'[q] = "bcast"
        /\ pc[q] = "allreduce" <=> pc'[q] = "allreduce"
        /\ pc'[q] \in Looping => pc[q] \in Looping
        /\ pc'[q] \in Over => pc[q] \in Over
    BY <1>s DEF Looping, Over, Exchanging
  <2>2. \A k : Stop(k)' <=> Stop(k)
    BY <1>s DEF Stop
  <2> QED  BY <1>0, <1>s, <2>1, <2>2 DEF CountOf
<1>u. ASSUME NEW r \in Ranks, NEW l, Goto(r, l),
             UNCHANGED <<iIterMax, iIterCount, rounds, verdict>>,
             \/ pc[r] \in Looping /\ l \in Looping
             \/ pc[r] \in Over /\ l \in Over
      PROVE  CountOf(q)'
  <2>1. pc'[q] = IF q = r THEN l ELSE pc[q]
    BY <1>t, <1>u DEF Goto
  <2> QED  BY <1>s, <1>u, <2>1
<1> HIDE DEF CountInv
<1>1. ASSUME NEW r \in Ranks, Bcast(r)  PROVE CountOf(q)'
  <2>1. PICK max \in 1..MaxIter :
          /\ r # 0 => max = iIterMax[0]
          /\ iIterMax' = [iIterMax EXCEPT ![r] = max]
          /\ Continue(r, 0, max, FALSE)
    BY <1>1 DEF Bcast
  <2>2. pc' = [pc EXCEPT ![r] = "receive"] /\ pc[r] = "bcast" /\ max \in Nat /\ max >= 1
    <3>1. max \in Nat /\ max >= 1 /\ 0 < max
      BY JacobiAssumption
    <3> QED  BY <1>1, <2>1, <3>1 DEF Bcast, Continue, Goto
  <2>3. UNCHANGED <<iIterCount, rounds, verdict>>
    BY <1>1 DEF Bcast, mpi
  <2>4. CASE q = r
    <3>1. rounds[q] = 0 /\ pc'[q] = "receive" /\ iIterMax'[q] = max /\ iIterMax'[0] = max
      BY <1>0, <1>t, <2>1, <2>2, <2>4 DEF CountOf
    <3> QED  BY <1>0, <1>t, <2>2, <2>3, <2>4, <3>1 DEF CountOf, Over
  <2>5. CASE q # r /\ r # 0
    <3>1. iIterMax'[0] = iIterMax[0] /\ iIterMax'[q] = iIterMax[q] /\ pc'[q] = pc[q]
      BY <1>t, <2>1, <2>2, <2>5
    <3>2. \A k : Stop(k)' <=> Stop(k)
      BY <2>3, <3>1 DEF Stop
    <3> QED  BY <1>0, <2>3, <3>1, <3>2 DEF CountOf
  <2>6. CASE q # r /\ r = 0
    \* Nobody has gone on before rank 0 has.
    <3>1. pc[q] = "bcast" /\ rounds[q] = 0
      BY <1>0, <1>t, <2>2, <2>6 DEF CountOf
    <3>2. pc'[q] = "bcast" /\ iIterMax'[q] = iIterMax[q]
      BY <1>t, <2>1, <2>2, <2>6, <3>1
    <3> QED  BY <1>0, <1>t, <2>3, <3>1, <3>2 DEF CountOf, Looping, Over, Exchanging
  <2> QED  BY <2>4, <2>5, <2>6
<1>2. ASSUME NEW r \in Ranks, PostReceives(r)  PROVE CountOf(q)'
  <2>1. pc[r] = "receive" /\ Goto(r, "send") /\ UNCHANGED <<iIterMax, iIterCount, rounds, verdict>>
    BY <1>2 DEF PostReceives, mpi
  <2>2. "receive" \in Looping /\ "send" \in Looping
    BY DEF Looping, Exchanging
  <2>3. pc[r] \in Looping
    BY <2>1, <2>2
  <2> QED  BY ONLY <1>u, <2>1, <2>2, <2>3
<1>3. ASSUME NEW r \in Ranks, PostSends(r)  PROVE CountOf(q)'
  <2>1. pc[r] = "send" /\ Goto(r, "copy") /\ UNCHANGED <<iIterMax, iIterCount, rounds, verdict>>
    BY <1>3 DEF PostSends, mpi
  <2>2. "send" \in Looping /\ "copy" \in Looping
    BY DEF Looping, Exchanging
  <2>3. pc[r] \in Looping
    BY <2>1, <2>2
  <2> QED  BY ONLY <1>u, <2>1, <2>2, <2>3
<1>4. ASSUME NEW r \in Ranks, Copy(r)  PROVE CountOf(q)'
  <2>1. pc[r] = "copy" /\ Goto(r, "wait") /\ UNCHANGED <<iIterMax, iIterCount, rounds, verdict>>
    BY <1>4 DEF Copy, mpi
  <2>2. "copy" \in Looping /\ "wait" \in Looping
    BY DEF Looping, Exchanging
  <2>3. pc[r] \in Looping
    BY <2>1, <2>2
  <2> QED  BY ONLY <1>u, <2>1, <2>2, <2>3
<1>5. ASSUME NEW r \in Ranks, Waitall(r)  PROVE CountOf(q)'
  <2>1. pc[r] = "wait" /\ Goto(r, "sweep") /\ UNCHANGED <<iIterMax, iIterCount, rounds, verdict>>
    BY <1>5 DEF Waitall, mpi
  <2>2. "wait" \in Looping /\ "sweep" \in Looping
    BY DEF Looping, Exchanging
  <2>3. pc[r] \in Looping
    BY <2>1, <2>2
  <2> QED  BY ONLY <1>u, <2>1, <2>2, <2>3
<1>6. ASSUME NEW r \in Ranks, Sweep(r)  PROVE CountOf(q)'
  <2>1. /\ pc' = [pc EXCEPT ![r] = "allreduce"] /\ pc[r] = "sweep"
        /\ rounds' = [rounds EXCEPT ![r] = @ + 1]
        /\ UNCHANGED <<iIterMax, iIterCount, verdict>>
    BY <1>6 DEF Sweep, Goto
  <2>2. \A k : Stop(k)' <=> Stop(k)
    BY <2>1 DEF Stop
  <2>3. CASE q = r
    <3>1. pc'[q] = "allreduce" /\ rounds'[q] = rounds[q] + 1
      BY <1>t, <2>1, <2>3
    <3>2. pc[q] \in Looping /\ pc'[q] \notin Looping \cup Over /\ pc[q] # "bcast"
      BY <2>1, <2>3, <3>1 DEF Looping, Over, Exchanging
    <3>3. \A k \in 1..rounds'[q] - 1 : ~Stop(k)
      BY <1>0, <1>t, <3>1, <3>2 DEF CountOf
    <3>4. rounds[q] = iIterCount[q] /\ iIterMax[q] = iIterMax[0] /\ iIterMax[0] >= 1
      BY <1>0, <1>a, <2>1, <2>3, <3>2 DEF CountOf
    <3>5. /\ rounds'[q] = iIterCount'[q] + 1 /\ iIterCount'[q] <= Len(verdict')
          /\ Len(verdict') <= rounds'[q]
      BY <1>a, <1>t, <2>1, <3>1, <3>4
    <3>6. \A k \in 1..rounds'[q] - 1 : ~Stop(k)'
      BY <2>2, <3>3
    <3> QED  BY <2>1, <3>1, <3>2, <3>4, <3>5, <3>6 DEF CountOf
  <2>4. CASE q # r
    <3>1. pc'[q] = pc[q] /\ rounds'[q] = rounds[q]
      BY <1>t, <2>1, <2>4
    <3> QED  BY <1>0, <2>1, <2>2, <3>1 DEF CountOf
  <2> QED  BY <2>3, <2>4
<1>7. ASSUME NEW r \in Ranks, Allreduce(r)  PROVE CountOf(q)'
  <2>1. PICK converged \in BOOLEAN :
          /\ IF rounds[r] <= Len(verdict)
             THEN converged = verdict[rounds[r]] /\ UNCHANGED verdict
             ELSE verdict' = Append(verdict, converged)
          /\ iIterCount' = [iIterCount EXCEPT ![r] = @ + 1]
          /\ Continue(r, iIterCount[r] + 1, iIterMax[r], converged)
    BY <1>7 DEF Allreduce
  <2>2. pc[r] = "allreduce" /\ Joined(r) /\ UNCHANGED <<iIterMax, rounds>>
    BY <1>7 DEF Allreduce
  <2>3. rounds[r] = iIterCount[r] + 1 /\ iIterMax[r] = iIterMax[0]
    BY <1>0, <2>2 DEF CountOf
  <2>4. /\ Len(verdict') \in Nat /\ Len(verdict') >= Len(verdict)
        /\ Len(verdict') >= rounds[r]
        /\ \A s \in Ranks : Len(verdict') <= rounds[s]
        /\ \A k \in 1..Len(verdict) : verdict'[k] = verdict[k]
        /\ verdict'[rounds[r]] = converged
    <3>1. \A s \in Ranks : rounds[s] >= rounds[r]
      BY <2>2 DEF Joined
    <3>2. CASE rounds[r] <= Len(verdict)
      BY <1>0, <1>t, <2>1, <3>2 DEF CountOf
    <3>3. CASE rounds[r] > Len(verdict)
      <4>1. verdict' = Append(verdict, converged) /\ rounds[r] = Len(verdict) + 1
        BY <1>0, <1>t, <2>1, <2>3, <3>3 DEF CountOf
      <4>2. /\ Len(verdict') = Len(verdict) + 1
            /\ \A k \in 1..Len(verdict) : verdict'[k] = verdict[k]
            /\ verdict'[Len(verdict) + 1] = converged
        BY ONLY <1>t, <4>1, AppendIs, converged \in BOOLEAN
      <4> QED  BY ONLY <1>t, <3>1, <4>1, <4>2
    <3> QED  BY <1>t, <3>2, <3>3
  <2>5. \A k \in 1..Len(verdict) : Stop(k)' <=> Stop(k)
    BY <1>t, <2>2, <2>4 DEF Stop
  <2>6. Stop(rounds[r])' <=> rounds[r] >= iIterMax[0] \/ converged
    BY <2>2, <2>4 DEF Stop
  <2>7. pc' = [pc EXCEPT ![r] = IF Stop(rounds[r])' THEN "error" ELSE "receive"]
    <3>1. Stop(rounds[r])' <=> ~(iIterCount[r] + 1 < iIterMax[r] /\ ~converged)
      BY <1>t, <2>3, <2>6
    <3> QED  BY <2>1, <3>1 DEF Continue, Goto
  <2>8. \A k \in 1..rounds[q] - 1 : ~Stop(k)'
    <3> SUFFICES ASSUME NEW k \in 1..rounds[q] - 1  PROVE ~Stop(k)'
      OBVIOUS
    <3>1. k \in 1..Len(verdict)
      BY <1>a, <1>t
    <3>2. ~Stop(k)
      BY <1>0 DEF CountOf
    <3> QED  BY <2>5, <3>1, <3>2
  <2>9. CASE q = r
    <3>1. /\ pc'[q] = IF Stop(rounds[q])' THEN "error" ELSE "receive"
          /\ iIterCount'[q] = iIterCount[q] + 1 /\ rounds'[q] = rounds[q]
      BY <1>t, <2>1, <2>2, <2>7, <2>9
    <3>2. /\ pc'[q] \in Looping => ~Stop(rounds[q])'
          /\ pc'[q] \in Over => Stop(rounds[q])'
          /\ pc'[q] # "bcast" /\ pc'[q] # "allreduce" /\ pc[q] # "bcast"
      BY <2>2, <2>9, <3>1 DEF Looping, Over, Exchanging
    <3>3. iIterMax'[q] = iIterMax'[0] /\ iIterMax'[0] >= 1
      BY <1>0, <2>2, <3>2 DEF CountOf
    <3> QED  BY <1>t, <2>2, <2>3, <2>4, <2>8, <2>9, <3>1, <3>2, <3>3 DEF CountOf
  <2>10. CASE q # r
    <3>1. pc'[q] = pc[q] /\ iIterCount'[q] = iIterCount[q] /\ rounds'[q] = rounds[q]
      BY <1>t, <2>1, <2>2, <2>7, <2>10
    <3>2. pc[q] \in Looping \cup Over => rounds[q] = 0 \/ rounds[q] \in 1..Len(verdict)
      <4> HAVE pc[q] \in Looping \cup Over
      <4>1. pc[q] # "allreduce"
        BY <1>b
      <4> QED  BY <1>a, <1>t, <4>1
    <3>3. /\ pc[q] \in Looping /\ rounds[q] > 0 => ~Stop(rounds[q])'
          /\ pc[q] \in Over => rounds[q] > 0 /\ Stop(rounds[q])'
      <4>1. /\ pc[q] \in Looping /\ rounds[q] > 0 => ~Stop(rounds[q])
            /\ pc[q] \in Over => rounds[q] > 0 /\ Stop(rounds[q])
        BY <1>0 DEF CountOf
      <4>2. rounds[q] \in Nat
        BY <1>t
      <4>3. CASE pc[q] \in Looping
        <5>1. pc[q] \notin Over
          BY <4>3 DEF Looping, Over, Exchanging
        <5> QED  BY <2>5, <3>1, <3>2, <4>1, <4>2, <4>3, <5>1
      <4>4. CASE pc[q] \in Over
        <5>1. pc[q] \notin Looping
          BY <4>4 DEF Looping, Over, Exchanging
        <5> QED  BY <2>5, <3>1, <3>2, <4>1, <4>2, <4>4, <5>1
      <4> QED  BY <4>3, <4>4
    <3>4. iIterCount[q] <= Len(verdict') /\ Len(verdict') <= rounds[q]
      BY <1>a, <1>t, <2>4
    <3> QED  BY <1>0, <1>t, <2>2, <2>8, <3>1, <3>3, <3>4 DEF CountOf
  <2> QED  BY <2>9, <2>10
<1>8. ASSUME NEW r \in Ranks, CheckError(r)  PROVE CountOf(q)'
  <2>1. {"error", "print", "done"} = Over
    BY DEF Over
  <2> QED  BY <1>8, <1>u, <2>1 DEF CheckError, mpi
<1>9. ASSUME NEW r \in Ranks, PrintResults(r)  PROVE CountOf(q)'
  <2>1. {"error", "print", "done"} = Over
    BY DEF Over
  <2> QED  BY <1>9, <1>u, <2>1 DEF PrintResults, mpi
<1>10. ASSUME NEW r \in Ranks, Deliver(r)  PROVE CountOf(q)'
  BY <1>10, <1>s, <1>t DEF Deliver
<1>11. CASE UNCHANGED vars
  BY <1>11, <1>s, <1>t DEF vars, mpi
<1> QED  BY <1>1, <1>2, <1>3, <1>4, <1>5, <1>6, <1>7, <1>8, <1>9, <1>10, <1>11
         DEF Next, Rank, Exchange, Terminating

-----------------------------------------------------------------------------
(* The rows. *)

\* RowInv, said of one rank.
RowOf(r) ==
    /\ \A j \in Own(r) : U[r][j] = Swept(BoundarySet, j, rounds[r])
    /\ \A j \in Stripe(r) \cap Boundary : uold[r][j].right <=> j \in BoundarySet
    /\ pc[r] \in {"wait", "sweep"} =>
          \A j \in Own(r) : uold[r][j] = Swept(BoundarySet, j, rounds[r])
    /\ pc[r] \notin Exchanging => posted[r] = {}
    /\ pc[r] \in {"sweep"} \cup Exchanging =>
          \A x \in Receives(r) \ posted[r] :
              uold[r][x[3]] = Swept(BoundarySet, x[3], rounds[r])

\* The request x of a rank gets the row of the round the rank is in.
LEMMA HeadRight ==
    ASSUME TypeOK, RowInv, ChanInv, NEW r \in Ranks, NEW x \in posted[r],
           chan[<<x[1], r, x[2]>>] # <<>>
    PROVE  Head(chan[<<x[1], r, x[2]>>]) = Swept(BoundarySet, x[3], rounds[r])
<1> DEFINE l == <<x[1], r, x[2]>>
<1>1. x \in Receives(r) /\ rounds[r] \in Nat
  BY DEF TypeOK
<1>2. l \in Links /\ Used(l) /\ x = <<l[1], l[3], LinkRow(l)>> /\ x[3] = LinkRow(l)
  BY <1>1, LinkOfRequest
<1>3. chan[l] \in Seq(Cells) /\ Len(chan[l]) \in Nat
  BY <1>2 DEF TypeOK
<1>4. Len(chan[l]) >= 1 /\ Head(chan[l]) = chan[l][1]
  BY <1>3
<1>5. Taken(l) = rounds[r]
  BY <1>1, <1>2 DEF Taken
<1>6. chan[l][1] = Swept(BoundarySet, LinkRow(l), Taken(l) + 1 - 1)
  BY <1>2, <1>3, <1>4 DEF ChanInv
<1>7. Taken(l) + 1 - 1 = rounds[r]
  BY <1>1, <1>5
<1> QED  BY <1>2, <1>4, <1>6, <1>7

LEMMA RowStep == TypeOK /\ RowInv /\ ChanInv /\ [Next]_vars => RowInv'
<1> SUFFICES ASSUME TypeOK, RowInv, ChanInv, [Next]_vars, NEW q \in Ranks  PROVE RowOf(q)'
  BY DEF RowInv, RowOf
<1>0. RowOf(q)
  BY DEF RowInv, RowOf
<1>t. /\ pc \in [Ranks -> Places] /\ rounds \in [Ranks -> Nat]
      /\ DOMAIN U = Ranks /\ DOMAIN uold = Ranks /\ DOMAIN posted = Ranks
      /\ DOMAIN U[q] = Stripe(q) /\ DOMAIN uold[q] = Stripe(q) /\ posted[q] \subseteq Receives(q)
  BY DEF TypeOK
<1>z. ASSUME zeroed' = zeroed  PROVE BoundarySet' = BoundarySet
  BY <1>z DEF BoundarySet
\* The stripe of a rank has rows of its own, rows received and boundary rows.
<1>p. /\ \A x \in Receives(q) : x[3] \in Stripe(q) /\ x[3] \notin Own(q) /\ x[3] \notin Boundary
      /\ \A j \in Own(q) : j \in Stripe(q) /\ j \notin Boundary
  <2>1. \A j \in Own(q) : j \in Stripe(q) /\ j \notin Boundary
    BY OwnInStripe, JacobiAssumption DEF Interior, Boundary
  <2> QED  BY <2>1, LinkOfRequest
\* Steps that leave the rows and the requests of q, and perhaps its place.
<1>f. ASSUME UNCHANGED <<zeroed, U[q], uold[q], rounds[q], posted[q]>>,
             \/ pc'[q] = pc[q]
             \/ pc[q] \notin Exchanging /\ pc'[q] \notin {"sweep"} \cup Exchanging
             \/ pc[q] = "send" /\ pc'[q] = "copy"
      PROVE  RowOf(q)'
  <2>1. /\ pc'[q] \in {"wait", "sweep"} => pc[q] \in {"wait", "sweep"}
        /\ pc'[q] \notin Exchanging => pc[q] \notin Exchanging
        /\ pc'[q] \in {"sweep"} \cup Exchanging => pc[q] \in {"sweep"} \cup Exchanging
    BY <1>f DEF Exchanging
  <2>2. BoundarySet' = BoundarySet
    BY <1>f, <1>z
  <2> QED  BY <1>0, <1>f, <2>1, <2>2 DEF RowOf
<1> HIDE DEF RowInv, ChanInv
<1>1. ASSUME NEW r \in Ranks, Bcast(r)  PROVE RowOf(q)'
  <2>1. UNCHANGED <<zeroed, U, uold, rounds, posted>>
    BY <1>1 DEF Bcast, mpi
  <2>2. pc[r] = "bcast" /\ (Goto(r, "receive") \/ Goto(r, "error"))
    BY <1>1 DEF Bcast, Continue
  <2>3. pc'[q] = pc[q] \/ (pc[q] = "bcast" /\ pc'[q] \in {"receive", "error"})
    BY <1>t, <2>2 DEF Goto
  <2> QED  BY <1>f, <2>1, <2>3 DEF Exchanging
<1>2. ASSUME NEW r \in Ranks, PostReceives(r)  PROVE RowOf(q)'
  <2>1. /\ UNCHANGED <<zeroed, U, uold, rounds>> /\ pc' = [pc EXCEPT ![r] = "send"]
        /\ posted' = [posted EXCEPT ![r] = Receives(r)]
    BY <1>2 DEF PostReceives, Goto
  <2>2. CASE q = r
    <3>1. pc'[q] = "send" /\ posted'[q] = Receives(q)
      BY <1>t, <2>1, <2>2
    <3>2. BoundarySet' = BoundarySet
      BY <1>z, <2>1
    <3> QED  BY <1>0, <2>1, <3>1, <3>2 DEF RowOf, Exchanging
  <2>3. CASE q # r
    <3>1. UNCHANGED <<zeroed, U[q], uold[q], rounds[q], posted[q], pc[q]>>
      BY <1>t, <2>1, <2>3
    <3> QED  BY <1>f, <3>1
  <2> QED  BY <2>2, <2>3
<1>3. ASSUME NEW r \in Ranks, PostSends(r)  PROVE RowOf(q)'
  <2>1. UNCHANGED <<zeroed, U, uold, rounds, posted>> /\ pc[r] = "send" /\ Goto(r, "copy")
    BY <1>3 DEF PostSends
  <2>2. pc'[q] = pc[q] \/ (pc[q] = "send" /\ pc'[q] = "copy")
    BY <1>t, <2>1 DEF Goto
  <2> QED  BY <1>f, <2>1, <2>2
<1>4. ASSUME NEW r \in Ranks, Copy(r)  PROVE RowOf(q)'
  <2>1. /\ UNCHANGED <<zeroed, U, rounds, posted>>
        /\ pc[r] = "copy" /\ pc' = [pc EXCEPT ![r] = "wait"]
        /\ uold' = [uold EXCEPT ![r] =
                       [j \in Stripe(r) |-> IF j \in Own(r) THEN U[r][j] ELSE uold[r][j]]]
    BY <1>4 DEF Copy, Goto, mpi
  <2>2. CASE q = r
    <3>1. pc'[q] = "wait" /\ pc[q] = "copy"
      BY <1>t, <2>1, <2>2
    <3>2. \A j \in Stripe(q) : uold'[q][j] = IF j \in Own(q) THEN U[q][j] ELSE uold[q][j]
      BY <1>t, <2>1, <2>2
    <3>3. BoundarySet' = BoundarySet
      BY <1>z, <2>1
    <3>4. /\ pc[q] \in Exchanging /\ pc'[q] \in Exchanging
      BY <3>1 DEF Exchanging
    <3>5. \A j \in Own(q) : uold'[q][j] = Swept(BoundarySet, j, rounds[q])
      BY <1>0, <1>p, <3>2 DEF RowOf
    <3>6. \A j \in Stripe(q) \cap Boundary : uold'[q][j].right <=> j \in BoundarySet
      <4> SUFFICES ASSUME NEW j \in Stripe(q) \cap Boundary
                   PROVE  uold'[q][j].right <=> j \in BoundarySet
        OBVIOUS
      <4>1. uold'[q][j] = uold[q][j]
        BY <1>p, <3>2
      <4> QED  BY <1>0, <4>1 DEF RowOf
    <3>7. \A x \in Receives(q) \ posted[q] :
              uold'[q][x[3]] = Swept(BoundarySet, x[3], rounds[q])
      BY <1>0, <1>p, <3>2, <3>4 DEF RowOf
    <3> QED  BY <1>0, <2>1, <3>3, <3>4, <3>5, <3>6, <3>7 DEF RowOf
  <2>3. CASE q # r
    <3>1. UNCHANGED <<zeroed, U[q], uold[q], rounds[q], posted[q], pc[q]>>
      BY <1>t, <2>1, <2>3
    <3> QED  BY <1>f, <3>1
  <2> QED  BY <2>2, <2>3
<1>5. ASSUME NEW r \in Ranks, Waitall(r)  PROVE RowOf(q)'
  <2>1. /\ UNCHANGED <<zeroed, U, uold, rounds, posted>> /\ posted[r] = {}
        /\ pc[r] = "wait" /\ pc' = [pc EXCEPT ![r] = "sweep"]
    BY <1>5 DEF Waitall, Goto, mpi, RequestsDone, ReceivesDone
  <2>2. CASE q = r
    <3>1. pc'[q] = "sweep" /\ pc[q] = "wait" /\ posted[q] = {}
      BY <1>t, <2>1, <2>2
    <3>2. BoundarySet' = BoundarySet
      BY <1>z, <2>1
    <3> QED  BY <1>0, <2>1, <3>1, <3>2 DEF RowOf, Exchanging
  <2>3. CASE q # r
    <3>1. UNCHANGED <<zeroed, U[q], uold[q], rounds[q], posted[q], pc[q]>>
      BY <1>t, <2>1, <2>3
    <3> QED  BY <1>f, <3>1
  <2> QED  BY <2>2, <2>3
<1>6. ASSUME NEW r \in Ranks, Sweep(r)  PROVE RowOf(q)'
  <2>1. /\ UNCHANGED <<zeroed, uold, posted>>
        /\ pc[r] = "sweep" /\ pc' = [pc EXCEPT ![r] = "allreduce"]
        /\ rounds' = [rounds EXCEPT ![r] = @ + 1]
        /\ U' = [U EXCEPT ![r] =
                    [j \in Stripe(r) |-> IF j \in Own(r) THEN Stencil(r, j) ELSE U[r][j]]]
    BY <1>6 DEF Sweep, Goto
  <2>2. CASE q = r
    <3>1. pc'[q] = "allreduce" /\ pc[q] = "sweep" /\ rounds'[q] = rounds[q] + 1
      BY <1>t, <2>1, <2>2
    <3>2. BoundarySet' = BoundarySet
      BY <1>z, <2>1
    <3>3. posted[q] = {}
      BY <1>0, <3>1 DEF RowOf, Exchanging
    <3>4. \A j \in Own(q) : U'[q][j] = Stencil(q, j)
      BY <1>p, <1>t, <2>1, <2>2
    <3>5. \A j \in Own(q) : U'[q][j] = Swept(BoundarySet, j, rounds'[q])
      BY <3>1, <3>3, <3>4, SweepRight
    <3> QED  BY <1>0, <2>1, <3>1, <3>2, <3>3, <3>5 DEF RowOf, Exchanging
  <2>3. CASE q # r
    <3>1. UNCHANGED <<zeroed, U[q], uold[q], rounds[q], posted[q], pc[q]>>
      BY <1>t, <2>1, <2>3
    <3> QED  BY <1>f, <3>1
  <2> QED  BY <2>2, <2>3
<1>7. ASSUME NEW r \in Ranks, Allreduce(r)  PROVE RowOf(q)'
  <2>1. UNCHANGED <<zeroed, U, uold, rounds, posted>>
    BY <1>7 DEF Allreduce
  <2>2. pc[r] = "allreduce" /\ (Goto(r, "receive") \/ Goto(r, "error"))
    BY <1>7 DEF Allreduce, Continue
  <2>3. pc'[q] = pc[q] \/ (pc[q] = "allreduce" /\ pc'[q] \in {"receive", "error"})
    BY <1>t, <2>2 DEF Goto
  <2> QED  BY <1>f, <2>1, <2>3 DEF Exchanging
<1>8. ASSUME NEW r \in Ranks, CheckError(r) \/ PrintResults(r)  PROVE RowOf(q)'
  <2>1. UNCHANGED <<zeroed, U, uold, rounds, posted>>
    BY <1>8 DEF CheckError, PrintResults, mpi
  <2>2. pc[r] \in {"error", "print"} /\ (Goto(r, "print") \/ Goto(r, "done"))
    BY <1>8 DEF CheckError, PrintResults
  <2>3. pc'[q] = pc[q] \/ (pc[q] \in {"error", "print"} /\ pc'[q] \in {"print", "done"})
    BY <1>t, <2>2 DEF Goto
  <2> QED  BY <1>f, <2>1, <2>3 DEF Exchanging
<1>9. ASSUME NEW r \in Ranks, Deliver(r)  PROVE RowOf(q)'
  <2>1. UNCHANGED <<pc, zeroed, U, rounds>>
    BY <1>9 DEF Deliver
  <2>2. PICK x \in posted[r] :
          /\ chan[<<x[1], r, x[2]>>] # <<>>
          /\ uold' = [uold EXCEPT ![r][x[3]] = Head(chan[<<x[1], r, x[2]>>])]
          /\ posted' = [posted EXCEPT ![r] = @ \ {x}]
    BY <1>9 DEF Deliver
  <2>3. CASE q = r
    <3>1. x \in Receives(q) /\ x[3] \in Stripe(q) /\ x[3] \notin Own(q) /\ x[3] \notin Boundary
      BY <1>p, <1>t, <2>2, <2>3
    <3>2. uold'[q][x[3]] = Swept(BoundarySet, x[3], rounds[q])
      <4>1. Head(chan[<<x[1], r, x[2]>>]) = Swept(BoundarySet, x[3], rounds[r])
        BY <2>2, HeadRight
      <4> QED  BY <1>t, <2>2, <2>3, <3>1, <4>1
    <3>3. \A j \in Stripe(q) : j # x[3] => uold'[q][j] = uold[q][j]
      BY <1>t, <2>2, <2>3
    <3>4. posted'[q] = posted[q] \ {x} /\ posted[q] # {}
      BY <1>t, <2>2, <2>3
    <3>5. BoundarySet' = BoundarySet
      BY <1>z, <2>1
    <3>6. pc[q] \in Exchanging
      BY <1>0, <3>4 DEF RowOf
    <3>7. \A y \in Receives(q) \ posted'[q] :
              uold'[q][y[3]] = Swept(BoundarySet, y[3], rounds[q])
      <4> SUFFICES ASSUME NEW y \in Receives(q), y \notin posted'[q]
                   PROVE  uold'[q][y[3]] = Swept(BoundarySet, y[3], rounds[q])
        OBVIOUS
      <4>1. CASE y[3] = x[3]
        BY <3>2, <4>1
      <4>2. CASE y[3] # x[3]
        <5>1. y \notin posted[q] /\ y[3] \in Stripe(q)
          BY <1>p, <3>4, <4>2
        <5> QED  BY <1>0, <3>3, <3>6, <4>2, <5>1 DEF RowOf
      <4> QED  BY <4>1, <4>2
    <3>8. /\ \A j \in Own(q) : uold'[q][j] = uold[q][j]
          /\ \A j \in Stripe(q) \cap Boundary : uold'[q][j] = uold[q][j]
      BY <1>p, <3>1, <3>3
    <3> QED  BY <1>0, <2>1, <3>5, <3>6, <3>7, <3>8 DEF RowOf
  <2>4. CASE q # r
    <3>1. UNCHANGED <<zeroed, U[q], uold[q], rounds[q], posted[q], pc[q]>>
      BY <1>t, <2>1, <2>2, <2>4
    <3> QED  BY <1>f, <3>1
  <2> QED  BY <2>3, <2>4
<1>10. CASE UNCHANGED vars
  BY <1>10, <1>f DEF vars, mpi
<1> QED  BY <1>1, <1>2, <1>3, <1>4, <1>5, <1>6, <1>7, <1>8, <1>9, <1>10
         DEF Next, Rank, Exchange, Terminating

-----------------------------------------------------------------------------
(* The messages. *)

\* The messages s are the rows j of the sweeps from k on.
Rolls(s, B, j, k) == \A i \in 1..Len(s) : s[i] = Swept(B, j, k + i - 1)

\* ChanInv, said of one link.
ChanOf(l) ==
    /\ Used(l) => /\ Len(chan[l]) = Sent(l) - Taken(l)
                  /\ Rolls(chan[l], BoundarySet, LinkRow(l), Taken(l))
    /\ ~Used(l) => chan[l] = <<>>

\* What is sent is the row of the sweep whose turn it is; what is taken is
\* the oldest.
LEMMA RollsAppend ==
    ASSUME NEW s \in Seq(Cells), NEW e \in Cells, NEW B, NEW j, NEW k \in Nat,
           Rolls(s, B, j, k), e = Swept(B, j, k + Len(s))
    PROVE  Rolls(Append(s, e), B, j, k) /\ Len(Append(s, e)) = Len(s) + 1
<1>1. /\ Len(Append(s, e)) = Len(s) + 1 /\ Len(s) \in Nat
      /\ \A i \in 1..Len(s) : Append(s, e)[i] = s[i]
      /\ Append(s, e)[Len(s) + 1] = e
  BY AppendIs
<1>2. SUFFICES ASSUME NEW i \in 1..Len(s) + 1
               PROVE  Append(s, e)[i] = Swept(B, j, k + i - 1)
  BY <1>1 DEF Rolls
<1>3. CASE i \in 1..Len(s)
  BY <1>1, <1>3 DEF Rolls
<1>4. CASE i = Len(s) + 1
  <2>1. k + i - 1 = k + Len(s)
    BY <1>1, <1>4
  <2> QED  BY <1>1, <1>4, <2>1
<1> QED  BY <1>1, <1>3, <1>4

LEMMA RollsTail ==
    ASSUME NEW s \in Seq(Cells), s # <<>>, NEW B, NEW j, NEW k \in Nat, Rolls(s, B, j, k)
    PROVE  Rolls(Tail(s), B, j, k + 1) /\ Len(Tail(s)) = Len(s) - 1
<1>1. /\ Len(Tail(s)) = Len(s) - 1 /\ Len(s) \in Nat /\ Len(s) >= 1
      /\ \A i \in 1..Len(s) - 1 : Tail(s)[i] = s[i + 1]
  OBVIOUS
<1>2. SUFFICES ASSUME NEW i \in 1..Len(s) - 1
               PROVE  Tail(s)[i] = Swept(B, j, k + 1 + i - 1)
  BY <1>1 DEF Rolls
<1>3. i + 1 \in 1..Len(s) /\ k + (i + 1) - 1 = k + 1 + i - 1
  BY <1>1
<1>4. s[i + 1] = Swept(B, j, k + (i + 1) - 1)
  BY <1>3 DEF Rolls
<1> QED  BY <1>1, <1>3, <1>4

LEMMA ChanStep == TypeOK /\ RowInv /\ ChanInv /\ [Next]_vars => ChanInv'
<1> SUFFICES ASSUME TypeOK, RowInv, ChanInv, [Next]_vars, NEW l \in Links  PROVE ChanOf(l)'
  BY DEF ChanInv, ChanOf, Rolls
<1>0. ChanOf(l)
  BY DEF ChanInv, ChanOf, Rolls
<1>t. /\ pc \in [Ranks -> Places] /\ rounds \in [Ranks -> Nat] /\ DOMAIN posted = Ranks
      /\ chan \in [Links -> Seq(Cells)] /\ chan[l] \in Seq(Cells)
      /\ l[1] \in Ranks /\ l[2] \in Ranks /\ l[1] # l[2]
  BY LinksAre DEF TypeOK
<1>z. ASSUME zeroed' = zeroed  PROVE BoundarySet' = BoundarySet
  BY <1>z DEF BoundarySet
<1>n. Sent(l) \in Nat /\ Taken(l) \in Nat /\ LinkRow(l) \in Int
  BY <1>t, LinksAre DEF Sent, Taken, Interior
<1>f. ASSUME zeroed' = zeroed, chan'[l] = chan[l],
             Used(l) => Sent(l)' = Sent(l) /\ Taken(l)' = Taken(l)
      PROVE  ChanOf(l)'
  <2>1. BoundarySet' = BoundarySet
    BY <1>f, <1>z
  <2> QED  BY <1>0, <1>f, <2>1 DEF ChanOf
\* Steps that neither send nor receive.
<1>m. ASSUME UNCHANGED <<zeroed, chan, rounds, posted>>,
             \A q \in Ranks :
                /\ pc'[q] \in {"copy", "wait", "sweep"} <=> pc[q] \in {"copy", "wait", "sweep"}
                /\ pc'[q] \in {"sweep"} \cup Exchanging <=> pc[q] \in {"sweep"} \cup Exchanging
      PROVE  ChanOf(l)'
  <2>1. Sent(l)' = Sent(l) /\ Taken(l)' = Taken(l)
    BY <1>m, <1>t DEF Sent, Taken
  <2> QED  BY <1>f, <1>m, <2>1
<1> HIDE DEF RowInv, ChanInv
<1>1. ASSUME NEW r \in Ranks, Bcast(r)  PROVE ChanOf(l)'
  <2>1. UNCHANGED <<zeroed, chan, rounds, posted>>
    BY <1>1 DEF Bcast, mpi
  <2>2. pc[r] = "bcast" /\ (Goto(r, "receive") \/ Goto(r, "error"))
    BY <1>1 DEF Bcast, Continue
  <2>3. \A q \in Ranks :
            pc'[q] = pc[q] \/ (pc[q] = "bcast" /\ pc'[q] \in {"receive", "error"})
    BY <1>t, <2>2 DEF Goto
  <2> QED  BY <1>m, <2>1, <2>3 DEF Exchanging
<1>2. ASSUME NEW r \in Ranks, PostReceives(r)  PROVE ChanOf(l)'
  <2>1. /\ UNCHANGED <<zeroed, chan, rounds>> /\ pc[r] = "receive"
        /\ pc' = [pc EXCEPT ![r] = "send"] /\ posted' = [posted EXCEPT ![r] = Receives(r)]
    BY <1>2 DEF PostReceives, Goto
  <2>2. Sent(l)' = Sent(l)
    <3>1. pc'[l[1]] \in {"copy", "wait", "sweep"} <=> pc[l[1]] \in {"copy", "wait", "sweep"}
      BY <1>t, <2>1
    <3> QED  BY <2>1, <3>1 DEF Sent
  <2>3. Used(l) => Taken(l)' = Taken(l)
    <3> HAVE Used(l)
    <3>1. <<l[1], l[3], LinkRow(l)>> \in Receives(l[2])
      BY RequestOfLink
    <3>2. CASE r = l[2]
      <4>1. posted'[r] = Receives(r) /\ pc[r] \notin {"sweep"} \cup Exchanging
        BY <1>t, <2>1 DEF Exchanging
      <4> QED  BY <2>1, <3>1, <3>2, <4>1 DEF Taken
    <3>3. CASE r # l[2]
      <4>1. posted'[l[2]] = posted[l[2]] /\ pc'[l[2]] = pc[l[2]]
        BY <1>t, <2>1, <3>3
      <4> QED  BY <2>1, <4>1 DEF Taken
    <3> QED  BY <3>2, <3>3
  <2> QED  BY <1>f, <2>1, <2>2, <2>3
<1>3. ASSUME NEW r \in Ranks, PostSends(r)  PROVE ChanOf(l)'
  <2>1. /\ UNCHANGED <<zeroed, rounds, posted>> /\ pc[r] = "send"
        /\ pc' = [pc EXCEPT ![r] = "copy"]
    BY <1>3 DEF PostSends, Goto
  <2>2. chan'[l] = IF l[1] = r /\ Used(l) THEN Append(chan[l], U[r][LinkRow(l)]) ELSE chan[l]
    BY <1>3, PostSendsEffect
  <2>3. Taken(l)' = Taken(l)
    <3>1. pc'[l[2]] \in {"sweep"} \cup Exchanging <=> pc[l[2]] \in {"sweep"} \cup Exchanging
      BY <1>t, <2>1 DEF Exchanging
    <3> QED  BY <2>1, <3>1 DEF Taken
  <2>4. CASE l[1] = r /\ Used(l)
    <3> DEFINE e == U[r][LinkRow(l)]
    <3>1. Sent(l)' = Sent(l) + 1 /\ Sent(l) = rounds[r]
      <4>1. pc'[l[1]] = "copy" /\ pc[l[1]] = "send"
        BY <1>t, <2>1, <2>4
      <4> QED  BY <1>t, <2>1, <2>4, <4>1 DEF Sent
    <3>2. e = Swept(BoundarySet, LinkRow(l), Sent(l))
      <4>1. LinkRow(l) \in Own(r)
        BY <2>4, LinksAre
      <4> QED  BY <3>1, <4>1 DEF RowInv
    <3>3. e \in Cells
      BY <1>n, <3>2, SweptType
    <3>4. /\ Len(chan[l]) = Sent(l) - Taken(l)
          /\ Rolls(chan[l], BoundarySet, LinkRow(l), Taken(l))
      BY <1>0, <2>4 DEF ChanOf
    <3>5. chan'[l] = Append(chan[l], e) /\ Taken(l) + Len(chan[l]) = Sent(l)
      BY <1>n, <2>2, <2>4, <3>4
    <3> HIDE DEF e
    <3>6. /\ Len(chan'[l]) = Len(chan[l]) + 1
          /\ Rolls(chan'[l], BoundarySet, LinkRow(l), Taken(l))
      BY <1>n, <1>t, <3>2, <3>3, <3>4, <3>5, RollsAppend
    <3>7. BoundarySet' = BoundarySet
      BY <1>z, <2>1
    <3>8. Len(chan'[l]) = Sent(l)' - Taken(l)'
      BY <1>n, <2>3, <3>1, <3>4, <3>6
    <3> QED  BY <2>3, <2>4, <3>6, <3>7, <3>8 DEF ChanOf
  <2>5. CASE ~(l[1] = r /\ Used(l))
    <3>1. Used(l) => Sent(l)' = Sent(l)
      <4> HAVE Used(l)
      <4>1. pc'[l[1]] = pc[l[1]]
        BY <1>t, <2>1, <2>5
      <4> QED  BY <2>1, <4>1 DEF Sent
    <3> QED  BY <1>f, <2>1, <2>2, <2>3, <2>5, <3>1
  <2> QED  BY <2>4, <2>5
<1>4. ASSUME NEW r \in Ranks, Copy(r) \/ Waitall(r)  PROVE ChanOf(l)'
  <2>1. UNCHANGED <<zeroed, chan, rounds, posted>>
    BY <1>4 DEF Copy, Waitall, mpi
  <2>2. (pc[r] = "copy" /\ Goto(r, "wait")) \/ (pc[r] = "wait" /\ Goto(r, "sweep"))
    BY <1>4 DEF Copy, Waitall
  <2>3. \A q \in Ranks :
            pc'[q] = pc[q] \/ (pc[q] \in {"copy", "wait"} /\ pc'[q] \in {"wait", "sweep"})
    BY <1>t, <2>2 DEF Goto
  <2> QED  BY <1>m, <2>1, <2>3 DEF Exchanging
<1>5. ASSUME NEW r \in Ranks, Sweep(r)  PROVE ChanOf(l)'
  <2>1. /\ UNCHANGED <<zeroed, chan, posted>> /\ pc[r] = "sweep"
        /\ pc' = [pc EXCEPT ![r] = "allreduce"] /\ rounds' = [rounds EXCEPT ![r] = @ + 1]
    BY <1>5 DEF Sweep, Goto
  <2>2. posted[r] = {}
    BY <2>1 DEF RowInv, Exchanging
  <2>3. Sent(l)' = Sent(l)
    <3>1. CASE l[1] = r
      <4>1. pc'[l[1]] = "allreduce" /\ rounds'[l[1]] = rounds[l[1]] + 1
        BY <1>t, <2>1, <3>1
      <4> QED  BY <1>t, <2>1, <3>1, <4>1 DEF Sent
    <3>2. CASE l[1] # r
      <4>1. pc'[l[1]] = pc[l[1]] /\ rounds'[l[1]] = rounds[l[1]]
        BY <1>t, <2>1, <3>2
      <4> QED  BY <4>1 DEF Sent
    <3> QED  BY <3>1, <3>2
  <2>4. Taken(l)' = Taken(l)
    <3>1. CASE l[2] = r
      <4>1. pc'[l[2]] = "allreduce" /\ rounds'[l[2]] = rounds[l[2]] + 1
        BY <1>t, <2>1, <3>1
      <4> QED  BY <1>t, <2>1, <2>2, <3>1, <4>1 DEF Taken, Exchanging
    <3>2. CASE l[2] # r
      <4>1. pc'[l[2]] = pc[l[2]] /\ rounds'[l[2]] = rounds[l[2]]
        BY <1>t, <2>1, <3>2
      <4> QED  BY <2>1, <4>1 DEF Taken
    <3> QED  BY <3>1, <3>2
  <2> QED  BY <1>f, <2>1, <2>3, <2>4
<1>6. ASSUME NEW r \in Ranks, Allreduce(r)  PROVE ChanOf(l)'
  <2>1. UNCHANGED <<zeroed, chan, rounds, posted>>
    BY <1>6 DEF Allreduce
  <2>2. pc[r] = "allreduce" /\ (Goto(r, "receive") \/ Goto(r, "error"))
    BY <1>6 DEF Allreduce, Continue
  <2>3. \A q \in Ranks :
            pc'[q] = pc[q] \/ (pc[q] = "allreduce" /\ pc'[q] \in {"receive", "error"})
    BY <1>t, <2>2 DEF Goto
  <2> QED  BY <1>m, <2>1, <2>3 DEF Exchanging
<1>7. ASSUME NEW r \in Ranks, CheckError(r) \/ PrintResults(r)  PROVE ChanOf(l)'
  <2>1. UNCHANGED <<zeroed, chan, rounds, posted>>
    BY <1>7 DEF CheckError, PrintResults, mpi
  <2>2. pc[r] \in {"error", "print"} /\ (Goto(r, "print") \/ Goto(r, "done"))
    BY <1>7 DEF CheckError, PrintResults
  <2>3. \A q \in Ranks :
            pc'[q] = pc[q] \/ (pc[q] \in {"error", "print"} /\ pc'[q] \in {"print", "done"})
    BY <1>t, <2>2 DEF Goto
  <2> QED  BY <1>m, <2>1, <2>3 DEF Exchanging
<1>8. ASSUME NEW r \in Ranks, Deliver(r)  PROVE ChanOf(l)'
  <2>1. UNCHANGED <<pc, zeroed, rounds>>
    BY <1>8 DEF Deliver
  <2>2. PICK x \in posted[r] :
          /\ chan[<<x[1], r, x[2]>>] # <<>>
          /\ chan' = [chan EXCEPT ![<<x[1], r, x[2]>>] = Tail(@)]
          /\ posted' = [posted EXCEPT ![r] = @ \ {x}]
    BY <1>8 DEF Deliver
  <2> DEFINE m == <<x[1], r, x[2]>>
  <2>3. x \in Receives(r)
    BY <2>2 DEF TypeOK
  <2>4. m \in Links /\ Used(m) /\ x = <<m[1], m[3], LinkRow(m)>>
    BY <2>3, LinkOfRequest
  <2>5. Sent(l)' = Sent(l)
    BY <2>1 DEF Sent
  <2>6. pc[r] \in Exchanging
    BY <2>2 DEF RowInv
  <2>7. CASE l = m
    <3>1. posted'[r] = posted[r] \ {x} /\ chan'[l] = Tail(chan[l]) /\ chan[l] # <<>>
      BY <1>t, <2>2, <2>7
    <3>2. Taken(l)' = Taken(l) + 1
      <4>1. l[2] = r /\ x = <<l[1], l[3], LinkRow(l)>>
        BY <2>4, <2>7
      <4> QED  BY <1>t, <2>1, <2>2, <2>6, <3>1, <4>1 DEF Taken
    <3>3. /\ Len(chan[l]) = Sent(l) - Taken(l)
          /\ Rolls(chan[l], BoundarySet, LinkRow(l), Taken(l))
      BY <1>0, <2>4, <2>7 DEF ChanOf
    <3>4. /\ Len(chan'[l]) = Len(chan[l]) - 1
          /\ Rolls(chan'[l], BoundarySet, LinkRow(l), Taken(l) + 1)
      BY <1>n, <1>t, <3>1, <3>3, RollsTail
    <3>5. BoundarySet' = BoundarySet
      BY <1>z, <2>1
    <3>6. Len(chan'[l]) = Sent(l)' - Taken(l)'
      BY <1>n, <2>5, <3>2, <3>3, <3>4
    <3> QED  BY <2>4, <2>7, <3>2, <3>4, <3>5, <3>6 DEF ChanOf
  <2>8. CASE l # m
    <3>1. chan'[l] = chan[l]
      BY <1>t, <2>2, <2>8
    <3>2. Used(l) => Taken(l)' = Taken(l)
      <4> HAVE Used(l)
      <4>1. l[2] = r => x # <<l[1], l[3], LinkRow(l)>>
        BY <2>8, LinksAre
      <4>2. CASE l[2] = r
        <5>1. posted'[l[2]] = posted[l[2]] \ {x}
          BY <1>t, <2>2, <4>2
        <5> QED  BY <2>1, <4>1, <4>2, <5>1 DEF Taken
      <4>3. CASE l[2] # r
        <5>1. posted'[l[2]] = posted[l[2]]
          BY <1>t, <2>2, <4>3
        <5> QED  BY <2>1, <5>1 DEF Taken
      <4> QED  BY <4>2, <4>3
    <3> QED  BY <1>f, <2>1, <2>5, <3>1, <3>2
  <2> QED  BY <2>7, <2>8
<1>9. CASE UNCHANGED vars
  BY <1>9, <1>m DEF vars, mpi
<1> QED  BY <1>1, <1>2, <1>3, <1>4, <1>5, <1>6, <1>7, <1>8, <1>9
         DEF Next, Rank, Exchange, Terminating

-----------------------------------------------------------------------------
(* The end. *)

Contribution(r) == [rank |-> r, rows |-> ErrorRows(r)]

LEMMA FinishedAll ==
    ASSUME EndInv, Cardinality(sums) = NumProcs
    PROVE  Finished = Ranks
<1> DEFINE f == [r \in Finished |-> Contribution(r)]
<1>1. f \in Surjection(Finished, sums)
  BY DEF EndInv, Surjection, Contribution
<1>2. Finished \in SUBSET Ranks
  BY DEF Finished
<1>3. IsFiniteSet(Finished) /\ Cardinality(Finished) <= NumProcs
      /\ (Cardinality(Finished) = NumProcs => Finished = Ranks)
  BY <1>2, FS_Subset, RanksAre
<1>4. Cardinality(sums) <= Cardinality(Finished)
  BY <1>1, <1>3, FS_Surjection
<1>5. Cardinality(Finished) \in Nat /\ NumProcs \in Nat
  BY <1>3, FS_CardinalityType, JacobiAssumption
<1> QED  BY <1>3, <1>4, <1>5

LEMMA EndStep == TypeOK /\ CountInv /\ EndInv /\ [Next]_vars => EndInv'
<1> SUFFICES ASSUME TypeOK, CountInv, EndInv, [Next]_vars  PROVE EndInv'
  OBVIOUS
<1>t. pc \in [Ranks -> Places] /\ rounds \in [Ranks -> Nat] /\ 0 \in Ranks /\ 0 \in Nat
  BY RanksAre DEF TypeOK
\* Once the summary is printed no rank moves.
<1>d. ASSUME summary.printed, NEW r \in Ranks  PROVE pc[r] = "done"
  BY <1>d DEF EndInv, Finished
\* Steps of a rank that has yet to add its rows.
<1>f. ASSUME NEW r \in Ranks, pc[r] \notin {"print", "done"},
             NEW p, p \notin {"print", "done"}, Goto(r, p), UNCHANGED <<sums, summary>>
      PROVE  EndInv'
  <2>1. ~summary.printed
    BY <1>d, <1>f
  <2>2. \A q \in Ranks : pc'[q] \in {"print", "done"} <=> pc[q] \in {"print", "done"}
    BY <1>f, <1>t DEF Goto
  <2>3. \A q \in Ranks : pc'[q] = "print" => pc[q] = "print"
    BY <1>f, <1>t DEF Goto
  <2>4. Finished' = Finished
    BY <2>2 DEF Finished
  <2> QED  BY <1>f, <2>1, <2>3, <2>4 DEF EndInv, ErrorRows
<1> HIDE DEF TypeOK, CountInv
<1>1. ASSUME NEW r \in Ranks, Bcast(r)  PROVE EndInv'
  <2>1. /\ UNCHANGED <<sums, summary>> /\ pc[r] = "bcast"
        /\ Goto(r, "receive") \/ Goto(r, "error")
    BY <1>1 DEF Bcast, Continue
  <2> QED  BY <1>f, <2>1
<1>2. ASSUME NEW r \in Ranks, Exchange(r)  PROVE EndInv'
  <2>1. /\ UNCHANGED <<sums, summary>> /\ pc[r] \in {"receive", "send", "copy", "wait"}
        /\ Goto(r, "send") \/ Goto(r, "copy") \/ Goto(r, "wait") \/ Goto(r, "sweep")
    BY <1>2 DEF Exchange, PostReceives, PostSends, Copy, Waitall
  <2> QED  BY <1>f, <2>1
<1>3. ASSUME NEW r \in Ranks, Sweep(r)  PROVE EndInv'
  <2>1. UNCHANGED <<sums, summary>> /\ pc[r] = "sweep" /\ Goto(r, "allreduce")
    BY <1>3 DEF Sweep
  <2> QED  BY <1>f, <2>1
<1>4. ASSUME NEW r \in Ranks, Allreduce(r)  PROVE EndInv'
  <2>1. /\ UNCHANGED <<sums, summary>> /\ pc[r] = "allreduce"
        /\ Goto(r, "receive") \/ Goto(r, "error")
    BY <1>4 DEF Allreduce, Continue
  <2> QED  BY <1>f, <2>1
<1>5. ASSUME NEW r \in Ranks, CheckError(r)  PROVE EndInv'
  <2>1. /\ pc[r] = "error" /\ sums' = sums \cup {Contribution(r)} /\ summary' = summary
        /\ pc' = [pc EXCEPT ![r] = IF r = 0 THEN "print" ELSE "done"]
    BY <1>5 DEF CheckError, Contribution, Goto
  <2>2. ~summary.printed
    BY <1>d, <2>1
  <2>3. Finished' = Finished \cup {r}
    BY <1>t, <2>1 DEF Finished
  <2>4. sums' = {Contribution(q) : q \in Finished'}
    BY <2>1, <2>3 DEF EndInv, Contribution
  <2>5. \A q \in Ranks : pc'[q] = "print" => q = 0
    BY <1>t, <2>1 DEF EndInv
  <2> QED  BY <2>1, <2>2, <2>4, <2>5 DEF EndInv, Contribution, ErrorRows
<1>6. ASSUME NEW r \in Ranks, PrintResults(r)  PROVE EndInv'
  <2>1. /\ pc[r] = "print" /\ Cardinality(sums) = NumProcs
        /\ summary' = IF Prints(r)
                      THEN [printed |-> TRUE, iterations |-> iIterCount[r], sums |-> sums]
                      ELSE summary
        /\ pc' = [pc EXCEPT ![r] = "done"] /\ UNCHANGED <<sums, rounds>>
    BY <1>6 DEF PrintResults, Goto, mpi
  <2>2. r = 0
    BY <2>1 DEF EndInv
  <2>3. Finished = Ranks
    BY <2>1, FinishedAll
  <2>4. Finished' = Finished
    BY <1>t, <2>1 DEF Finished
  <2>5. rounds[0] = iIterCount[0]
    <3>1. iIterCount[0] + 0 = iIterCount[0]
      BY <1>t DEF TypeOK
    <3> QED  BY <1>t, <2>1, <2>2, <3>1 DEF CountInv
  <2>6. summary' = [printed |-> TRUE, iterations |-> rounds'[0], sums |-> sums']
    BY <2>1, <2>2, <2>5 DEF Prints
  <2>7. pc'[0] = "done" /\ \A q \in Ranks : pc'[q] = "print" => q = 0
    BY <1>t, <2>1, <2>2 DEF EndInv
  <2>8. /\ summary'.printed = TRUE /\ summary'.iterations = rounds'[0]
        /\ summary'.sums = sums'
    BY <2>6
  <2>9. sums' = {[rank |-> q, rows |-> ErrorRows(q)] : q \in Finished'}
    BY <2>1, <2>4 DEF EndInv
  <2> HIDE DEF EndInv
  <2> QED  BY <2>3, <2>4, <2>7, <2>8, <2>9 DEF EndInv, ErrorRows
<1>7. ASSUME UNCHANGED <<pc, rounds, sums, summary>>  PROVE EndInv'
  BY <1>7 DEF EndInv, Finished, ErrorRows
<1>8. ASSUME NEW r \in Ranks, Deliver(r)  PROVE EndInv'
  BY <1>7, <1>8 DEF Deliver
<1>9. CASE UNCHANGED vars
  BY <1>7, <1>9 DEF vars, mpi
<1> QED  BY <1>1, <1>2, <1>3, <1>4, <1>5, <1>6, <1>8, <1>9 DEF Next, Rank, Terminating

-----------------------------------------------------------------------------

(* The rows, the rounds, the messages and the sums are what the rounds of  *)
(* the ranks say, wherever each rank is (_jacobi.cc:61-163).               *)
THEOREM Inductive == Spec => []IInv
<1>1. Init => IInv
  BY InitInv
<1>2. IInv /\ [Next]_vars => IInv'
  BY TypeStep, CountStep, RowStep, ChanStep, EndStep DEF IInv
<1> QED  BY <1>1, <1>2, PTL DEF Spec

\* Ranks that have left the loop have done as many rounds.
LEMMA SameRounds ==
    ASSUME TypeOK, CountInv, NEW r \in Ranks, NEW s \in Ranks, pc[r] \in Over, pc[s] \in Over
    PROVE  rounds[r] = rounds[s]
<1>1. rounds[r] \in Nat \ {0} /\ rounds[s] \in Nat \ {0} /\ Stop(rounds[r]) /\ Stop(rounds[s])
  BY DEF TypeOK, CountInv
<1>2. ~(rounds[r] < rounds[s])
  <2> SUFFICES ASSUME rounds[r] < rounds[s]  PROVE FALSE
    OBVIOUS
  <2>1. rounds[r] \in 1..rounds[s] - 1
    BY <1>1
  <2> QED  BY <1>1, <2>1 DEF CountInv
<1>3. ~(rounds[s] < rounds[r])
  <2> SUFFICES ASSUME rounds[s] < rounds[r]  PROVE FALSE
    OBVIOUS
  <2>1. rounds[s] \in 1..rounds[r] - 1
    BY <1>1
  <2> QED  BY <1>1, <2>1 DEF CountInv
<1> QED  BY <1>1, <1>2, <1>3

\* The rows whose error a rank adds are its own, and the boundary rows at the
\* two ends of the grid.
LEMMA ErrorRowsAre ==
    ASSUME NEW r \in Ranks, NEW j \in 0..Rows - 1
    PROVE  j \in ErrorRows(r) <=>
              \/ j \in Own(r)
              \/ j = 0 /\ r = 0
              \/ j = Rows - 1 /\ r = Last
<1>1. /\ iRowFirst(r) = First(r) /\ iRowLast(r) = First(r + 1) + 1
      /\ Own(r) = First(r) + 1..First(r + 1) /\ Stripe(r) = First(r)..First(r + 1) + 1
      /\ First(r) \in Nat /\ First(r + 1) \in Nat /\ First(r) + 1 <= First(r + 1)
      /\ (First(r) = 0 <=> r = 0) /\ (First(r + 1) = Rows - 2 <=> r = Last)
      /\ First(r + 1) <= Rows - 2 /\ Rows \in Nat
  BY StripeRows, JacobiAssumption DEF Interior
<1> QED  BY <1>1 DEF ErrorRows

LEMMA EachRowOnce ==
    ASSUME NEW j \in 0..Rows - 1
    PROVE  \E r \in Ranks : \A q \in Ranks : j \in ErrorRows(q) <=> q = r
<1>1. j = 0 \/ j = Rows - 1 \/ j \in Interior
  BY JacobiAssumption DEF Interior
<1>2. 0 \notin Interior /\ Rows - 1 \notin Interior /\ 0 # Rows - 1
  BY JacobiAssumption DEF Interior
<1>3. \A q \in Ranks : Own(q) \subseteq Interior
  BY StripeRows
<1>4. CASE j = 0
  BY <1>2, <1>3, <1>4, ErrorRowsAre, RanksAre
<1>5. CASE j = Rows - 1
  BY <1>2, <1>3, <1>5, ErrorRowsAre, RanksAre
<1>6. CASE j \in Interior
  <2>1. PICK r \in Ranks : j \in Own(r)
    BY <1>6, OwnerExists
  <2>2. \A q \in Ranks : j \in Own(q) <=> q = r
    BY <2>1, OwnersApart
  <2> QED  BY <1>2, <1>6, <2>2, ErrorRowsAre
<1> QED  BY <1>1, <1>4, <1>5, <1>6

LEMMA InvIsEnough == IInv => ErrorOfTheGrid
<1> SUFFICES ASSUME IInv, summary.printed
             PROVE  /\ \A j \in 0..Rows - 1 :
                          Cardinality({s \in summary.sums : j \in s.rows}) = 1
                    /\ \A r \in Ranks : rounds[r] = summary.iterations
  BY DEF ErrorOfTheGrid
<1>1. /\ Finished = Ranks /\ summary.iterations = rounds[0]
      /\ summary.sums = {Contribution(r) : r \in Ranks}
  BY DEF IInv, EndInv, Contribution
<1>2. ASSUME NEW j \in 0..Rows - 1
      PROVE  Cardinality({s \in summary.sums : j \in s.rows}) = 1
  <2>1. PICK r \in Ranks : \A q \in Ranks : j \in ErrorRows(q) <=> q = r
    BY EachRowOnce
  <2>2. {s \in summary.sums : j \in s.rows} = {Contribution(r)}
    BY <1>1, <2>1 DEF Contribution
  <2> QED  BY <2>2, FS_Singleton
<1>3. ASSUME NEW r \in Ranks  PROVE rounds[r] = summary.iterations
  <2>1. pc[r] \in Over /\ pc[0] \in Over /\ 0 \in Ranks
    BY <1>1, RanksAre DEF Finished, Over
  <2> QED  BY <1>1, <2>1, SameRounds DEF IInv
<1> QED  BY <1>2, <1>3

(* The summary of rank 0 counts the error of every row of the grid once,   *)
(* and every rank has done the sweeps it says, however the grid is divided *)
(* (_main.cc:212-231).                                                     *)
THEOREM ErrorSafe == Spec => []ErrorOfTheGrid
  BY Inductive, InvIsEnough, PTL

-----------------------------------------------------------------------------
(* The ranks do the sweeps of the whole grid. *)

Values == [j \in Interior |-> U[OwnerOf(j)][j]]

LEMMA ValueIs == \A j, k : Promise!Value(j, k) = Swept(BoundarySet, j, k)
  BY DEF Promise!Value, Promise!Edges, Promise!Reaches, Swept, Right, Row, Boundary

LEMMA ValuesAre ==
    ASSUME TypeOK, RowInv, NEW j \in Interior
    PROVE  /\ Values[j] = Swept(BoundarySet, j, rounds[OwnerOf(j)])
           /\ Values[j].sweeps = rounds[OwnerOf(j)]
<1>1. OwnerOf(j) \in Ranks /\ j \in Own(OwnerOf(j)) /\ j \in Int
  BY OwnerOwns DEF Interior
<1>2. U[OwnerOf(j)][j] = Swept(BoundarySet, j, rounds[OwnerOf(j)])
  BY <1>1 DEF RowInv
<1> QED  BY <1>2 DEF Values, Swept, Row

\* A rank that has what it waits for is not ahead of a neighbour, nor is the
\* neighbour more than one round ahead.
LEMMA NeighbourRounds ==
    ASSUME TypeOK, CountInv, RowInv, ChanInv,
           NEW r \in Ranks, pc[r] = "sweep", NEW s \in Ranks, r = s + 1 \/ s = r + 1
    PROVE  rounds[s] \in {rounds[r], rounds[r] + 1}
<1> DEFINE l == <<s, r, IF r = s + 1 THEN iTagMoveRight ELSE iTagMoveLeft>>
<1>1. l \in Links /\ Used(l) /\ l[1] = s /\ l[2] = r
  BY DEF Links, Used, Tags, iTagMoveLeft, iTagMoveRight
<1> HIDE DEF l
<1>2. /\ rounds[s] \in Nat /\ rounds[r] \in Nat /\ iIterCount[s] \in Nat
      /\ chan[l] \in Seq(Cells) /\ Len(chan[l]) \in Nat
      /\ Len(verdict) \in Nat
  BY <1>1 DEF TypeOK
<1>3. posted[r] = {}
  BY DEF RowInv, Exchanging
<1>4. Taken(l) = rounds[r] + 1
  BY <1>1, <1>3 DEF Taken
<1>5. Len(chan[l]) = Sent(l) - Taken(l)
  BY <1>1 DEF ChanInv
<1>6. Sent(l) <= rounds[s] + 1 /\ Sent(l) \in Nat
  BY <1>1, <1>2 DEF Sent
<1>7. rounds[s] >= rounds[r]
  BY <1>2, <1>4, <1>5, <1>6
<1>8. rounds[s] <= iIterCount[s] + 1 /\ iIterCount[s] <= Len(verdict) /\ Len(verdict) <= rounds[r]
  BY <1>2 DEF CountInv
<1> QED  BY <1>2, <1>7, <1>8

LEMMA SweepMaps ==
    ASSUME IInv, NEW r \in Ranks, Sweep(r)
    PROVE  Promise!SweepRows(Own(r)) /\ Own(r) \in SUBSET Promise!Inside
<1>1. /\ pc[r] = "sweep" /\ posted[r] = {} /\ UNCHANGED <<zeroed, summary>>
      /\ U' = [U EXCEPT ![r] =
                  [j \in Stripe(r) |-> IF j \in Own(r) THEN Stencil(r, j) ELSE U[r][j]]]
  <2>1. posted[r] = {}
    BY DEF IInv, RowInv, Sweep, Exchanging
  <2> QED  BY <2>1 DEF Sweep
<1>2. TypeOK /\ CountInv /\ RowInv /\ ChanInv
  BY DEF IInv
<1>3. ASSUME NEW j \in Own(r), NEW i \in Interior, i = j + 1 \/ j = i + 1
      PROVE  Values[i].sweeps \in {Values[j].sweeps, Values[j].sweeps + 1}
  <2> DEFINE s == OwnerOf(i)
  <2>1. j \in Interior /\ j \in Int /\ i \in Int /\ OwnerOf(j) = r
    BY OwnInStripe, OwnerIs DEF Interior
  <2>2. Values[j].sweeps = rounds[r] /\ Values[i].sweeps = rounds[s]
    BY <1>2, <2>1, ValuesAre
  <2>3. s \in Ranks /\ i \in Own(s)
    BY OwnerOwns
  <2> HIDE DEF s
  <2>4. s = r \/ r = s + 1 \/ s = r + 1
    <3>1. /\ Own(r) = First(r) + 1..First(r + 1) /\ Own(s) = First(s) + 1..First(s + 1)
          /\ r \in Nat /\ s \in Nat
          /\ First(r) \in Nat /\ First(r + 1) \in Nat /\ First(s) \in Nat /\ First(s + 1) \in Nat
      BY <2>3, StripeRows
    <3>2. ~(r + 1 < s) /\ ~(s + 1 < r)
      <4>1. r + 1 < s => First(r + 1) + 1 <= First(s)
        BY <3>1, FirstRow
      <4>2. s + 1 < r => First(s + 1) + 1 <= First(r)
        BY <3>1, FirstRow
      <4>3. /\ j >= First(r) + 1 /\ j <= First(r + 1) /\ i >= First(s) + 1 /\ i <= First(s + 1)
        BY <2>3, <3>1
      <4> QED  BY <1>3, <2>1, <3>1, <4>1, <4>2, <4>3
    <3> QED  BY <3>1, <3>2
  <2> QED  BY <1>1, <1>2, <2>2, <2>3, <2>4, NeighbourRounds
<1>4. Values' = [j \in Interior |-> IF j \in Own(r) THEN Promise!Value(j, Values[j].sweeps + 1)
                                    ELSE Values[j]]
  <2>1. DOMAIN U = Ranks
    BY <1>2 DEF TypeOK
  <2>2. ASSUME NEW j \in Interior, j \in Own(r)
        PROVE  U'[OwnerOf(j)][j] = Promise!Value(j, Values[j].sweeps + 1)
    <3>1. OwnerOf(j) = r /\ j \in Stripe(r)
      BY <2>2, OwnerIs, OwnInStripe
    <3>2. U'[r][j] = Stencil(r, j)
      BY <1>1, <2>1, <2>2, <3>1
    <3>3. Stencil(r, j) = Swept(BoundarySet, j, rounds[r] + 1)
      BY <1>1, <1>2, <2>2, SweepRight
    <3>4. Values[j].sweeps = rounds[r]
      BY <1>2, <3>1, ValuesAre
    <3> QED  BY <3>1, <3>2, <3>3, <3>4, ValueIs
  <2>3. ASSUME NEW j \in Interior, j \notin Own(r)
        PROVE  U'[OwnerOf(j)][j] = Values[j]
    <3>1. OwnerOf(j) \in Ranks /\ OwnerOf(j) # r
      BY <2>3, OwnerOwns
    <3> QED  BY <1>1, <2>1, <3>1 DEF Values
  <2>4. Values' = [j \in Interior |-> U'[OwnerOf(j)][j]]
    BY DEF Values, OwnerOf, Own, Interior
  <2> QED  BY <2>2, <2>3, <2>4
<1>5. BoundarySet' = BoundarySet /\ summary'.printed = summary.printed
  BY <1>1 DEF BoundarySet
<1>6. \A j \in Own(r) : \A i \in Promise!Neighbours(j) :
          Values[i].sweeps \in {Values[j].sweeps, Values[j].sweeps + 1}
  BY <1>3 DEF Promise!Neighbours, Promise!Inside, Interior
<1>7. Promise!SweepRows(Own(r))
  BY <1>4, <1>5, <1>6 DEF Promise!SweepRows, Promise!Inside, Interior, Values
<1> QED  BY <1>7, StripeRows DEF Promise!Inside, Interior

LEMMA PrintMaps ==
    ASSUME IInv, NEW r \in Ranks, PrintResults(r)
    PROVE  Promise!Finish
<1>1. /\ pc[r] = "print" /\ Cardinality(sums) = NumProcs /\ r = 0
      /\ UNCHANGED <<U, zeroed>> /\ summary'.printed = TRUE
  <2>1. r = 0
    BY DEF IInv, EndInv, PrintResults
  <2> QED  BY <2>1 DEF PrintResults, Prints
<1>2. Finished = Ranks
  BY <1>1, FinishedAll DEF IInv
<1>3. \A i, j \in Interior : Values[i].sweeps = Values[j].sweeps
  <2> SUFFICES ASSUME NEW i \in Interior, NEW j \in Interior
               PROVE  Values[i].sweeps = Values[j].sweeps
    OBVIOUS
  <2>1. OwnerOf(i) \in Ranks /\ OwnerOf(j) \in Ranks
    BY OwnerOwns
  <2>2. pc[OwnerOf(i)] \in Over /\ pc[OwnerOf(j)] \in Over
    BY <1>2, <2>1 DEF Finished, Over
  <2>3. rounds[OwnerOf(i)] = rounds[OwnerOf(j)]
    BY <2>1, <2>2, SameRounds DEF IInv
  <2> QED  BY <2>3, ValuesAre DEF IInv
<1>4. Values' = Values /\ BoundarySet' = BoundarySet
  BY <1>1 DEF Values, BoundarySet, OwnerOf
<1> QED  BY <1>1, <1>3, <1>4 DEF Promise!Finish, Promise!Inside, Interior, Values

LEMMA PromiseStep ==
    ASSUME IInv, [Next]_vars
    PROVE  [Promise!PromiseNext]_<<Values, BoundarySet, summary.printed>>
<1> DEFINE Goal == [Promise!PromiseNext]_<<Values, BoundarySet, summary.printed>>
<1>f. ASSUME UNCHANGED <<U, zeroed, summary>>  PROVE Goal
  BY <1>f DEF Values, BoundarySet, OwnerOf
<1>1. ASSUME NEW r \in Ranks, Bcast(r) \/ Exchange(r) \/ Allreduce(r) \/ CheckError(r) \/ Deliver(r)
      PROVE  Goal
  <2>1. UNCHANGED <<U, zeroed, summary>>
    BY <1>1 DEF Bcast, Exchange, PostReceives, PostSends, Copy, Waitall, Allreduce, CheckError,
                Deliver
  <2> QED  BY <1>f, <2>1
<1>2. ASSUME NEW r \in Ranks, Sweep(r)  PROVE Goal
  BY <1>2, SweepMaps DEF Promise!PromiseNext
<1>3. ASSUME NEW r \in Ranks, PrintResults(r)  PROVE Goal
  BY <1>3, PrintMaps DEF Promise!PromiseNext
<1>4. CASE UNCHANGED vars
  BY <1>4, <1>f DEF vars
<1> QED  BY <1>1, <1>2, <1>3, <1>4 DEF Next, Rank, Terminating

LEMMA PromiseStarts == Init => Promise!PromiseInit
<1> SUFFICES ASSUME Init  PROVE Promise!PromiseInit
  OBVIOUS
<1>1. IInv
  BY InitInv
<1>2. \A j \in Interior : Values[j] = Promise!Value(j, 0)
  <2> SUFFICES ASSUME NEW j \in Interior  PROVE Values[j] = Promise!Value(j, 0)
    OBVIOUS
  <2>1. rounds[OwnerOf(j)] = 0
    BY OwnerOwns DEF Init
  <2> QED  BY <1>1, <2>1, ValuesAre, ValueIs DEF IInv
<1>3. BoundarySet \in SUBSET Promise!Edges
  BY BoundarySetType DEF Promise!Edges, Boundary
<1>4. summary.printed = FALSE
  BY DEF Init, NoSummary
<1> QED  BY <1>2, <1>3, <1>4 DEF Promise!PromiseInit, Promise!Inside, Interior, Values

(* The ranks, with their messages in every order and their receives and    *)
(* sends over in every order, sweep the rows of one grid: each row from    *)
(* the values of the sweep before, and what nobody has set spreads by one  *)
(* row per sweep (_jacobi.cc:61-95, 119-163).                              *)
THEOREM Implements == Spec => KeepsPromise
<1>1. IInv /\ [Next]_vars => [Promise!PromiseNext]_<<Values, BoundarySet, summary.printed>>
  BY PromiseStep
<1> QED  BY Inductive, PromiseStarts, <1>1, PTL
         DEF Spec, KeepsPromise, Promise!PromiseSpec, Values
=============================================================================
