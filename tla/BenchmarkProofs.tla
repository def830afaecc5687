---------------------------- MODULE BenchmarkProofs ----------------------------
(***************************************************************************)
(* Theorems about HaloExchange, for any number of ranks, any grids and any *)
(* number of exchanges, and, at the end, about GpuBurn, for any number of  *)
(* devices.  The shifts of a periodic grid come in pairs of inverses, so   *)
(* that the two ends of a pair of ranks ask for the same requests; each    *)
(* end lists them in the order of its loops, and two ordered lists of sets *)
(* that begin alike agree position by position, which is how MPI matches   *)
(* messages that all have one tag.                                         *)
(***************************************************************************)
EXTENDS HaloExchange, GpuBurn, FiniteSetTheorems, WellFoundedInduction, TLAPS

\* A set of naturals that is not empty has a least member.
LEMMA NatMin ==
  ASSUME NEW S \in SUBSET Nat, S # {}
  PROVE  \E n \in S : \A m \in S : n <= m
<1> DEFINE R == OpToRel(<, Nat)
<1>1. IsWellFoundedOn(R, Nat)
  BY NatLessThanWellFounded
<1>2. PICK n \in S : \A m \in S : ~(<<m, n>> \in R)
  BY <1>1, WFMin
<1>3. \A m \in S : ~(m < n)
  BY <1>2 DEF OpToRel
<1> QED  BY <1>3

\* Induction, for a set of naturals.
LEMMA NatSetInduction ==
  ASSUME NEW S \in SUBSET Nat, 0 \in S, \A n \in Nat : n \in S => n + 1 \in S
  PROVE  S = Nat
<1>1. SUFFICES ASSUME NEW x \in Nat \ S  PROVE FALSE
  OBVIOUS
<1>2. PICK n \in Nat \ S : \A m \in Nat \ S : n <= m
  BY NatMin
<1>3. n - 1 \in Nat /\ n - 1 \notin S
  BY <1>2
<1> QED  BY <1>2, <1>3

-----------------------------------------------------------------------------
(* Products, and the arithmetic of the grid. *)

ProductOf(dims, p) ==
  /\ p \in [0 .. Len(dims) -> Nat \ {0}]
  /\ p[0] = 1
  /\ \A n \in 1 .. Len(dims) : p[n] = dims[n] * p[n - 1]

\* The recursive function of Product exists.
LEMMA ProductExists ==
  ASSUME NEW dims \in Seq(Nat \ {0})
  PROVE  \E p : ProductOf(dims, p) /\ Product(dims) = p[Len(dims)]
<1> DEFINE F(N, p) == p = [n \in 0 .. N |-> IF n = 0 THEN 1 ELSE dims[n] * p[n - 1]]
           S == {N \in Nat : \E p : F(N, p)}
<1>1. 0 \in S
  <2> DEFINE p == [n \in 0 .. 0 |-> 1]
  <2>1. F(0, p)
    OBVIOUS
  <2> QED  BY <2>1
<1>2. ASSUME NEW N \in Nat, N \in S  PROVE N + 1 \in S
  <2>1. PICK p : F(N, p)
    BY <1>2
  <2> DEFINE g == [n \in 0 .. N + 1 |-> IF n = N + 1 THEN dims[n] * p[N] ELSE p[n]]
  <2>2. \A n \in 0 .. N + 1 : g[n] = IF n = 0 THEN 1 ELSE dims[n] * g[n - 1]
    <3>1. \A n \in 0 .. N : p[n] = IF n = 0 THEN 1 ELSE dims[n] * p[n - 1]
      BY ONLY <2>1
    <3>2. \A n \in 0 .. N : g[n] = p[n]
      OBVIOUS
    <3>3. g[N + 1] = dims[N + 1] * p[N]
      OBVIOUS
    <3>4. \A n \in 0 .. N + 1 : n = N + 1 \/ (n \in 0 .. N /\ (n = 0 \/ n - 1 \in 0 .. N))
      OBVIOUS
    <3> HIDE DEF g
    <3> QED  BY <3>1, <3>2, <3>3, <3>4
  <2>3. F(N + 1, g)
    <3>1. [n \in 0 .. N + 1 |-> IF n = 0 THEN 1 ELSE dims[n] * g[n - 1]]
            = [n \in 0 .. N + 1 |-> g[n]]
      BY ONLY <2>2
    <3>2. [n \in 0 .. N + 1 |-> g[n]] = g
      OBVIOUS
    <3> QED  BY <3>1, <3>2
  <2> HIDE DEF g, F
  <2> QED  BY <2>3
<1> HIDE DEF S
<1>3. S = Nat
  <2>1. S \in SUBSET Nat
    BY DEF S
  <2> QED  BY ONLY <1>1, <1>2, <2>1, NatSetInduction
<1>4. \E p : F(Len(dims), p)
  BY <1>3 DEF S
<1>5. PICK p : F(Len(dims), p) /\ Product(dims) = p[Len(dims)]
  BY <1>4 DEF Product
<1>6. p[0] = 1 /\ \A n \in 1 .. Len(dims) : p[n] = dims[n] * p[n - 1]
  <2>1. \A n \in 0 .. Len(dims) : p[n] = IF n = 0 THEN 1 ELSE dims[n] * p[n - 1]
    BY ONLY <1>5
  <2>2. 0 \in 0 .. Len(dims) /\ \A n \in 1 .. Len(dims) : n \in 0 .. Len(dims) /\ n # 0
    OBVIOUS
  <2> QED  BY ONLY <2>1, <2>2
<1>7. \A n \in 0 .. Len(dims) : p[n] \in Nat \ {0}
  <2> DEFINE T == {n \in Nat : n <= Len(dims) => p[n] \in Nat \ {0}}
  <2>1. 0 \in T
    BY <1>6
  <2>2. ASSUME NEW n \in Nat, n \in T  PROVE n + 1 \in T
    <3> SUFFICES ASSUME n + 1 <= Len(dims)  PROVE p[n + 1] \in Nat \ {0}
      OBVIOUS
    <3>1. p[n + 1] = dims[n + 1] * p[n] /\ dims[n + 1] \in Nat \ {0} /\ p[n] \in Nat \ {0}
      BY <1>6, <2>2
    <3> QED  BY <3>1
  <2> HIDE DEF T
  <2>3. T = Nat
    <3>1. T \in SUBSET Nat
      BY DEF T
    <3> QED  BY ONLY <2>1, <2>2, <3>1, NatSetInduction
  <2> QED  BY <2>3 DEF T
<1>8. DOMAIN p = 0 .. Len(dims) /\ p = [n \in 0 .. Len(dims) |-> p[n]]
  BY <1>5
<1> QED  BY <1>5, <1>6, <1>7, <1>8 DEF ProductOf

\* A dimension divides the grid into blocks of stride times its length.
LEMMA Blocks ==
  ASSUME NEW dims \in Seq(Nat \ {0}), NEW i \in 1 .. Len(dims)
  PROVE  /\ Product(dims) \in Nat \ {0} /\ Stride(dims, i) \in Nat \ {0}
         /\ \E h \in Nat \ {0} : Product(dims) = (h * dims[i]) * Stride(dims, i)
<1> DEFINE rest == SubSeq(dims, i + 1, Len(dims))
           L == Len(dims)
<1>1. /\ rest \in Seq(Nat \ {0}) /\ Len(rest) = L - i /\ L \in Nat /\ i \in Nat
      /\ \A n \in 1 .. L - i : rest[n] = dims[i + n]
  OBVIOUS
<1> HIDE DEF rest
<1>2. PICK p : ProductOf(dims, p) /\ Product(dims) = p[L]
  BY ProductExists
<1>3. PICK g : ProductOf(rest, g) /\ Product(rest) = g[L - i]
  BY <1>1, ProductExists
<1>4. \A n \in 0 .. L : p[n] \in Nat \ {0}
  BY <1>2 DEF ProductOf
<1>5. \A n \in 0 .. L - i : g[n] \in Nat \ {0}
  BY <1>1, <1>3 DEF ProductOf
<1>6. p[L] = p[i] * g[L - i]
  <2> DEFINE T == {n \in Nat : n <= L - i => p[i + n] = p[i] * g[n]}
  <2>1. 0 \in T
    BY <1>1, <1>3, <1>4 DEF ProductOf
  <2>2. ASSUME NEW n \in Nat, n \in T  PROVE n + 1 \in T
    <3>s. SUFFICES ASSUME n + 1 <= L - i  PROVE p[i + (n + 1)] = p[i] * g[n + 1]
      OBVIOUS
    <3>1. p[i + (n + 1)] = dims[i + (n + 1)] * p[i + n]
      <4>1. i + (n + 1) \in 1 .. L /\ (i + (n + 1)) - 1 = i + n
        <5> HIDE DEF L
        <5> QED  BY ONLY <1>1, <3>s, n \in Nat, i \in Nat
      <4> QED  BY <1>2, <4>1 DEF ProductOf
    <3>2. g[n + 1] = dims[i + (n + 1)] * g[n]
      <4>1. n + 1 \in 1 .. Len(rest) /\ (n + 1) - 1 = n
        <5> HIDE DEF L
        <5> QED  BY ONLY <1>1, <3>s, n \in Nat, i \in Nat
      <4> QED  BY <1>1, <1>3, <4>1 DEF ProductOf
    <3>3. p[i + n] = p[i] * g[n]
      <4>1. n <= L - i
        <5> HIDE DEF L
        <5> QED  BY ONLY <1>1, <3>s, n \in Nat, i \in Nat
      <4> QED  BY <2>2, <4>1
    <3>4. p[i] \in Nat /\ g[n] \in Nat /\ dims[i + (n + 1)] \in Nat
      <4>1. i \in 0 .. L /\ n \in 0 .. L - i /\ i + (n + 1) \in 1 .. L
        <5> HIDE DEF L
        <5> QED  BY ONLY <1>1, <3>s, n \in Nat, i \in 1 .. L
      <4> QED  BY <1>4, <1>5, <4>1
    <3> DEFINE x == p[i]
               y == g[n]
               z == dims[i + (n + 1)]
    <3> HIDE DEF x, y, z
    <3>5. z * (x * y) = x * (z * y)
      BY <3>4 DEF x, y, z
    <3> QED  BY <3>1, <3>2, <3>3, <3>5 DEF x, y, z
  <2> HIDE DEF T
  <2>3. T = Nat
    <3>1. T \in SUBSET Nat
      BY DEF T
    <3> QED  BY ONLY <2>1, <2>2, <3>1, NatSetInduction
  <2>4. L - i \in T /\ i + (L - i) = L
    BY <1>1, <2>3
  <2> QED  BY <2>4 DEF T
<1>7. p[i] = dims[i] * p[i - 1] /\ p[i - 1] \in Nat \ {0} /\ dims[i] \in Nat \ {0}
  BY <1>2, <1>4 DEF ProductOf
<1>8. Stride(dims, i) = g[L - i] /\ g[L - i] \in Nat \ {0} /\ p[L] \in Nat \ {0}
  <2>1. L - i \in 0 .. L - i /\ L \in 0 .. L
    <3> HIDE DEF L
    <3> QED  BY ONLY <1>1, i \in 1 .. L
  <2>2. g[L - i] \in Nat \ {0} /\ p[L] \in Nat \ {0}
    BY <1>4, <1>5, <2>1
  <2>3. Stride(dims, i) = g[L - i]
    BY <1>1, <1>3 DEF Stride, rest
  <2> QED  BY ONLY <2>2, <2>3
<1>9. p[L] = (p[i - 1] * dims[i]) * g[L - i]
  BY <1>6, <1>7, <1>8
<1> QED  BY <1>2, <1>7, <1>8, <1>9

\* Division by a positive number, and the quotient from a remainder.
LEMMA DivMod ==
  ASSUME NEW a \in Nat, NEW n \in Nat \ {0}
  PROVE  /\ a \div n \in Nat /\ a % n \in 0 .. n - 1
         /\ a = n * (a \div n) + (a % n)
  OBVIOUS

LEMMA DivModUnique ==
  ASSUME NEW a \in Int, NEW n \in Nat \ {0}, NEW q \in Int, NEW e \in 0 .. n - 1, a = n * q + e
  PROVE  a \div n = q /\ a % n = e
  OBVIOUS

\* One step around a ring of length d, and back.
LEMMA Ring ==
  ASSUME NEW d \in Nat \ {0}, NEW x \in 0 .. d - 1
  PROVE  /\ (x + 1) % d \in 0 .. d - 1 /\ (x + (-1)) % d \in 0 .. d - 1
         /\ (((x + 1) % d) + (-1)) % d = x
         /\ (((x + (-1)) % d) + 1) % d = x
         /\ d >= 3 => (x + 1) % d # (x + (-1)) % d
<1> DEFINE f == IF x + 1 = d THEN 0 ELSE x + 1
           g == IF x = 0 THEN d - 1 ELSE x - 1
<1>0. d * 0 = 0 /\ d * 1 = d /\ d * (-1) = -d
  OBVIOUS
<1>1. (x + 1) % d = f
  <2>1. CASE x + 1 = d
    BY <1>0, <2>1, DivModUnique
  <2>2. CASE x + 1 # d
    BY <1>0, <2>2, DivModUnique
  <2> QED  BY <2>1, <2>2
<1>2. (x + (-1)) % d = g
  <2>1. CASE x = 0
    BY <1>0, <2>1, DivModUnique
  <2>2. CASE x # 0
    BY <1>0, <2>2, DivModUnique
  <2> QED  BY <2>1, <2>2
<1>3. (f + (-1)) % d = x
  <2>1. CASE x + 1 = d
    BY <1>0, <2>1, DivModUnique
  <2>2. CASE x + 1 # d
    BY <1>0, <2>2, DivModUnique
  <2> QED  BY <2>1, <2>2
<1>4. (g + 1) % d = x
  <2>1. CASE x = 0
    BY <1>0, <2>1, DivModUnique
  <2>2. CASE x # 0
    BY <1>0, <2>2, DivModUnique
  <2> QED  BY <2>1, <2>2
<1> QED  BY <1>1, <1>2, <1>3, <1>4

\* Shifting forth and back in the grid: MPI_Cart_shift gives each rank as its
\* source the rank whose destination it is.
LEMMA Shifts ==
  ASSUME NEW dims \in Seq(Nat \ {0}), NEW i \in 1 .. Len(dims),
         NEW c \in 0 .. Product(dims) - 1
  PROVE  /\ Shift(dims, c, i, 1) \in 0 .. Product(dims) - 1
         /\ Shift(dims, c, i, -1) \in 0 .. Product(dims) - 1
         /\ Shift(dims, Shift(dims, c, i, 1), i, -1) = c
         /\ Shift(dims, Shift(dims, c, i, -1), i, 1) = c
         /\ dims[i] >= 3 => Shift(dims, c, i, 1) # Shift(dims, c, i, -1)
<1> DEFINE t == Stride(dims, i)
           d == dims[i]
           x == (c \div t) % d
           P == Product(dims)
<1>1. t \in Nat \ {0} /\ d \in Nat \ {0} /\ P \in Nat \ {0}
  BY Blocks
<1>2. PICK h \in Nat \ {0} : P = (h * d) * t
  BY Blocks
<1>3. \A b \in Nat, by \in Int : Shift(dims, b, i, by) =
        b + (((((b \div t) % d) + by) % d) - ((b \div t) % d)) * t
  BY DEF Shift
<1>4. c \in Nat /\ c < P
  BY <1>1
<1> HIDE DEF t, d, P
<1>5. x \in 0 .. d - 1
  BY <1>1, <1>4, DivMod
<1>6. ASSUME NEW e \in 0 .. d - 1
      PROVE  /\ c + (e - x) * t \in Nat /\ c + (e - x) * t < P
             /\ ((c + (e - x) * t) \div t) % d = e
  <2> DEFINE q == c \div t
             rem == c % t
             u == q \div d
             m == h * d
             q2 == d * u + e
             b == c + (e - x) * t
  <2>0. t \in Nat \ {0} /\ d \in Nat \ {0} /\ e \in 0 .. d - 1 /\ h \in Nat \ {0}
    BY <1>1
  <2>1. q \in Nat /\ rem \in 0 .. t - 1 /\ c = t * q + rem
    BY ONLY <1>4, <2>0, DivMod
  <2>2. x = q % d
    OBVIOUS
  <2> HIDE DEF q, rem, x
  <2>3. x \in 0 .. d - 1 /\ u \in Nat /\ q = d * u + x
    BY ONLY <2>0, <2>1, <2>2, DivMod
  <2>4. b = c + (e - x) * t
    OBVIOUS
  <2> HIDE DEF u, b
  <2>5. m \in Nat /\ P = m * t
    BY <1>2, <2>0
  <2>6. u < h
    <3>1. q < m
      <4> HIDE DEF m
      <4> QED  BY ONLY <1>4, <2>0, <2>1, <2>5
    <3>2. d * u < d * h
      BY ONLY <2>0, <2>1, <2>3, <3>1
    <3> QED  BY ONLY <2>0, <2>3, <3>2
  <2>7. q2 \in Nat /\ q2 + 1 <= m
    <3>1. d * (u + 1) <= d * h
      BY ONLY <2>0, <2>3, <2>6
    <3>2. d * (u + 1) = d * u + d /\ d * u \in Nat /\ d * h = m
      BY ONLY <2>0, <2>3
    <3> QED  BY ONLY <2>0, <2>3, <3>1, <3>2
  <2>8. q2 % d = e
    <3>1. q2 = d * u + e
      OBVIOUS
    <3> HIDE DEF q2
    <3> QED  BY ONLY <2>0, <2>3, <2>7, <3>1
  <2>9. b = t * q2 + rem
    <3>1. q2 - q = e - x
      BY ONLY <2>0, <2>1, <2>3
    <3> HIDE DEF q2
    <3>2. (e - x) * t = t * q2 - t * q
      BY ONLY <2>0, <2>1, <2>3, <2>7, <3>1
    <3> QED  BY ONLY <1>4, <2>0, <2>1, <2>4, <2>7, <3>2
  <2> HIDE DEF m, q2
  <2>10. b \in Nat /\ b < P
    <3> DEFINE y == t * q2
    <3>1. t * (q2 + 1) <= t * m /\ t * (q2 + 1) = y + t /\ y \in Nat /\ t * m = P
      BY ONLY <2>0, <2>5, <2>7
    <3>2. y + t <= P /\ y \in Nat /\ b = y + rem
      BY ONLY <2>0, <2>5, <2>7, <2>9, <3>1
    <3> HIDE DEF y
    <3> QED  BY ONLY <1>1, <2>0, <2>1, <3>2
  <2>11. b \div t = q2
    BY ONLY <2>0, <2>1, <2>7, <2>9, <2>10
  <2> QED  BY <2>8, <2>10, <2>11 DEF b
<1> HIDE DEF x
<1> DEFINE f == (x + 1) % d
           g == (x + (-1)) % d
           cf == c + (f - x) * t
           cg == c + (g - x) * t
<1>7. /\ f \in 0 .. d - 1 /\ g \in 0 .. d - 1
      /\ (f + (-1)) % d = x /\ (g + 1) % d = x
      /\ d >= 3 => f # g
  BY <1>1, <1>5, Ring
<1>8. /\ Shift(dims, c, i, 1) = cf
      /\ Shift(dims, c, i, -1) = cg
  <2> USE DEF x
  <2>1. Shift(dims, c, i, 1) = cf
    BY <1>3, <1>4
  <2>2. Shift(dims, c, i, -1) = cg
    BY <1>3, <1>4
  <2> QED  BY <2>1, <2>2
<1> HIDE DEF f, g
<1>9. /\ cf \in Nat /\ cf < P /\ (cf \div t) % d = f
      /\ cg \in Nat /\ cg < P /\ (cg \div t) % d = g
  BY <1>6, <1>7
<1>10. Shift(dims, cf, i, -1) = cf + (x - f) * t /\ Shift(dims, cg, i, 1) = cg + (x - g) * t
  <2> HIDE DEF cf, cg
  <2>1. Shift(dims, cf, i, -1) = cf + (((((cf \div t) % d) + (-1)) % d) - ((cf \div t) % d)) * t
    BY <1>3, <1>9
  <2>2. Shift(dims, cg, i, 1) = cg + (((((cg \div t) % d) + 1) % d) - ((cg \div t) % d)) * t
    BY <1>3, <1>9
  <2> QED  BY ONLY <1>7, <1>9, <2>1, <2>2
<1>11. cf + (x - f) * t = c /\ cg + (x - g) * t = c
  BY <1>1, <1>4, <1>5, <1>7
<1>12. d >= 3 => cf # cg
  <2> HAVE d >= 3
  <2>1. (f - x) # (g - x)
    BY <1>5, <1>7
  <2>2. (f - x) * t # (g - x) * t
    BY <1>1, <1>5, <1>7, <2>1
  <2> QED  BY <1>1, <1>4, <1>5, <1>7, <2>2
<1> QED  BY <1>1, <1>8, <1>9, <1>10, <1>11, <1>12 DEF P, d

-----------------------------------------------------------------------------
(* The inductive invariant. *)

Sides == {"source", "dest"}
Faces == [call : Nat, dim : Nat, side : Sides, size : Nat]
Places == {"read", "split", "post", "reduce", "finalized"}

TypeOK ==
  /\ pc \in [Ranks -> Places]
  /\ line \in [Ranks -> Nat]
  /\ reversed \in BOOLEAN
  /\ call \in [Ranks -> Nat]
  /\ step \in [Ranks -> Nat]
  /\ posted \in [Ranks -> [Ranks -> Seq(Faces)]]
  /\ sent \in [Ranks -> [Ranks -> Seq(Faces)]]
  /\ reduced \subseteq Ranks
  /\ printed \in Seq(Nat)

\* The line of the last grid, 0 before the first: nobody is further than the
\* next one.
Base(r) == IF pc[r] \in {"split", "finalized"} THEN line[r] - 1 ELSE line[r]
Dims(r) == Lines[Base(r)].dims
InGrid(r) == Base(r) > 0 /\ r \in Grid(Base(r))

LineInv ==
  /\ \A r \in Ranks :
       /\ Base(r) = Base(0) /\ Base(r) \in 0 .. Len(Lines)
       /\ pc[r] = "split" => line[r] <= Len(Lines)
       /\ pc[r] \in {"post", "reduce"} => InGrid(r)
       /\ pc[r] = "split" => ~TooLarge(line[r])
  /\ Base(0) > 0 => ~TooLarge(Base(0))

\* A rank outside of the grid takes no part, a rank that has left the exchanges
\* has done all of them.
CallInv ==
  \A r \in Ranks :
    /\ pc[r] = "post" => call[r] < NCALLS /\ step[r] <= 2 * NDims(r)
    /\ pc[r] # "post" => step[r] = 0 /\ call[r] = IF InGrid(r) THEN NCALLS ELSE 0
    /\ ~InGrid(r) => \A s \in Ranks : posted[r][s] = <<>> /\ sent[r][s] = <<>>
    /\ r \in reduced => InGrid(r) /\ pc[r] \notin {"post", "reduce"}

\* The neighbours, with the numbering as a parameter.
Numbered(rev, dims, r) == IF rev THEN Product(dims) - 1 - r ELSE r
Toward(rev, dims, r, i, side) ==
  Numbered(rev, dims, Shift(dims, Numbered(rev, dims, r), i, IF side = "source" THEN -1 ELSE 1))

\* Requests are ordered by exchange, dimension, and a number that tells apart
\* the two of one dimension if both are for the same neighbour.
Slots == Nat \X Nat \X {0, 1}
Before(v, w) ==
  \/ v[1] < w[1]
  \/ v[1] = w[1] /\ (v[2] < w[2] \/ (v[2] = w[2] /\ v[3] < w[3]))

Slot(rev, dims, r, s, f) ==
  <<f.call, f.dim,
    IF f.side = "dest" /\ Toward(rev, dims, r, f.dim, "source") = s THEN 1 ELSE 0>>

\* The slots of the requests of r about s, up to dimension i of exchange c.
Wanted(rev, dims, r, s, c, i) ==
  {w \in (0 .. c) \X (1 .. Len(dims)) \X {0, 1} :
     /\ w[1] < c \/ w[2] <= i
     /\ \E side \in Sides : Toward(rev, dims, r, w[2], side) = s
     /\ w[3] = 1 => \A side \in Sides : Toward(rev, dims, r, w[2], side) = s}

\* The sequence q lists the members of W in order.
Lists(q, W) ==
  /\ \A k \in 1 .. Len(q) : q[k] \in W
  /\ \A w \in W : \E k \in 1 .. Len(q) : q[k] = w
  /\ \A k, m \in 1 .. Len(q) : k < m => Before(q[k], q[m])

\* The requests q of r about s are those of the program, up to there.
Script(rev, k, r, s, q, c, i) ==
  LET dims == Lines[k].dims
  IN  /\ \A n \in 1 .. Len(q) :
           /\ q[n].dim \in 1 .. Len(dims) /\ q[n].size = Lines[k].halos[q[n].dim]
           /\ q[n].side \in Sides /\ Toward(rev, dims, r, q[n].dim, q[n].side) = s
      /\ Lists([n \in 1 .. Len(q) |-> Slot(rev, dims, r, s, q[n])],
               Wanted(rev, dims, r, s, c, i))

Least(a, b) == IF a <= b THEN a ELSE b
ReceivesUpTo(r) == Least(step[r], Len(Dims(r)))
SendsUpTo(r) == IF step[r] <= Len(Dims(r)) THEN 0 ELSE step[r] - Len(Dims(r))

ScriptInv ==
  \A r \in Ranks : InGrid(r) => \A s \in Ranks :
    /\ Script(reversed, Base(r), r, s, posted[r][s], call[r], ReceivesUpTo(r))
    /\ Script(reversed, Base(r), r, s, sent[r][s], call[r], SendsUpTo(r))

\* The receives of earlier exchanges have their messages.
WaitedInv ==
  \A r, s \in Ranks : \A k \in DOMAIN posted[r][s] :
    posted[r][s][k].call < call[r] => k <= Len(sent[s][r])

IInv == TypeOK /\ LineInv /\ CallInv /\ ScriptInv /\ WaitedInv

-----------------------------------------------------------------------------
(* Neighbours. *)

Cells(dims) == 0 .. Product(dims) - 1

\* The renumbering of MPI_Cart_create is its own inverse.
LEMMA NumberedTwice ==
  ASSUME NEW rev \in BOOLEAN, NEW dims \in Seq(Nat \ {0}), NEW r \in Cells(dims)
  PROVE  /\ Numbered(rev, dims, r) \in Cells(dims)
         /\ Numbered(rev, dims, Numbered(rev, dims, r)) = r
<1>1. Product(dims) \in Nat
  BY ProductExists DEF ProductOf
<1> QED  BY <1>1 DEF Numbered, Cells

\* The neighbours of a rank are in the grid, and are neighbours back.
LEMMA TowardAndBack ==
  ASSUME NEW rev \in BOOLEAN, NEW dims \in Seq(Nat \ {0}), NEW i \in 1 .. Len(dims),
         NEW r \in Cells(dims)
  PROVE  /\ Toward(rev, dims, r, i, "source") \in Cells(dims)
         /\ Toward(rev, dims, r, i, "dest") \in Cells(dims)
         /\ Toward(rev, dims, Toward(rev, dims, r, i, "source"), i, "dest") = r
         /\ Toward(rev, dims, Toward(rev, dims, r, i, "dest"), i, "source") = r
         /\ dims[i] >= 3 => Toward(rev, dims, r, i, "source") # Toward(rev, dims, r, i, "dest")
<1> DEFINE c == Numbered(rev, dims, r)
           up == Shift(dims, c, i, 1)
           down == Shift(dims, c, i, -1)
<1>1. c \in Cells(dims)
  BY NumberedTwice
<1> HIDE DEF c
<1>2. /\ up \in Cells(dims) /\ down \in Cells(dims)
      /\ Shift(dims, up, i, -1) = c /\ Shift(dims, down, i, 1) = c
      /\ dims[i] >= 3 => up # down
  BY <1>1, Shifts DEF Cells
<1>3. /\ Toward(rev, dims, r, i, "source") = Numbered(rev, dims, down)
      /\ Toward(rev, dims, r, i, "dest") = Numbered(rev, dims, up)
  BY DEF Toward, c
<1> HIDE DEF up, down
<1>4. /\ Numbered(rev, dims, Numbered(rev, dims, down)) = down
      /\ Numbered(rev, dims, Numbered(rev, dims, up)) = up
      /\ Numbered(rev, dims, down) \in Cells(dims) /\ Numbered(rev, dims, up) \in Cells(dims)
      /\ Numbered(rev, dims, c) = r
  BY <1>2, NumberedTwice DEF c
<1>5. /\ Toward(rev, dims, Numbered(rev, dims, down), i, "dest") = r
      /\ Toward(rev, dims, Numbered(rev, dims, up), i, "source") = r
  BY <1>2, <1>4 DEF Toward
<1> QED  BY <1>2, <1>3, <1>4, <1>5

\* What a rank gets from its source, the source sends to its destination.
LEMMA Mirrored ==
  ASSUME NEW rev \in BOOLEAN, NEW dims \in Seq(Nat \ {0}), NEW i \in 1 .. Len(dims),
         NEW r \in Cells(dims), NEW s \in Cells(dims)
  PROVE  /\ Toward(rev, dims, r, i, "source") = s <=> Toward(rev, dims, s, i, "dest") = r
         /\ Toward(rev, dims, r, i, "dest") = s <=> Toward(rev, dims, s, i, "source") = r
  BY TowardAndBack

-----------------------------------------------------------------------------
(* Ordered lists. *)

\* The slots are ordered strictly and totally.
LEMMA BeforeOrders ==
  /\ \A v \in Slots : ~Before(v, v)
  /\ \A v, w \in Slots : Before(v, w) => ~Before(w, v)
  /\ \A v, w \in Slots : v # w => Before(v, w) \/ Before(w, v)
<1>1. ASSUME NEW v \in Slots
      PROVE  v[1] \in Nat /\ v[2] \in Nat /\ v[3] \in {0, 1} /\ v = <<v[1], v[2], v[3]>>
  BY DEF Slots
<1>2. ASSUME NEW v \in Slots  PROVE ~Before(v, v)
  BY <1>1 DEF Before
<1>3. ASSUME NEW v \in Slots, NEW w \in Slots, Before(v, w)  PROVE ~Before(w, v)
  BY <1>1, <1>3 DEF Before
<1>4. ASSUME NEW v \in Slots, NEW w \in Slots, v # w  PROVE Before(v, w) \/ Before(w, v)
  <2>1. v[1] # w[1] \/ v[2] # w[2] \/ v[3] # w[3]
    BY <1>1, <1>4
  <2> QED  BY <1>1, <2>1 DEF Before
<1> QED  BY <1>2, <1>3, <1>4

\* V contains what comes before any of its members in W.
Begins(V, W) == \A v \in V, w \in W : Before(w, v) => w \in V

\* Where two lists differ first, neither is ahead of the other.
LEMMA FirstDifference ==
  ASSUME NEW p \in Seq(Slots), NEW q \in Seq(Slots), NEW V \in SUBSET Slots, NEW W \in SUBSET Slots,
         Lists(p, V), Lists(q, W), Begins(W, V),
         NEW k \in 1 .. Len(p), k \in 1 .. Len(q),
         \A m \in 1 .. k - 1 : p[m] = q[m]
  PROVE  ~Before(p[k], q[k])
<1> SUFFICES ASSUME Before(p[k], q[k])  PROVE FALSE
  OBVIOUS
<1>1. p[k] \in V /\ q[k] \in W /\ p[k] \in Slots /\ q[k] \in Slots
  BY DEF Lists
<1>2. p[k] \in W
  BY <1>1 DEF Begins
<1>3. PICK m \in 1 .. Len(q) : q[m] = p[k]
  BY <1>2 DEF Lists
<1>4. m # k
  BY <1>1, <1>3, BeforeOrders
<1>5. ~(m > k)
  BY <1>1, <1>3, BeforeOrders DEF Lists
<1>6. ~(m < k)
  <2> SUFFICES ASSUME m < k  PROVE FALSE
    OBVIOUS
  <2>1. p[m] = p[k] /\ m \in 1 .. Len(p)
    BY <1>3
  <2>2. Before(p[m], p[k])
    BY <2>1 DEF Lists
  <2> QED  BY <1>1, <2>1, <2>2, BeforeOrders
<1> QED  BY <1>4, <1>5, <1>6

\* Two lists of sets that begin alike agree as far as both go.
LEMMA ListsAgree ==
  ASSUME NEW p \in Seq(Slots), NEW q \in Seq(Slots), NEW V \in SUBSET Slots, NEW W \in SUBSET Slots,
         Lists(p, V), Lists(q, W), Begins(V, W), Begins(W, V),
         NEW k \in 1 .. Len(p), k \in 1 .. Len(q)
  PROVE  p[k] = q[k]
<1> DEFINE D == {m \in Nat : m \in 1 .. Len(p) /\ m \in 1 .. Len(q) /\ p[m] # q[m]}
<1> SUFFICES ASSUME D # {}  PROVE FALSE
  BY k \in Nat
<1>1. PICK m \in D : \A n \in D : m <= n
  <2> HIDE DEF D
  <2>1. D \in SUBSET Nat
    BY DEF D
  <2> QED  BY ONLY <2>1, D # {}, NatMin
<1>2. \A n \in 1 .. m - 1 : p[n] = q[n]
  <2> SUFFICES ASSUME NEW n \in 1 .. m - 1, p[n] # q[n]  PROVE FALSE
    OBVIOUS
  <2>1. n \in D /\ n < m
    BY <1>1
  <2> QED  BY <1>1, <2>1
<1>3. m \in 1 .. Len(p) /\ m \in 1 .. Len(q) /\ p[m] # q[m] /\ p[m] \in Slots /\ q[m] \in Slots
  BY <1>1 DEF Lists
<1>4. ~Before(p[m], q[m])
  BY <1>2, <1>3, FirstDifference
<1>5. ~Before(q[m], p[m])
  BY <1>2, <1>3, FirstDifference
<1> QED  BY <1>3, <1>4, <1>5, BeforeOrders

\* Two lists of one set have the same length.
LEMMA ListsSameLength ==
  ASSUME NEW p \in Seq(Slots), NEW q \in Seq(Slots), NEW W \in SUBSET Slots,
         Lists(p, W), Lists(q, W)
  PROVE  Len(p) = Len(q)
<1>1. Begins(W, W)
  BY DEF Begins
<1>2. ASSUME NEW f \in Seq(Slots), NEW g \in Seq(Slots), Lists(f, W), Lists(g, W)
      PROVE  ~(Len(f) < Len(g))
  <2> SUFFICES ASSUME Len(f) < Len(g)  PROVE FALSE
    OBVIOUS
  <2> DEFINE k == Len(f) + 1
  <2>1. k \in 1 .. Len(g)
    OBVIOUS
  <2>2. g[k] \in W /\ g[k] \in Slots
    BY <1>2, <2>1 DEF Lists
  <2>3. PICK m \in 1 .. Len(f) : f[m] = g[k]
    BY <1>2, <2>2 DEF Lists
  <2>4. m \in 1 .. Len(g) /\ m < k
    BY <2>1
  <2>5. f[m] = g[m]
    BY <1>1, <1>2, <2>4, ListsAgree
  <2>6. Before(g[m], g[k])
    BY <1>2, <2>1, <2>4 DEF Lists
  <2> QED  BY <2>2, <2>3, <2>5, <2>6, BeforeOrders
<1> QED  BY <1>2

\* A list goes on with what comes after all it has.
LEMMA ListsAppend ==
  ASSUME NEW q \in Seq(Slots), NEW W \in SUBSET Slots, Lists(q, W),
         NEW e \in Slots, \A w \in W : Before(w, e)
  PROVE  Lists(Append(q, e), W \cup {e}) /\ Append(q, e) \in Seq(Slots)
<1> DEFINE g == Append(q, e)
<1>1. /\ g \in Seq(Slots) /\ Len(g) = Len(q) + 1 /\ Len(q) \in Nat
      /\ \A k \in 1 .. Len(q) : g[k] = q[k]
      /\ g[Len(q) + 1] = e
  OBVIOUS
<1> HIDE DEF g
<1>2. \A k \in 1 .. Len(g) : k \in 1 .. Len(q) \/ k = Len(q) + 1
  BY <1>1
<1>3. \A k \in 1 .. Len(g) : g[k] \in W \cup {e}
  BY <1>1, <1>2 DEF Lists
<1>4. \A w \in W \cup {e} : \E k \in 1 .. Len(g) : g[k] = w
  <2> SUFFICES ASSUME NEW w \in W \cup {e}  PROVE \E k \in 1 .. Len(g) : g[k] = w
    OBVIOUS
  <2>1. CASE w \in W
    <3>1. PICK k \in 1 .. Len(q) : q[k] = w
      BY <2>1 DEF Lists
    <3> QED  BY <1>1, <3>1
  <2>2. CASE w = e
    BY <1>1, <2>2
  <2> QED  BY <2>1, <2>2
<1>5. \A k, m \in 1 .. Len(g) : k < m => Before(g[k], g[m])
  <2> SUFFICES ASSUME NEW k \in 1 .. Len(g), NEW m \in 1 .. Len(g), k < m
               PROVE  Before(g[k], g[m])
    OBVIOUS
  <2>1. k \in 1 .. Len(q) /\ q[k] \in W
    BY <1>1 DEF Lists
  <2>2. CASE m \in 1 .. Len(q)
    BY <1>1, <2>1, <2>2 DEF Lists
  <2>3. CASE m = Len(q) + 1
    BY <1>1, <2>1, <2>3
  <2> QED  BY <1>2, <2>2, <2>3
<1> QED  BY <1>1, <1>3, <1>4, <1>5 DEF Lists, g

-----------------------------------------------------------------------------
(* What is wanted, and what an iteration adds to it. *)

Active(rev, dims, r, s, i) == \E side \in Sides : Toward(rev, dims, r, i, side) = s
Double(rev, dims, r, s, i) == \A side \in Sides : Toward(rev, dims, r, i, side) = s

\* Membership in Wanted.
LEMMA WantedShape ==
  ASSUME NEW rev, NEW dims \in Seq(Nat \ {0}), NEW r, NEW s, NEW c \in Nat, NEW i \in Nat
  PROVE  /\ Wanted(rev, dims, r, s, c, i) \in SUBSET Slots
         /\ \A w \in Slots :
              w \in Wanted(rev, dims, r, s, c, i) <=>
                /\ w[1] \in 0 .. c /\ w[2] \in 1 .. Len(dims)
                /\ w[1] < c \/ w[2] <= i
                /\ Active(rev, dims, r, s, w[2])
                /\ w[3] = 1 => Double(rev, dims, r, s, w[2])
<1> DEFINE B == (0 .. c) \X (1 .. Len(dims)) \X {0, 1}
<1>1. B \subseteq Slots
  BY DEF Slots
<1>2. \A w \in Slots : w \in B <=> w[1] \in 0 .. c /\ w[2] \in 1 .. Len(dims)
  BY DEF Slots
<1> HIDE DEF B
<1>3. Wanted(rev, dims, r, s, c, i) =
        {w \in B : /\ w[1] < c \/ w[2] <= i
                   /\ Active(rev, dims, r, s, w[2])
                   /\ w[3] = 1 => Double(rev, dims, r, s, w[2])}
  BY DEF Wanted, Active, Double, B
<1> QED  BY <1>1, <1>2, <1>3

\* The slots an iteration for dimension i adds.
Added(rev, dims, r, s, c, i) ==
  {w \in {<<c, i, 0>>, <<c, i, 1>>} :
     /\ Active(rev, dims, r, s, i)
     /\ w[3] = 1 => Double(rev, dims, r, s, i)}

\* An iteration wants its slots after all others.
LEMMA WantedExtends ==
  ASSUME NEW rev, NEW dims \in Seq(Nat \ {0}), NEW r, NEW s, NEW c \in Nat,
         NEW i \in 1 .. Len(dims)
  PROVE  /\ Wanted(rev, dims, r, s, c, i) =
              Wanted(rev, dims, r, s, c, i - 1) \cup Added(rev, dims, r, s, c, i)
         /\ \A w \in Wanted(rev, dims, r, s, c, i - 1) :
              Before(w, <<c, i, 0>>) /\ Before(w, <<c, i, 1>>)
<1> DEFINE new == Wanted(rev, dims, r, s, c, i)
           old == Wanted(rev, dims, r, s, c, i - 1)
           add == Added(rev, dims, r, s, c, i)
<1>1. i \in Nat /\ i - 1 \in Nat /\ i >= 1 /\ i <= Len(dims)
  OBVIOUS
<1>2. \A w \in Slots : /\ w[1] \in Nat /\ w[2] \in Nat /\ w[3] \in {0, 1}
                       /\ w = <<w[1], w[2], w[3]>>
  BY DEF Slots
<1>3. new \in SUBSET Slots /\ old \in SUBSET Slots /\ add \in SUBSET Slots
  BY <1>1, WantedShape DEF Slots, Added
<1>4. ASSUME NEW w \in Slots  PROVE w \in new <=> w \in old \/ w \in add
  <2>1. w \in new <=> /\ w[1] \in 0 .. c /\ w[2] \in 1 .. Len(dims)
                      /\ w[1] < c \/ w[2] <= i
                      /\ Active(rev, dims, r, s, w[2])
                      /\ w[3] = 1 => Double(rev, dims, r, s, w[2])
    BY <1>1, WantedShape
  <2>2. w \in old <=> /\ w[1] \in 0 .. c /\ w[2] \in 1 .. Len(dims)
                      /\ w[1] < c \/ w[2] <= i - 1
                      /\ Active(rev, dims, r, s, w[2])
                      /\ w[3] = 1 => Double(rev, dims, r, s, w[2])
    BY <1>1, WantedShape
  <2>3. w \in add <=> /\ w[1] = c /\ w[2] = i
                      /\ Active(rev, dims, r, s, w[2])
                      /\ w[3] = 1 => Double(rev, dims, r, s, w[2])
    BY <1>2 DEF Added
  <2> HIDE DEF new, old, add
  <2> QED  BY ONLY <2>1, <2>2, <2>3, <1>1, <1>2, c \in Nat, Len(dims) \in Nat, w \in Slots
<1>5. ASSUME NEW w \in old  PROVE Before(w, <<c, i, 0>>) /\ Before(w, <<c, i, 1>>)
  <2>1. /\ w \in Slots /\ w[1] \in 0 .. c
        /\ w[1] < c \/ w[2] <= i - 1
    BY <1>1, <1>3, WantedShape
  <2> QED  BY <1>1, <1>2, <2>1 DEF Before
<1>6. new = old \cup add
  BY <1>3, <1>4
<1> QED  BY <1>5, <1>6

\* The last dimension of one exchange, and the start of the next.
LEMMA WantedTurns ==
  ASSUME NEW rev, NEW dims \in Seq(Nat \ {0}), NEW r, NEW s, NEW c \in Nat
  PROVE  /\ Wanted(rev, dims, r, s, c, Len(dims)) = Wanted(rev, dims, r, s, c + 1, 0)
         /\ Wanted(rev, dims, r, s, 0, 0) = {}
<1> DEFINE new == Wanted(rev, dims, r, s, c + 1, 0)
           old == Wanted(rev, dims, r, s, c, Len(dims))
           none == Wanted(rev, dims, r, s, 0, 0)
<1>1. new \in SUBSET Slots /\ old \in SUBSET Slots /\ none \in SUBSET Slots
  BY WantedShape
<1>2. ASSUME NEW w \in Slots  PROVE (w \in new <=> w \in old) /\ w \notin none
  <2>0. w[1] \in Nat /\ w[2] \in Nat
    BY DEF Slots
  <2>1. w \in old <=> /\ w[1] \in 0 .. c /\ w[2] \in 1 .. Len(dims)
                      /\ w[1] < c \/ w[2] <= Len(dims)
                      /\ Active(rev, dims, r, s, w[2])
                      /\ w[3] = 1 => Double(rev, dims, r, s, w[2])
    BY WantedShape
  <2>2. w \in new <=> /\ w[1] \in 0 .. c + 1 /\ w[2] \in 1 .. Len(dims)
                      /\ w[1] < c + 1 \/ w[2] <= 0
                      /\ Active(rev, dims, r, s, w[2])
                      /\ w[3] = 1 => Double(rev, dims, r, s, w[2])
    BY WantedShape
  <2>3. w \in none => /\ w[1] \in 0 .. 0 /\ w[2] \in 1 .. Len(dims)
                      /\ w[1] < 0 \/ w[2] <= 0
    BY WantedShape
  <2> HIDE DEF new, old, none
  <2> QED  BY ONLY <2>0, <2>1, <2>2, <2>3, c \in Nat, Len(dims) \in Nat
<1> QED  BY <1>1, <1>2

\* The same is wanted at both ends.
LEMMA WantedMirrored ==
  ASSUME NEW rev \in BOOLEAN, NEW dims \in Seq(Nat \ {0}), NEW r \in Cells(dims),
         NEW s \in Cells(dims), NEW c \in Nat, NEW i \in Nat
  PROVE  Wanted(rev, dims, r, s, c, i) = Wanted(rev, dims, s, r, c, i)
<1> DEFINE there == Wanted(rev, dims, r, s, c, i)
           here == Wanted(rev, dims, s, r, c, i)
<1>1. there \in SUBSET Slots /\ here \in SUBSET Slots
  BY WantedShape
<1>2. ASSUME NEW w \in Slots  PROVE w \in there <=> w \in here
  <2>1. w \in there <=> /\ w[1] \in 0 .. c /\ w[2] \in 1 .. Len(dims)
                        /\ w[1] < c \/ w[2] <= i
                        /\ Active(rev, dims, r, s, w[2])
                        /\ w[3] = 1 => Double(rev, dims, r, s, w[2])
    BY WantedShape
  <2>2. w \in here <=>  /\ w[1] \in 0 .. c /\ w[2] \in 1 .. Len(dims)
                        /\ w[1] < c \/ w[2] <= i
                        /\ Active(rev, dims, s, r, w[2])
                        /\ w[3] = 1 => Double(rev, dims, s, r, w[2])
    BY WantedShape
  <2>3. ASSUME NEW d \in 1 .. Len(dims)
        PROVE  /\ Active(rev, dims, r, s, d) <=> Active(rev, dims, s, r, d)
               /\ Double(rev, dims, r, s, d) <=> Double(rev, dims, s, r, d)
    BY Mirrored DEF Active, Double, Sides
  <2> QED  BY ONLY <2>1, <2>2, <2>3
<1> QED  BY <1>1, <1>2

\* Two sets of wanted slots begin alike.
LEMMA WantedBegins ==
  ASSUME NEW rev, NEW dims \in Seq(Nat \ {0}), NEW r, NEW s, NEW c \in Nat, NEW i \in Nat,
         NEW d \in Nat, NEW j \in Nat
  PROVE  Begins(Wanted(rev, dims, r, s, c, i), Wanted(rev, dims, r, s, d, j))
<1> DEFINE V == Wanted(rev, dims, r, s, c, i)
           W == Wanted(rev, dims, r, s, d, j)
<1> SUFFICES ASSUME NEW v \in V, NEW w \in W, Before(w, v)  PROVE w \in V
  BY DEF Begins
<1>1. v \in Slots /\ w \in Slots
  BY WantedShape
<1>2. /\ v[1] \in Nat /\ v[2] \in Nat /\ w[1] \in Nat /\ w[2] \in Nat
      /\ v[1] \in 0 .. c /\ (v[1] < c \/ v[2] <= i)
      /\ w[2] \in 1 .. Len(dims)
      /\ Active(rev, dims, r, s, w[2])
      /\ w[3] = 1 => Double(rev, dims, r, s, w[2])
  BY <1>1, WantedShape DEF Slots
<1>3. w[1] \in 0 .. c /\ (w[1] < c \/ w[2] <= i)
  BY <1>2 DEF Before
<1> QED  BY <1>1, <1>2, <1>3, WantedShape

-----------------------------------------------------------------------------
(* An iteration adds its requests to the program's. *)

SlotsOf(rev, dims, r, s, q) == [n \in 1 .. Len(q) |-> Slot(rev, dims, r, s, q[n])]

Fits(rev, k, r, s, f) ==
  /\ f.dim \in 1 .. Len(Lines[k].dims) /\ f.size = Lines[k].halos[f.dim]
  /\ f.side \in Sides /\ Toward(rev, Lines[k].dims, r, f.dim, f.side) = s

\* A script is a sequence of fitting requests in the order of their slots.
LEMMA ScriptParts ==
  ASSUME NEW rev, NEW k, NEW r, NEW s, NEW q, NEW c, NEW i
  PROVE  Script(rev, k, r, s, q, c, i) <=>
           /\ \A n \in 1 .. Len(q) : Fits(rev, k, r, s, q[n])
           /\ Lists(SlotsOf(rev, Lines[k].dims, r, s, q), Wanted(rev, Lines[k].dims, r, s, c, i))
  BY DEF Script, Fits, SlotsOf

\* The slots of requests are slots.
LEMMA SlotsOfFaces ==
  ASSUME NEW rev, NEW dims, NEW r, NEW s, NEW q \in Seq(Faces)
  PROVE  /\ SlotsOf(rev, dims, r, s, q) \in Seq(Slots)
         /\ Len(SlotsOf(rev, dims, r, s, q)) = Len(q)
         /\ \A n \in 1 .. Len(q) :
              SlotsOf(rev, dims, r, s, q)[n] = Slot(rev, dims, r, s, q[n])
<1>1. ASSUME NEW f \in Faces  PROVE Slot(rev, dims, r, s, f) \in Slots
  BY <1>1 DEF Faces, Slot, Slots
<1>2. \A n \in 1 .. Len(q) : q[n] \in Faces /\ Len(q) \in Nat
  OBVIOUS
<1>3. \A n \in 1 .. Len(q) : Slot(rev, dims, r, s, q[n]) \in Slots
  BY <1>1, <1>2
<1> QED  BY <1>3 DEF SlotsOf

\* The slot of a request appended is appended.
LEMMA SlotsOfAppend ==
  ASSUME NEW rev, NEW dims, NEW r, NEW s, NEW q \in Seq(Faces), NEW f \in Faces
  PROVE  SlotsOf(rev, dims, r, s, Append(q, f)) =
           Append(SlotsOf(rev, dims, r, s, q), Slot(rev, dims, r, s, f))
<1> DEFINE g == Append(q, f)
           e == Slot(rev, dims, r, s, f)
           p == SlotsOf(rev, dims, r, s, q)
           h == SlotsOf(rev, dims, r, s, g)
           a == Append(p, e)
<1>1. g \in Seq(Faces) /\ Len(g) = Len(q) + 1 /\ Len(q) \in Nat /\ g[Len(q) + 1] = f
      /\ \A n \in 1 .. Len(q) : g[n] = q[n]
  OBVIOUS
<1>2. p \in Seq(Slots) /\ Len(p) = Len(q)
      /\ \A n \in 1 .. Len(q) : p[n] = Slot(rev, dims, r, s, q[n])
  BY SlotsOfFaces
<1> HIDE DEF g
<1>3. h \in Seq(Slots) /\ Len(h) = Len(g)
      /\ \A n \in 1 .. Len(g) : h[n] = Slot(rev, dims, r, s, g[n])
  BY <1>1, SlotsOfFaces
<1>4. e \in Slots
  BY DEF Faces, Slot, Slots
<1> HIDE DEF p, h, e
<1>5. a \in Seq(Slots) /\ Len(a) = Len(p) + 1 /\ a[Len(p) + 1] = e
      /\ \A n \in 1 .. Len(p) : a[n] = p[n]
  BY <1>2, <1>4
<1> HIDE DEF a
<1>6. \A n \in 1 .. Len(g) : n \in 1 .. Len(q) \/ n = Len(q) + 1
  BY <1>1
<1>7. \A n \in 1 .. Len(g) : h[n] = a[n]
  BY <1>1, <1>2, <1>3, <1>5, <1>6 DEF e
<1>8. Len(h) = Len(a)
  BY <1>1, <1>2, <1>3, <1>5
<1>9. h = a
  BY <1>1, <1>3, <1>5, <1>7, <1>8
<1> QED  BY <1>9 DEF h, a, g, p, e

\* One more request, whose slot comes after all others.
LEMMA ScriptAppends ==
  ASSUME NEW rev, NEW k, NEW r, NEW s, NEW q \in Seq(Faces), NEW f \in Faces,
         NEW W \in SUBSET Slots,
         \A n \in 1 .. Len(q) : Fits(rev, k, r, s, q[n]),
         Lists(SlotsOf(rev, Lines[k].dims, r, s, q), W),
         Fits(rev, k, r, s, f),
         \A w \in W : Before(w, Slot(rev, Lines[k].dims, r, s, f))
  PROVE  /\ Append(q, f) \in Seq(Faces)
         /\ \A n \in 1 .. Len(Append(q, f)) : Fits(rev, k, r, s, Append(q, f)[n])
         /\ Lists(SlotsOf(rev, Lines[k].dims, r, s, Append(q, f)),
                  W \cup {Slot(rev, Lines[k].dims, r, s, f)})
<1> DEFINE g == Append(q, f)
<1>1. g \in Seq(Faces) /\ Len(g) = Len(q) + 1 /\ Len(q) \in Nat /\ g[Len(q) + 1] = f
      /\ \A n \in 1 .. Len(q) : g[n] = q[n]
  OBVIOUS
<1> DEFINE p == SlotsOf(rev, Lines[k].dims, r, s, q)
           e == Slot(rev, Lines[k].dims, r, s, f)
<1>2. \A n \in 1 .. Len(g) : n \in 1 .. Len(q) \/ n = Len(q) + 1
  BY <1>1
<1>3. \A n \in 1 .. Len(g) : Fits(rev, k, r, s, g[n])
  BY <1>1, <1>2
<1>4. e \in Slots
  BY DEF Faces, Slot, Slots
<1>5. p \in Seq(Slots)
  BY SlotsOfFaces
<1>6. SlotsOf(rev, Lines[k].dims, r, s, g) = Append(p, e)
  BY SlotsOfAppend
<1>7. Lists(Append(p, e), W \cup {e})
  <2> HIDE DEF p, e
  <2>1. Lists(p, W) /\ \A w \in W : Before(w, e)
    BY DEF p, e
  <2> QED  BY ONLY <1>4, <1>5, <2>1, W \in SUBSET Slots, ListsAppend
<1> QED  BY <1>1, <1>3, <1>6, <1>7

\* An element of a sequence is in its set.
LEMMA SeqElement ==
  ASSUME NEW T, NEW q \in Seq(T), NEW n \in 1 .. Len(q)
  PROVE  q[n] \in T
OBVIOUS

\* The types of a line of the input.
LEMMA LineFacts ==
  ASSUME NEW k \in DOMAIN Lines
  PROVE  /\ Lines[k].dims \in Seq(Nat \ {0}) /\ Lines[k].halos \in Seq(Nat)
         /\ Len(Lines[k].dims) = Len(Lines[k].halos)
         /\ k \in 1 .. Len(Lines)
<1>1. Lines \in Seq([dims : Seq(Nat \ {0}), halos : Seq(Nat)])
  BY HaloAssumption
<1>2. k \in 1 .. Len(Lines)
  BY <1>1
<1>3. Lines[k] \in [dims : Seq(Nat \ {0}), halos : Seq(Nat)]
  BY ONLY <1>1, <1>2, SeqElement
<1> QED  BY <1>2, <1>3, HaloAssumption

\* The halo size of a dimension.
LEMMA HaloSizes ==
  ASSUME NEW k \in DOMAIN Lines, NEW i \in 1 .. Len(Lines[k].dims)
  PROVE  i \in Nat /\ Lines[k].halos[i] \in Nat
<1>1. Lines[k].halos \in Seq(Nat) /\ i \in 1 .. Len(Lines[k].halos) /\ Len(Lines[k].dims) \in Nat
  BY LineFacts
<1>2. Lines[k].halos[i] \in Nat
  BY ONLY <1>1, SeqElement
<1> QED  BY <1>1, <1>2

FaceOf(c, i, side, size) == [call |-> c, dim |-> i, side |-> side, size |-> size]

\* What an iteration makes of the requests q about s.
Extended(rev, k, r, s, q, c, i) ==
  LET dims == Lines[k].dims
      first == IF Toward(rev, dims, r, i, "source") = s
               THEN Append(q, FaceOf(c, i, "source", Lines[k].halos[i])) ELSE q
  IN  IF Toward(rev, dims, r, i, "dest") = s
      THEN Append(first, FaceOf(c, i, "dest", Lines[k].halos[i])) ELSE first

\* A sequence of requests with one more.
LEMMA AppendIs ==
  ASSUME NEW q \in Seq(Faces), NEW f \in Faces
  PROVE  /\ Append(q, f) \in Seq(Faces) /\ Len(q) \in Nat
         /\ Len(Append(q, f)) = Len(q) + 1 /\ Append(q, f)[Len(q) + 1] = f
         /\ \A n \in 1 .. Len(q) : Append(q, f)[n] = q[n]
         /\ \A n \in 1 .. Len(Append(q, f)) : n \in 1 .. Len(q) \/ n = Len(q) + 1
OBVIOUS

\* An iteration keeps the requests there were, and adds some of its exchange.
LEMMA ExtendedKeeps ==
  ASSUME NEW rev, NEW k, NEW r, NEW s, NEW q \in Seq(Faces), NEW c, NEW i,
         Lines[k].halos[i] \in Nat, c \in Nat, i \in Nat
  PROVE  /\ Len(q) <= Len(Extended(rev, k, r, s, q, c, i))
         /\ \A n \in 1 .. Len(Extended(rev, k, r, s, q, c, i)) :
              \/ n \in 1 .. Len(q) /\ Extended(rev, k, r, s, q, c, i)[n] = q[n]
              \/ n > Len(q) /\ Extended(rev, k, r, s, q, c, i)[n].call = c
<1> DEFINE fs == FaceOf(c, i, "source", Lines[k].halos[i])
           fd == FaceOf(c, i, "dest", Lines[k].halos[i])
           a == IF Toward(rev, Lines[k].dims, r, i, "source") = s THEN Append(q, fs) ELSE q
           b == IF Toward(rev, Lines[k].dims, r, i, "dest") = s THEN Append(a, fd) ELSE a
<1>1. fs \in Faces /\ fd \in Faces /\ fs.call = c /\ fd.call = c
  BY DEF FaceOf, Faces, Sides
<1>2. Extended(rev, k, r, s, q, c, i) = b
  BY DEF Extended
<1> HIDE DEF fs, fd
<1>3. /\ a \in Seq(Faces) /\ Len(q) <= Len(a)
      /\ \A n \in 1 .. Len(a) : (n \in 1 .. Len(q) /\ a[n] = q[n])
                           \/ (n > Len(q) /\ a[n].call = c)
  <2>1. CASE Toward(rev, Lines[k].dims, r, i, "source") = s
    <3>1. a = Append(q, fs)
      BY <2>1
    <3> QED  BY <1>1, <3>1, AppendIs
  <2>2. CASE Toward(rev, Lines[k].dims, r, i, "source") # s
    <3>1. a = q /\ Len(q) \in Nat
      BY <1>1, <2>2
    <3> HIDE DEF a
    <3> QED  BY <1>1, <3>1
  <2> QED  BY <2>1, <2>2
<1> HIDE DEF a
<1>4. /\ b \in Seq(Faces) /\ Len(a) <= Len(b)
      /\ \A n \in 1 .. Len(b) : (n \in 1 .. Len(a) /\ b[n] = a[n])
                           \/ (n > Len(a) /\ b[n].call = c)
  <2>1. CASE Toward(rev, Lines[k].dims, r, i, "dest") = s
    <3>1. b = Append(a, fd)
      BY <2>1
    <3> QED  BY <1>1, <1>3, <3>1, AppendIs
  <2>2. CASE Toward(rev, Lines[k].dims, r, i, "dest") # s
    <3>1. b = a /\ Len(a) \in Nat
      BY <1>1, <1>3, <2>2
    <3> HIDE DEF b
    <3> QED  BY <1>1, <1>3, <3>1
  <2> QED  BY <2>1, <2>2
<1> HIDE DEF b
<1>5. Len(q) \in Nat /\ Len(a) \in Nat /\ Len(b) \in Nat
  BY <1>3, <1>4
<1> QED  BY <1>2, <1>3, <1>4, <1>5

\* An iteration goes on with the script.
LEMMA ScriptExtends ==
  ASSUME NEW rev, NEW k \in DOMAIN Lines, NEW r, NEW s, NEW q \in Seq(Faces),
         NEW c \in Nat, NEW i \in 1 .. Len(Lines[k].dims),
         Script(rev, k, r, s, q, c, i - 1)
  PROVE  /\ Extended(rev, k, r, s, q, c, i) \in Seq(Faces)
         /\ Script(rev, k, r, s, Extended(rev, k, r, s, q, c, i), c, i)
<1> DEFINE dims == Lines[k].dims
           old == Wanted(rev, dims, r, s, c, i - 1)
           new == Wanted(rev, dims, r, s, c, i)
           src == Toward(rev, dims, r, i, "source")
           dst == Toward(rev, dims, r, i, "dest")
           fs == FaceOf(c, i, "source", Lines[k].halos[i])
           fd == FaceOf(c, i, "dest", Lines[k].halos[i])
           all(g) == \A n \in 1 .. Len(g) : Fits(rev, k, r, s, g[n])
           list(g) == SlotsOf(rev, dims, r, s, g)
           slot(f) == Slot(rev, dims, r, s, f)
           goal(g) == g \in Seq(Faces) /\ all(g) /\ Lists(list(g), new)
<1>1. dims \in Seq(Nat \ {0}) /\ Lines[k].halos \in Seq(Nat) /\ Len(dims) = Len(Lines[k].halos)
  BY LineFacts
<1>2. i \in Nat /\ i - 1 \in Nat /\ Lines[k].halos[i] \in Nat
  BY <1>1
<1>3. fs \in Faces /\ fd \in Faces
  BY <1>2 DEF Faces, FaceOf, Sides
<1>4. /\ old \in SUBSET Slots
      /\ new = old \cup Added(rev, dims, r, s, c, i)
      /\ \A w \in old : Before(w, <<c, i, 0>>) /\ Before(w, <<c, i, 1>>)
  <2> HIDE DEF dims
  <2>1. old \in SUBSET Slots
    BY <1>1, <1>2, WantedShape
  <2>2. i \in 1 .. Len(dims)
    BY DEF dims
  <2>3. /\ Wanted(rev, dims, r, s, c, i) =
             Wanted(rev, dims, r, s, c, i - 1) \cup Added(rev, dims, r, s, c, i)
        /\ \A w \in Wanted(rev, dims, r, s, c, i - 1) :
              Before(w, <<c, i, 0>>) /\ Before(w, <<c, i, 1>>)
    BY ONLY <1>1, <2>2, c \in Nat, WantedExtends
  <2> QED  BY <2>1, <2>3
<1>5. all(q) /\ Lists(list(q), old)
  BY ScriptParts
<1>6. src = s => Fits(rev, k, r, s, fs) /\ slot(fs) = <<c, i, 0>>
  BY DEF Fits, FaceOf, Sides, Slot
<1>7. dst = s => Fits(rev, k, r, s, fd)
                 /\ slot(fd) = <<c, i, IF src = s THEN 1 ELSE 0>>
  BY DEF Fits, FaceOf, Sides, Slot
<1>8. Added(rev, dims, r, s, c, i) =
        IF src = s /\ dst = s THEN {<<c, i, 0>>, <<c, i, 1>>}
        ELSE IF src = s \/ dst = s THEN {<<c, i, 0>>} ELSE {}
  <2>1. Active(rev, dims, r, s, i) <=> (src = s \/ dst = s)
    BY DEF Active, Sides
  <2>2. Double(rev, dims, r, s, i) <=> (src = s /\ dst = s)
    BY DEF Double, Sides
  <2>3. <<c, i, 0>>[3] = 0 /\ <<c, i, 1>>[3] = 1
    OBVIOUS
  <2> HIDE DEF src, dst, dims
  <2> QED  BY <2>1, <2>2, <2>3 DEF Added
<1>9. Extended(rev, k, r, s, q, c, i) =
        IF dst = s THEN Append(IF src = s THEN Append(q, fs) ELSE q, fd)
        ELSE IF src = s THEN Append(q, fs) ELSE q
  BY DEF Extended
<1>10. ASSUME NEW g \in Seq(Faces), NEW f \in Faces, NEW W \in SUBSET Slots,
             all(g), Lists(list(g), W), Fits(rev, k, r, s, f), NEW e, slot(f) = e,
             \A w \in W : Before(w, e)
      PROVE  /\ Append(g, f) \in Seq(Faces) /\ all(Append(g, f))
             /\ Lists(list(Append(g, f)), W \cup {e})
  BY <1>10, ScriptAppends
<1>11. goal(Extended(rev, k, r, s, q, c, i))
  <2> HIDE DEF src, dst, fs, fd, old, new, dims, all, list, slot
  <2>1. CASE src # s /\ dst # s
    <3>1. new = old
      BY <1>4, <1>8, <2>1
    <3> QED  BY <1>5, <1>9, <2>1, <3>1
  <2>2. CASE src = s /\ dst # s
    <3>1. new = old \cup {<<c, i, 0>>}
      BY <1>4, <1>8, <2>2
    <3>2. goal(Append(q, fs))
      <4>1. Fits(rev, k, r, s, fs) /\ slot(fs) = <<c, i, 0>>
        BY <1>6, <2>2
      <4> QED  BY <1>3, <1>4, <1>5, <1>10, <3>1, <4>1
    <3> HIDE DEF goal
    <3> QED  BY <1>9, <2>2, <3>2
  <2>3. CASE src # s /\ dst = s
    <3>1. new = old \cup {<<c, i, 0>>}
      BY <1>4, <1>8, <2>3
    <3>2. goal(Append(q, fd))
      <4>1. Fits(rev, k, r, s, fd) /\ slot(fd) = <<c, i, 0>>
        BY <1>7, <2>3
      <4> QED  BY <1>3, <1>4, <1>5, <1>10, <3>1, <4>1
    <3> HIDE DEF goal
    <3> QED  BY <1>9, <2>3, <3>2
  <2>4. CASE src = s /\ dst = s
    <3> DEFINE mid == old \cup {<<c, i, 0>>}
               g == Append(q, fs)
    <3>1. new = mid \cup {<<c, i, 1>>}
      BY <1>4, <1>8, <2>4
    <3>2. g \in Seq(Faces) /\ all(g) /\ Lists(list(g), mid)
      BY <1>3, <1>4, <1>5, <1>6, <1>10, <2>4
    <3>3. mid \in SUBSET Slots /\ \A w \in mid : Before(w, <<c, i, 1>>)
      <4>1. Before(<<c, i, 0>>, <<c, i, 1>>) /\ <<c, i, 0>> \in Slots
        BY <1>2 DEF Before, Slots
      <4> QED  BY <1>4, <4>1
    <3>4. slot(fd) = <<c, i, 1>>
      BY <1>7, <2>4
    <3> HIDE DEF g, mid
    <3>5. goal(Append(g, fd))
      BY <1>3, <1>7, <1>10, <2>4, <3>1, <3>2, <3>3, <3>4
    <3> QED  BY <1>9, <2>4, <3>5 DEF g
  <2> QED  BY <2>1, <2>2, <2>3, <2>4
<1> HIDE DEF src, dst, fs, fd
<1> QED  BY <1>11, ScriptParts

\* The end of an exchange is the start of the next in the script, which begins
\* with nothing.
LEMMA ScriptTurns ==
  ASSUME NEW rev, NEW k \in DOMAIN Lines, NEW r, NEW s, NEW q, NEW c \in Nat
  PROVE  /\ Script(rev, k, r, s, q, c, Len(Lines[k].dims)) => Script(rev, k, r, s, q, c + 1, 0)
         /\ Script(rev, k, r, s, <<>>, 0, 0)
<1>1. Lines[k].dims \in Seq(Nat \ {0})
  BY LineFacts
<1>2. Wanted(rev, Lines[k].dims, r, s, c, Len(Lines[k].dims)) =
        Wanted(rev, Lines[k].dims, r, s, c + 1, 0)
      /\ Wanted(rev, Lines[k].dims, r, s, 0, 0) = {}
  BY <1>1, WantedTurns
<1>3. Lists(SlotsOf(rev, Lines[k].dims, r, s, <<>>), {})
  BY DEF Lists, SlotsOf
<1>4. ASSUME Script(rev, k, r, s, q, c, Len(Lines[k].dims))  PROVE Script(rev, k, r, s, q, c + 1, 0)
  BY <1>2, <1>4, ScriptParts
<1>5. Script(rev, k, r, s, <<>>, 0, 0)
  <2>1. \A n \in 1 .. Len(<<>>) : Fits(rev, k, r, s, <<>>[n])
    OBVIOUS
  <2>2. Lists(SlotsOf(rev, Lines[k].dims, r, s, <<>>), Wanted(rev, Lines[k].dims, r, s, 0, 0))
    BY <1>2, <1>3
  <2> QED  BY ONLY <2>1, <2>2, ScriptParts
<1> QED  BY <1>4, <1>5

-----------------------------------------------------------------------------
(* What the iterations do to the requests. *)

\* Rank 0 exists.
LEMMA RankFacts == 0 \in Ranks /\ \A r \in Ranks : r \in Nat
  BY HaloAssumption DEF Ranks

\* The grid of a line that is not too large consists of ranks.
LEMMA GridFacts ==
  ASSUME NEW k \in DOMAIN Lines
  PROVE  /\ Grid(k) = Cells(Lines[k].dims) /\ 0 \in Grid(k)
         /\ ~TooLarge(k) => Grid(k) \subseteq Ranks
<1>1. Product(Lines[k].dims) \in Nat \ {0}
  <2>1. PICK p : ProductOf(Lines[k].dims, p) /\ Product(Lines[k].dims) = p[Len(Lines[k].dims)]
    BY LineFacts, ProductExists
  <2>2. Len(Lines[k].dims) \in 0 .. Len(Lines[k].dims)
    BY LineFacts
  <2> QED  BY <2>1, <2>2 DEF ProductOf
<1> HIDE DEF Product
<1> QED  BY <1>1, HaloAssumption DEF Grid, Cells, TooLarge, Ranks

Messages == [Ranks -> [Ranks -> Seq(Faces)]]

Twice(m, r, a, b, f, g) ==
  [m EXCEPT ![r] = [[m[r] EXCEPT ![a] = Append(@, f)] EXCEPT ![b] = Append(@, g)]]

\* Two requests appended to the queues of a rank.
LEMMA TwoAppends ==
  ASSUME NEW m \in Messages, NEW r \in Ranks, NEW a \in Ranks, NEW b \in Ranks,
         NEW f \in Faces, NEW g \in Faces
  PROVE  /\ Twice(m, r, a, b, f, g) \in Messages
         /\ \A q \in Ranks : q # r => Twice(m, r, a, b, f, g)[q] = m[q]
         /\ \A s \in Ranks :
              Twice(m, r, a, b, f, g)[r][s] =
                IF b = s THEN Append(IF a = s THEN Append(m[r][s], f) ELSE m[r][s], g)
                ELSE IF a = s THEN Append(m[r][s], f) ELSE m[r][s]
<1> DEFINE row == [Ranks -> Seq(Faces)]
           x == [m[r] EXCEPT ![a] = Append(@, f)]
           y == [x EXCEPT ![b] = Append(@, g)]
<1>1. m[r] \in row
  BY DEF Messages
<1>2. x \in row /\ \A s \in Ranks : x[s] = IF a = s THEN Append(m[r][s], f) ELSE m[r][s]
  BY <1>1
<1> HIDE DEF x
<1>3. y \in row /\ \A s \in Ranks : y[s] = IF b = s THEN Append(x[s], g) ELSE x[s]
  BY <1>2
<1> DEFINE n == Twice(m, r, a, b, f, g)
<1>4. n = [m EXCEPT ![r] = y]
  BY DEF x, Twice
<1> HIDE DEF y, n
<1>5. n \in Messages /\ n[r] = y /\ \A q \in Ranks : q # r => n[q] = m[q]
  BY <1>3, <1>4 DEF Messages
<1>6. \A s \in Ranks :
              n[r][s] = IF b = s THEN Append(IF a = s THEN Append(m[r][s], f) ELSE m[r][s], g)
                        ELSE IF a = s THEN Append(m[r][s], f) ELSE m[r][s]
  BY <1>2, <1>3, <1>5
<1> QED  BY <1>5, <1>6 DEF n

\* A rank in an exchange.
LEMMA Exchanging ==
  ASSUME TypeOK, LineInv, NEW r \in Ranks, pc[r] \in {"post", "reduce"}
  PROVE  /\ Base(r) = line[r] /\ line[r] \in DOMAIN Lines /\ InGrid(r)
         /\ r \in Grid(line[r]) /\ r \in Cells(Lines[line[r]].dims)
         /\ Dims(r) = Lines[line[r]].dims /\ NDims(r) = Len(Dims(r)) /\ NDims(r) \in Nat
         /\ Grid(line[r]) \subseteq Ranks /\ line[r] = Base(0) /\ ~TooLarge(line[r])
<1>1. Base(r) = line[r]
  BY DEF Base
<1>2. InGrid(r) /\ Base(r) = Base(0) /\ Base(r) \in 0 .. Len(Lines)
  BY DEF LineInv
<1>3. line[r] \in 1 .. Len(Lines)
  BY <1>1, <1>2, HaloAssumption DEF InGrid
<1>4. line[r] \in DOMAIN Lines
  BY <1>3, HaloAssumption
<1>5. ~TooLarge(line[r])
  BY <1>1, <1>2 DEF LineInv, InGrid
<1>6. r \in Grid(line[r])
  BY <1>1, <1>2 DEF InGrid
<1>7. Dims(r) = Lines[line[r]].dims /\ NDims(r) = Len(Dims(r)) /\ NDims(r) \in Nat
  BY <1>1, <1>4, LineFacts DEF Dims, NDims, This
<1>8. Grid(line[r]) = Cells(Lines[line[r]].dims) /\ Grid(line[r]) \subseteq Ranks
  BY <1>4, <1>5, GridFacts
<1> QED  BY <1>1, <1>2, <1>4, <1>5, <1>6, <1>7, <1>8

\* The neighbours the code asks MPI for are those of the numbering.
LEMMA Neighbours ==
  ASSUME TypeOK, LineInv, NEW r \in Ranks, pc[r] = "post", NEW i \in 1 .. NDims(r)
  PROVE  /\ RankSource(r, i) = Toward(reversed, Lines[line[r]].dims, r, i, "source")
         /\ RankDest(r, i) = Toward(reversed, Lines[line[r]].dims, r, i, "dest")
         /\ RankSource(r, i) \in Ranks /\ RankDest(r, i) \in Ranks
         /\ \A side \in Sides : /\ Face(r, i, side) \in Faces
                                /\ Face(r, i, side) = FaceOf(call[r], i, side, Lines[line[r]].halos[i])
<1>1. /\ line[r] \in DOMAIN Lines /\ r \in Cells(Lines[line[r]].dims)
      /\ Grid(line[r]) = Cells(Lines[line[r]].dims) /\ Grid(line[r]) \subseteq Ranks
      /\ NDims(r) = Len(Lines[line[r]].dims)
  BY Exchanging, GridFacts
<1>2. /\ Lines[line[r]].dims \in Seq(Nat \ {0}) /\ Lines[line[r]].halos \in Seq(Nat)
      /\ Len(Lines[line[r]].dims) = Len(Lines[line[r]].halos)
  BY <1>1, LineFacts
<1>3. RankSource(r, i) = Toward(reversed, Lines[line[r]].dims, r, i, "source")
  BY DEF RankSource, Neighbour, This, Toward, Numbered, CartRank, Renumber
<1>4. RankDest(r, i) = Toward(reversed, Lines[line[r]].dims, r, i, "dest")
  BY DEF RankDest, Neighbour, This, Toward, Numbered, CartRank, Renumber
<1>5. i \in 1 .. Len(Lines[line[r]].dims) /\ reversed \in BOOLEAN
  BY <1>1 DEF TypeOK
<1>6. RankSource(r, i) \in Ranks /\ RankDest(r, i) \in Ranks
  <2> DEFINE dims == Lines[line[r]].dims
  <2>1. dims \in Seq(Nat \ {0}) /\ i \in 1 .. Len(dims) /\ r \in Cells(dims) /\ reversed \in BOOLEAN
    BY <1>1, <1>2, <1>5
  <2> HIDE DEF dims
  <2>2. /\ Toward(reversed, dims, r, i, "source") \in Cells(dims)
        /\ Toward(reversed, dims, r, i, "dest") \in Cells(dims)
    BY ONLY <2>1, TowardAndBack
  <2> QED  BY <1>1, <1>3, <1>4, <2>2 DEF dims
<1>7. i \in Nat /\ Lines[line[r]].halos[i] \in Nat /\ call[r] \in Nat
  <2>1. i \in 1 .. Len(Lines[line[r]].halos)
    BY <1>2, <1>5
  <2>2. Lines[line[r]].halos[i] \in Nat
    BY ONLY <1>2, <2>1, SeqElement
  <2>3. i \in Nat
    BY <1>5, <1>1
  <2> QED  BY <2>2, <2>3 DEF TypeOK
<1>8. ASSUME NEW side \in Sides
      PROVE  /\ Face(r, i, side) \in Faces
             /\ Face(r, i, side) = FaceOf(call[r], i, side, Lines[line[r]].halos[i])
  BY <1>7 DEF Face, FaceOf, Faces, This
<1> QED  BY <1>3, <1>4, <1>6, <1>8

\* An iteration of the first loop extends the receives of its rank.
LEMMA Receiving ==
  ASSUME TypeOK, LineInv, NEW r \in Ranks, PostReceives(r)
  PROVE  /\ step[r] + 1 \in 1 .. NDims(r)
         /\ posted' \in Messages
         /\ \A q \in Ranks : q # r => posted'[q] = posted[q]
         /\ \A s \in Ranks : posted'[r][s] =
              Extended(reversed, line[r], r, s, posted[r][s], call[r], step[r] + 1)
<1> DEFINE i == step[r] + 1
           a == RankSource(r, i)
           b == RankDest(r, i)
           f == Face(r, i, "source")
           g == Face(r, i, "dest")
<1>1. i \in 1 .. NDims(r) /\ pc[r] = "post"
  BY Exchanging DEF PostReceives, TypeOK
<1>2. posted' = Twice(posted, r, a, b, f, g)
  BY DEF PostReceives, Twice
<1>3. posted \in Messages
  BY DEF TypeOK, Messages
<1>4. /\ a = Toward(reversed, Lines[line[r]].dims, r, i, "source")
      /\ b = Toward(reversed, Lines[line[r]].dims, r, i, "dest")
      /\ a \in Ranks /\ b \in Ranks /\ f \in Faces /\ g \in Faces
      /\ f = FaceOf(call[r], i, "source", Lines[line[r]].halos[i])
      /\ g = FaceOf(call[r], i, "dest", Lines[line[r]].halos[i])
  BY <1>1, Neighbours DEF Sides
<1> HIDE DEF a, b, f, g
<1>5. /\ posted' \in Messages
      /\ \A q \in Ranks : q # r => posted'[q] = posted[q]
      /\ \A s \in Ranks :
           posted'[r][s] =
             IF b = s THEN Append(IF a = s THEN Append(posted[r][s], f) ELSE posted[r][s], g)
             ELSE IF a = s THEN Append(posted[r][s], f) ELSE posted[r][s]
  <2>1. a \in Ranks /\ b \in Ranks /\ f \in Faces /\ g \in Faces
    BY <1>4
  <2> DEFINE n == Twice(posted, r, a, b, f, g)
  <2>2. /\ n \in Messages
        /\ \A q \in Ranks : q # r => n[q] = posted[q]
        /\ \A s \in Ranks :
             n[r][s] =
               IF b = s THEN Append(IF a = s THEN Append(posted[r][s], f) ELSE posted[r][s], g)
               ELSE IF a = s THEN Append(posted[r][s], f) ELSE posted[r][s]
    BY ONLY <1>3, <2>1, TwoAppends, r \in Ranks
  <2> HIDE DEF n
  <2> QED  BY <1>2, <2>2 DEF n
<1> QED  BY <1>1, <1>4, <1>5 DEF Extended

\* An iteration of the second loop extends the messages of its rank.
LEMMA Sending ==
  ASSUME TypeOK, LineInv, NEW r \in Ranks, PostSends(r)
  PROVE  /\ step[r] + 1 - NDims(r) \in 1 .. NDims(r)
         /\ sent' \in Messages
         /\ \A q \in Ranks : q # r => sent'[q] = sent[q]
         /\ \A s \in Ranks : sent'[r][s] =
              Extended(reversed, line[r], r, s, sent[r][s], call[r], step[r] + 1 - NDims(r))
<1> DEFINE i == step[r] + 1 - NDims(r)
           a == RankSource(r, i)
           b == RankDest(r, i)
           f == Face(r, i, "source")
           g == Face(r, i, "dest")
<1>1. i \in 1 .. NDims(r) /\ pc[r] = "post"
  BY Exchanging DEF PostSends, TypeOK
<1>2. sent' = Twice(sent, r, a, b, f, g)
  BY DEF PostSends, Twice
<1>3. sent \in Messages
  BY DEF TypeOK, Messages
<1>4. /\ a = Toward(reversed, Lines[line[r]].dims, r, i, "source")
      /\ b = Toward(reversed, Lines[line[r]].dims, r, i, "dest")
      /\ a \in Ranks /\ b \in Ranks /\ f \in Faces /\ g \in Faces
      /\ f = FaceOf(call[r], i, "source", Lines[line[r]].halos[i])
      /\ g = FaceOf(call[r], i, "dest", Lines[line[r]].halos[i])
  BY <1>1, Neighbours DEF Sides
<1> HIDE DEF a, b, f, g
<1>5. /\ sent' \in Messages
      /\ \A q \in Ranks : q # r => sent'[q] = sent[q]
      /\ \A s \in Ranks :
           sent'[r][s] =
             IF b = s THEN Append(IF a = s THEN Append(sent[r][s], f) ELSE sent[r][s], g)
             ELSE IF a = s THEN Append(sent[r][s], f) ELSE sent[r][s]
  <2>1. a \in Ranks /\ b \in Ranks /\ f \in Faces /\ g \in Faces
    BY <1>4
  <2> DEFINE n == Twice(sent, r, a, b, f, g)
  <2>2. /\ n \in Messages
        /\ \A q \in Ranks : q # r => n[q] = sent[q]
        /\ \A s \in Ranks :
             n[r][s] =
               IF b = s THEN Append(IF a = s THEN Append(sent[r][s], f) ELSE sent[r][s], g)
               ELSE IF a = s THEN Append(sent[r][s], f) ELSE sent[r][s]
    BY ONLY <1>3, <2>1, TwoAppends, r \in Ranks
  <2> HIDE DEF n
  <2> QED  BY <1>2, <2>2 DEF n
<1> QED  BY <1>1, <1>4, <1>5 DEF Extended

-----------------------------------------------------------------------------
(* The steps. *)

\* Nothing is in flight when a grid is made.
LEMMA NoMessagesFacts ==
  NoMessages \in Messages /\ \A r, s \in Ranks : NoMessages[r][s] = <<>>
<1>1. <<>> \in Seq(Faces)
  OBVIOUS
<1> QED  BY <1>1 DEF NoMessages, Messages

\* The invariant holds at first, and every step keeps it.
LEMMA InitInv == Init => IInv
<1> SUFFICES ASSUME Init  PROVE IInv
  OBVIOUS
<1>1. /\ \A r \in Ranks : pc[r] = "read" /\ line[r] = 0 /\ call[r] = 0 /\ step[r] = 0
      /\ reversed = FALSE /\ reduced = {} /\ printed = <<>>
      /\ posted \in Messages /\ sent \in Messages
      /\ \A r, s \in Ranks : posted[r][s] = <<>> /\ sent[r][s] = <<>>
  BY NoMessagesFacts DEF Init
<1>2. TypeOK
  <2>1. pc \in [Ranks -> Places]
    BY DEF Init, Places
  <2>2. line \in [Ranks -> Nat] /\ call \in [Ranks -> Nat] /\ step \in [Ranks -> Nat]
    BY DEF Init
  <2>3. printed \in Seq(Nat)
    <3>1. <<>> \in Seq(Nat)
      OBVIOUS
    <3> QED  BY <1>1, <3>1
  <2>4. reversed \in BOOLEAN /\ reduced \subseteq Ranks
    BY <1>1
  <2> QED  BY <1>1, <2>1, <2>2, <2>3, <2>4 DEF TypeOK, Messages
<1>3. \A r \in Ranks : Base(r) = 0 /\ ~InGrid(r)
  BY <1>1 DEF Base, InGrid
<1>4. LineInv
  BY <1>1, <1>3, RankFacts, HaloAssumption DEF LineInv
<1>5. CallInv
  BY <1>1, <1>3 DEF CallInv
<1>6. ScriptInv
  BY <1>3 DEF ScriptInv
<1>7. WaitedInv
  BY <1>1 DEF WaitedInv
<1> QED  BY <1>2, <1>4, <1>5, <1>6, <1>7 DEF IInv

LEMMA BcastInv ==
  ASSUME IInv, NEW r \in Ranks, Bcast(r)  PROVE IInv'
<1>1. TypeOK /\ LineInv /\ CallInv /\ ScriptInv /\ WaitedInv
  BY DEF IInv
<1>2. /\ pc[r] = "read" /\ line'[r] = line[r] + 1
      /\ pc'[r] = IF line[r] + 1 > Len(Lines) \/ TooLarge(line[r] + 1) THEN "finalized" ELSE "split"
      /\ \A q \in Ranks : q # r => pc'[q] = pc[q] /\ line'[q] = line[q]
      /\ UNCHANGED <<reversed, call, step, posted, sent, reduced, printed>>
  BY <1>1 DEF Bcast, Goto, TypeOK
<1>3. TypeOK'
  BY <1>1 DEF TypeOK, Bcast, Goto, Places
<1>4. \A q \in Ranks : line[q] \in Nat
  BY <1>1 DEF TypeOK
<1>5. \A q \in Ranks : Base(q)' = Base(q)
  BY <1>2, <1>4 DEF Base
<1>6. \A q \in Ranks : (InGrid(q)' <=> InGrid(q)) /\ Dims(q)' = Dims(q)
  BY <1>5 DEF InGrid, Dims
<1>7. LineInv'
  <2>1. \A q \in Ranks : Base(q)' = Base(0)' /\ Base(q)' \in 0 .. Len(Lines)
    BY <1>1, <1>5, RankFacts DEF LineInv
  <2>2. Base(0)' > 0 => ~TooLarge(Base(0)')
    BY <1>1, <1>5, RankFacts DEF LineInv
  <2>3. ASSUME NEW q \in Ranks
        PROVE  /\ pc'[q] = "split" => line'[q] <= Len(Lines)
               /\ pc'[q] \in {"post", "reduce"} => InGrid(q)'
               /\ pc'[q] = "split" => ~TooLarge(line'[q])
    <3>1. CASE q = r
      BY <1>2, <1>4, <3>1, HaloAssumption
    <3>2. CASE q # r
      BY <1>1, <1>2, <1>6, <3>2 DEF LineInv
    <3> QED  BY <3>1, <3>2
  <2>4. \A q \in Ranks : TooLarge(line[q])' <=> TooLarge(line'[q])
    BY DEF TooLarge
  <2>5. TooLarge(Base(0))' <=> TooLarge(Base(0)')
    BY DEF TooLarge
  <2> QED  BY <2>1, <2>2, <2>3, <2>4, <2>5 DEF LineInv
<1>8. CallInv'
  <2>1. ASSUME NEW q \in Ranks, pc'[q] = "post"  PROVE pc[q] = "post" /\ NDims(q)' = NDims(q)
    BY <1>2, <2>1 DEF NDims, This
  <2> QED  BY <1>1, <1>2, <1>6, <2>1 DEF CallInv
<1>9. ScriptInv'
  <2>1. \A q \in Ranks : ReceivesUpTo(q)' = ReceivesUpTo(q) /\ SendsUpTo(q)' = SendsUpTo(q)
    BY <1>2, <1>6 DEF ReceivesUpTo, SendsUpTo
  <2> QED  BY <1>1, <1>2, <1>5, <1>6, <2>1 DEF ScriptInv
<1>10. WaitedInv'
  BY <1>1, <1>2 DEF WaitedInv
<1> QED  BY <1>3, <1>7, <1>8, <1>9, <1>10 DEF IInv

LEMMA ReduceInv ==
  ASSUME IInv, NEW r \in Ranks, Reduce(r)  PROVE IInv'
<1>1. TypeOK /\ LineInv /\ CallInv /\ ScriptInv /\ WaitedInv
  BY DEF IInv
<1>2. /\ pc[r] = "reduce" /\ pc'[r] = "read" /\ reduced' = reduced \cup {r}
      /\ \A q \in Ranks : q # r => pc'[q] = pc[q]
      /\ UNCHANGED <<line, reversed, call, step, posted, sent>>
  BY <1>1 DEF Reduce, Goto, TypeOK
<1>3. TypeOK'
  <2>1. printed' \in Seq(Nat)
    BY <1>1 DEF TypeOK, Reduce
  <2>2. pc' \in [Ranks -> Places]
    BY <1>1 DEF TypeOK, Reduce, Goto, Places
  <2> QED  BY <1>1, <1>2, <2>1, <2>2 DEF TypeOK
<1>4. \A q \in Ranks : Base(q)' = Base(q)
  BY <1>2 DEF Base
<1>5. \A q \in Ranks : (InGrid(q)' <=> InGrid(q)) /\ Dims(q)' = Dims(q) /\ NDims(q)' = NDims(q)
  BY <1>2, <1>4 DEF InGrid, Dims, NDims, This
<1>6. InGrid(r)
  BY <1>1, <1>2, Exchanging
<1>7. LineInv'
  <2>1. \A q \in Ranks : Base(q)' = Base(0)' /\ Base(q)' \in 0 .. Len(Lines)
    BY <1>1, <1>4, RankFacts DEF LineInv
  <2>2. TooLarge(Base(0))' <=> TooLarge(Base(0)')
    BY DEF TooLarge
  <2>3. Base(0)' > 0 => ~TooLarge(Base(0)')
    BY <1>1, <1>4, RankFacts DEF LineInv
  <2>4. \A q \in Ranks : TooLarge(line[q])' <=> TooLarge(line[q])
    BY <1>2 DEF TooLarge
  <2>5. \A q \in Ranks : (pc'[q] = "split" => pc[q] = "split")
                         /\ (pc'[q] \in {"post", "reduce"} => pc[q] \in {"post", "reduce"})
    BY <1>2
  <2> QED  BY <1>1, <1>2, <1>5, <2>1, <2>2, <2>3, <2>4, <2>5 DEF LineInv
<1>8. CallInv'
  <2>1. ASSUME NEW q \in Ranks
        PROVE  /\ pc'[q] = "post" => pc[q] = "post"
               /\ pc'[q] # "post" => pc[q] # "post"
               /\ q \in reduced' => (q = r \/ q \in reduced)
               /\ pc'[q] \in {"post", "reduce"} => pc[q] \in {"post", "reduce"}
    BY <1>2
  <2>2. ASSUME NEW q \in Ranks, q \in reduced'
        PROVE  InGrid(q)' /\ pc'[q] \notin {"post", "reduce"}
    BY <1>1, <1>2, <1>5, <1>6, <2>1, <2>2 DEF CallInv
  <2>3. ASSUME NEW q \in Ranks
        PROVE  /\ pc'[q] = "post" => call'[q] < NCALLS /\ step'[q] <= 2 * NDims(q)'
               /\ pc'[q] # "post" => /\ step'[q] = 0
                                     /\ call'[q] = IF InGrid(q)' THEN NCALLS ELSE 0
               /\ ~InGrid(q)' => \A s \in Ranks : posted'[q][s] = <<>> /\ sent'[q][s] = <<>>
    BY <1>1, <1>2, <1>5, <2>1 DEF CallInv
  <2> QED  BY <2>2, <2>3 DEF CallInv
<1>9. ScriptInv'
  <2>1. \A q \in Ranks : ReceivesUpTo(q)' = ReceivesUpTo(q) /\ SendsUpTo(q)' = SendsUpTo(q)
    BY <1>2, <1>5 DEF ReceivesUpTo, SendsUpTo
  <2> QED  BY <1>1, <1>2, <1>4, <1>5, <2>1 DEF ScriptInv
<1>10. WaitedInv'
  BY <1>1, <1>2 DEF WaitedInv
<1> QED  BY <1>3, <1>7, <1>8, <1>9, <1>10 DEF IInv

LEMMA SplitInv ==
  ASSUME IInv, Split  PROVE IInv'
<1>1. TypeOK /\ LineInv /\ CallInv /\ ScriptInv /\ WaitedInv
  BY DEF IInv
<1> DEFINE k == line[0]
<1>2. \A r \in Ranks : pc[r] = "split" /\ line[r] \in Nat
  BY <1>1 DEF Split, TypeOK
<1>3. ASSUME NEW r \in Ranks  PROVE line[r] = k /\ k \in 1 .. Len(Lines) /\ ~TooLarge(k)
  <2>1. Base(r) = line[r] - 1 /\ Base(0) = line[0] - 1
    BY <1>2, RankFacts DEF Base
  <2>2. /\ Base(r) = Base(0) /\ Base(r) \in 0 .. Len(Lines)
        /\ line[0] <= Len(Lines) /\ ~TooLarge(line[0])
    BY <1>1, <1>2, RankFacts DEF LineInv
  <2> QED  BY <1>2, <2>1, <2>2, RankFacts, HaloAssumption
<1>4. k \in DOMAIN Lines /\ ~TooLarge(k) /\ k \in Nat /\ k > 0
  BY <1>3, RankFacts, HaloAssumption
<1>5. /\ \A r \in Ranks : /\ pc'[r] = IF r \in Grid(k) THEN "post" ELSE "read"
                          /\ line'[r] = k /\ call'[r] = 0 /\ step'[r] = 0
      /\ posted' \in Messages /\ sent' \in Messages
      /\ \A r, s \in Ranks : posted'[r][s] = <<>> /\ sent'[r][s] = <<>>
      /\ reversed' \in BOOLEAN /\ reduced' = {} /\ printed' = printed /\ line' = line
  BY <1>3, NoMessagesFacts DEF Split
<1> HIDE DEF k
<1>6. TypeOK'
  <2>1. pc' \in [Ranks -> Places]
    BY <1>1 DEF Split, Places
  <2>2. call' \in [Ranks -> Nat] /\ step' \in [Ranks -> Nat]
    BY DEF Split
  <2> QED  BY <1>1, <1>5, <2>1, <2>2 DEF TypeOK, Messages
<1>7. \A r \in Ranks : /\ Base(r)' = k /\ (InGrid(r)' <=> r \in Grid(k))
                       /\ NDims(r)' = Len(Lines[k].dims) /\ Dims(r)' = Lines[k].dims
  <2>1. \A r \in Ranks : Base(r)' = k
    BY <1>5 DEF Base
  <2>2. \A r \in Ranks : InGrid(r)' <=> r \in Grid(k)
    BY <1>4, <2>1 DEF InGrid
  <2>3. \A r \in Ranks : Dims(r)' = Lines[k].dims
    BY <2>1 DEF Dims
  <2>4. \A r \in Ranks : NDims(r)' = Len(Lines[k].dims)
    BY <1>5 DEF NDims, This
  <2> QED  BY <2>1, <2>2, <2>3, <2>4
<1>8. LineInv'
  <2>1. TooLarge(Base(0))' <=> TooLarge(Base(0)')
    BY DEF TooLarge
  <2>2. k \in 0 .. Len(Lines)
    BY <1>3, RankFacts
  <2> QED  BY <1>4, <1>5, <1>7, <2>1, <2>2, RankFacts DEF LineInv
<1>9. Len(Lines[k].dims) \in Nat
  BY <1>4, LineFacts
<1>10. CallInv'
  BY <1>5, <1>7, <1>9, HaloAssumption DEF CallInv
<1>11. ScriptInv'
  <2>1. \A r \in Ranks : ReceivesUpTo(r)' = 0 /\ SendsUpTo(r)' = 0
    BY <1>5, <1>7, <1>9 DEF ReceivesUpTo, SendsUpTo, Least
  <2>2. ASSUME NEW r \in Ranks, NEW s \in Ranks
        PROVE  /\ Script(reversed', Base(r)', r, s, posted'[r][s], call'[r], ReceivesUpTo(r)')
               /\ Script(reversed', Base(r)', r, s, sent'[r][s], call'[r], SendsUpTo(r)')
    BY <1>4, <1>5, <1>7, <2>1, ScriptTurns
  <2> QED  BY <2>2 DEF ScriptInv
<1>12. WaitedInv'
  BY <1>5 DEF WaitedInv
<1> QED  BY <1>6, <1>8, <1>10, <1>11, <1>12 DEF IInv

\* An iteration of either loop, or the end of an exchange: the place in the
\* grid stays.
LEMMA StaysInGrid ==
  ASSUME TypeOK, LineInv, NEW r \in Ranks, pc[r] = "post",
         UNCHANGED line, pc' \in [Ranks -> Places], pc'[r] \in {"post", "reduce"},
         \A q \in Ranks : q # r => pc'[q] = pc[q]
  PROVE  /\ \A q \in Ranks : /\ Base(q)' = Base(q) /\ (InGrid(q)' <=> InGrid(q))
                             /\ Dims(q)' = Dims(q) /\ NDims(q)' = NDims(q)
         /\ LineInv'
<1>1. \A q \in Ranks : Base(q)' = Base(q)
  BY DEF Base
<1>2. \A q \in Ranks : (InGrid(q)' <=> InGrid(q)) /\ Dims(q)' = Dims(q) /\ NDims(q)' = NDims(q)
  BY <1>1 DEF InGrid, Dims, NDims, This
<1>3. LineInv'
  <2>1. \A q \in Ranks : Base(q)' = Base(0)' /\ Base(q)' \in 0 .. Len(Lines)
    BY <1>1, RankFacts DEF LineInv
  <2>2. TooLarge(Base(0))' <=> TooLarge(Base(0)')
    BY DEF TooLarge
  <2>3. Base(0)' > 0 => ~TooLarge(Base(0)')
    BY <1>1, RankFacts DEF LineInv
  <2>4. \A q \in Ranks : TooLarge(line[q])' <=> TooLarge(line[q])
    BY DEF TooLarge
  <2>5. \A q \in Ranks : /\ pc'[q] = "split" => pc[q] = "split"
                         /\ pc'[q] \in {"post", "reduce"} => pc[q] \in {"post", "reduce"}
    OBVIOUS
  <2> QED  BY <1>2, <2>1, <2>2, <2>3, <2>4, <2>5 DEF LineInv
<1> QED  BY <1>1, <1>2, <1>3

LEMMA PostReceivesInv ==
  ASSUME IInv, NEW r \in Ranks, PostReceives(r)  PROVE IInv'
<1>1. TypeOK /\ LineInv /\ CallInv /\ ScriptInv /\ WaitedInv
  BY DEF IInv
<1> DEFINE k == line[r]
           i == step[r] + 1
<1>2. /\ pc[r] = "post" /\ step[r] < NDims(r) /\ step' = [step EXCEPT ![r] = @ + 1]
      /\ UNCHANGED <<pc, line, reversed, call, sent, reduced, printed>>
  BY DEF PostReceives
<1>3. /\ i \in 1 .. NDims(r) /\ posted' \in Messages
      /\ \A q \in Ranks : q # r => posted'[q] = posted[q]
      /\ \A s \in Ranks : posted'[r][s] = Extended(reversed, k, r, s, posted[r][s], call[r], i)
  BY <1>1, Receiving
<1>4. /\ step'[r] = i /\ \A q \in Ranks : q # r => step'[q] = step[q]
      /\ step' \in [Ranks -> Nat] /\ step[r] \in Nat /\ call[r] \in Nat
  BY <1>1, <1>2 DEF TypeOK
<1>5. TypeOK'
  BY <1>1, <1>2, <1>3, <1>4 DEF TypeOK, Messages
<1>6. /\ LineInv'
      /\ \A q \in Ranks : /\ Base(q)' = Base(q) /\ (InGrid(q)' <=> InGrid(q))
                          /\ Dims(q)' = Dims(q) /\ NDims(q)' = NDims(q)
  BY <1>1, <1>2, StaysInGrid DEF TypeOK
<1>7. /\ Base(r) = k /\ k \in DOMAIN Lines /\ InGrid(r)
      /\ Dims(r) = Lines[k].dims /\ NDims(r) = Len(Lines[k].dims) /\ NDims(r) \in Nat
  BY <1>1, <1>2, Exchanging
<1> HIDE DEF k, i
<1>8. CallInv'
  <2>1. ASSUME NEW q \in Ranks
        PROVE  /\ pc'[q] = "post" => call'[q] < NCALLS /\ step'[q] <= 2 * NDims(q)'
               /\ pc'[q] # "post" => /\ step'[q] = 0
                                     /\ call'[q] = IF InGrid(q)' THEN NCALLS ELSE 0
    <3>1. CASE q = r
      BY <1>1, <1>2, <1>3, <1>4, <1>6, <1>7, <3>1 DEF CallInv
    <3>2. CASE q # r
      BY <1>1, <1>2, <1>4, <1>6, <3>2 DEF CallInv
    <3> QED  BY <3>1, <3>2
  <2>2. ASSUME NEW q \in Ranks
        PROVE  /\ ~InGrid(q)' => \A s \in Ranks : posted'[q][s] = <<>> /\ sent'[q][s] = <<>>
               /\ q \in reduced' => InGrid(q)' /\ pc'[q] \notin {"post", "reduce"}
    BY <1>1, <1>2, <1>3, <1>6, <1>7 DEF CallInv
  <2> QED  BY <2>1, <2>2 DEF CallInv
<1>9. ScriptInv'
  <2>1. ASSUME NEW q \in Ranks, InGrid(q)', NEW s \in Ranks
        PROVE  /\ Script(reversed', Base(q)', q, s, posted'[q][s], call'[q], ReceivesUpTo(q)')
               /\ Script(reversed', Base(q)', q, s, sent'[q][s], call'[q], SendsUpTo(q)')
    <3>1. CASE q # r
      <4>1. ReceivesUpTo(q)' = ReceivesUpTo(q) /\ SendsUpTo(q)' = SendsUpTo(q)
        BY <1>4, <1>6, <3>1 DEF ReceivesUpTo, SendsUpTo
      <4> QED  BY <1>1, <1>2, <1>3, <1>6, <2>1, <3>1, <4>1 DEF ScriptInv
    <3>2. CASE q = r
      <4>1. /\ ReceivesUpTo(r) = i - 1 /\ SendsUpTo(r) = 0
            /\ ReceivesUpTo(r)' = i /\ SendsUpTo(r)' = 0
        BY <1>2, <1>3, <1>4, <1>6, <1>7 DEF ReceivesUpTo, SendsUpTo, Least, i
      <4>2. /\ Script(reversed, k, r, s, posted[r][s], call[r], i - 1)
            /\ Script(reversed, k, r, s, sent[r][s], call[r], 0)
        BY <1>1, <1>7, <4>1 DEF ScriptInv
      <4>3. posted[r][s] \in Seq(Faces)
        BY <1>1 DEF TypeOK
      <4>4. Script(reversed, k, r, s, Extended(reversed, k, r, s, posted[r][s], call[r], i),
                   call[r], i)
        BY <1>3, <1>4, <1>7, <4>2, <4>3, ScriptExtends
      <4>5. /\ Base(r)' = k /\ reversed' = reversed /\ call'[r] = call[r] /\ sent' = sent
            /\ posted'[r][s] = Extended(reversed, k, r, s, posted[r][s], call[r], i)
        BY <1>2, <1>3, <1>6, <1>7
      <4> QED  BY <3>2, <4>1, <4>2, <4>4, <4>5
    <3> QED  BY <3>1, <3>2
  <2> QED  BY <2>1 DEF ScriptInv
<1>10. WaitedInv'
  <2> SUFFICES ASSUME NEW q \in Ranks, NEW s \in Ranks, NEW n \in DOMAIN posted'[q][s],
                      posted'[q][s][n].call < call'[q]
               PROVE  n <= Len(sent'[s][q])
    BY DEF WaitedInv
  <2>1. CASE q # r
    BY <1>1, <1>2, <1>3, <2>1 DEF WaitedInv
  <2>2. CASE q = r
    <3> DEFINE p == posted[r][s]
               x == posted'[r][s]
    <3>1. p \in Seq(Faces) /\ x \in Seq(Faces)
      BY <1>1, <1>5 DEF TypeOK
    <3>2. \A m \in 1 .. Len(x) : (x[m] = p[m] /\ m \in 1 .. Len(p)) \/ x[m].call = call[r]
      <4>1. x = Extended(reversed, k, r, s, p, call[r], i)
        BY <1>3
      <4>2. i \in Nat /\ Lines[k].halos[i] \in Nat
        BY <1>3, <1>7, HaloSizes
      <4> HIDE DEF p, x
      <4> QED  BY <1>4, <3>1, <4>1, <4>2, ExtendedKeeps
    <3>3. n \in 1 .. Len(x) /\ x[n].call < call[r]
      BY <1>2, <2>2, <3>1
    <3>4. n \in DOMAIN posted[r][s] /\ posted[r][s][n].call < call[r]
      BY <1>4, <3>1, <3>2, <3>3
    <3> QED  BY <1>1, <1>2, <2>2, <3>4 DEF WaitedInv
  <2> QED  BY <2>1, <2>2
<1> QED  BY <1>5, <1>6, <1>8, <1>9, <1>10 DEF IInv

LEMMA PostSendsInv ==
  ASSUME IInv, NEW r \in Ranks, PostSends(r)  PROVE IInv'
<1>1. TypeOK /\ LineInv /\ CallInv /\ ScriptInv /\ WaitedInv
  BY DEF IInv
<1> DEFINE k == line[r]
           i == step[r] + 1 - NDims(r)
<1>2. /\ pc[r] = "post" /\ step[r] \in NDims(r) .. 2 * NDims(r) - 1
      /\ step' = [step EXCEPT ![r] = @ + 1]
      /\ UNCHANGED <<pc, line, reversed, call, posted, reduced, printed>>
  BY DEF PostSends
<1>3. /\ i \in 1 .. NDims(r) /\ sent' \in Messages
      /\ \A q \in Ranks : q # r => sent'[q] = sent[q]
      /\ \A s \in Ranks : sent'[r][s] = Extended(reversed, k, r, s, sent[r][s], call[r], i)
  BY <1>1, Sending
<1>4. /\ step'[r] = step[r] + 1 /\ \A q \in Ranks : q # r => step'[q] = step[q]
      /\ step' \in [Ranks -> Nat] /\ step[r] \in Nat /\ call[r] \in Nat
  BY <1>1, <1>2 DEF TypeOK
<1>5. TypeOK'
  BY <1>1, <1>2, <1>3, <1>4 DEF TypeOK, Messages
<1>6. /\ LineInv'
      /\ \A q \in Ranks : /\ Base(q)' = Base(q) /\ (InGrid(q)' <=> InGrid(q))
                          /\ Dims(q)' = Dims(q) /\ NDims(q)' = NDims(q)
  BY <1>1, <1>2, StaysInGrid DEF TypeOK
<1>7. /\ Base(r) = k /\ k \in DOMAIN Lines /\ InGrid(r)
      /\ Dims(r) = Lines[k].dims /\ NDims(r) = Len(Lines[k].dims) /\ NDims(r) \in Nat
  BY <1>1, <1>2, Exchanging
<1>8. i = step[r] + 1 - NDims(r)
  OBVIOUS
<1> HIDE DEF k, i
<1>9. CallInv'
  <2>1. ASSUME NEW q \in Ranks
        PROVE  /\ pc'[q] = "post" => call'[q] < NCALLS /\ step'[q] <= 2 * NDims(q)'
               /\ pc'[q] # "post" => /\ step'[q] = 0
                                     /\ call'[q] = IF InGrid(q)' THEN NCALLS ELSE 0
    <3>1. CASE q = r
      BY <1>1, <1>2, <1>4, <1>6, <1>7, <3>1 DEF CallInv
    <3>2. CASE q # r
      BY <1>1, <1>2, <1>4, <1>6, <3>2 DEF CallInv
    <3> QED  BY <3>1, <3>2
  <2>2. ASSUME NEW q \in Ranks
        PROVE  /\ ~InGrid(q)' => \A s \in Ranks : posted'[q][s] = <<>> /\ sent'[q][s] = <<>>
               /\ q \in reduced' => InGrid(q)' /\ pc'[q] \notin {"post", "reduce"}
    BY <1>1, <1>2, <1>3, <1>6, <1>7 DEF CallInv
  <2> QED  BY <2>1, <2>2 DEF CallInv
<1>10. ScriptInv'
  <2>1. ASSUME NEW q \in Ranks, InGrid(q)', NEW s \in Ranks
        PROVE  /\ Script(reversed', Base(q)', q, s, posted'[q][s], call'[q], ReceivesUpTo(q)')
               /\ Script(reversed', Base(q)', q, s, sent'[q][s], call'[q], SendsUpTo(q)')
    <3>1. CASE q # r
      <4>1. ReceivesUpTo(q)' = ReceivesUpTo(q) /\ SendsUpTo(q)' = SendsUpTo(q)
        BY <1>4, <1>6, <3>1 DEF ReceivesUpTo, SendsUpTo
      <4> QED  BY <1>1, <1>2, <1>3, <1>6, <2>1, <3>1, <4>1 DEF ScriptInv
    <3>2. CASE q = r
      <4>1. /\ ReceivesUpTo(r) = NDims(r) /\ SendsUpTo(r) = i - 1
            /\ ReceivesUpTo(r)' = NDims(r) /\ SendsUpTo(r)' = i
        BY <1>2, <1>4, <1>6, <1>7, <1>8 DEF ReceivesUpTo, SendsUpTo, Least
      <4>2. /\ Script(reversed, k, r, s, posted[r][s], call[r], NDims(r))
            /\ Script(reversed, k, r, s, sent[r][s], call[r], i - 1)
        BY <1>1, <1>7, <4>1 DEF ScriptInv
      <4>3. sent[r][s] \in Seq(Faces)
        BY <1>1 DEF TypeOK
      <4>4. Script(reversed, k, r, s, Extended(reversed, k, r, s, sent[r][s], call[r], i),
                   call[r], i)
        BY <1>3, <1>4, <1>7, <4>2, <4>3, ScriptExtends
      <4>5. /\ Base(r)' = k /\ reversed' = reversed /\ call'[r] = call[r] /\ posted' = posted
            /\ sent'[r][s] = Extended(reversed, k, r, s, sent[r][s], call[r], i)
        BY <1>2, <1>3, <1>6, <1>7
      <4> QED  BY <3>2, <4>1, <4>2, <4>4, <4>5
    <3> QED  BY <3>1, <3>2
  <2> QED  BY <2>1 DEF ScriptInv
<1>11. WaitedInv'
  <2>1. ASSUME NEW q \in Ranks, NEW s \in Ranks
        PROVE  /\ Len(sent[q][s]) \in Nat /\ Len(sent'[q][s]) \in Nat
               /\ Len(sent[q][s]) <= Len(sent'[q][s])
    <3>1. sent[q][s] \in Seq(Faces) /\ sent'[q][s] \in Seq(Faces)
      BY <1>1, <1>5 DEF TypeOK
    <3>2. CASE q # r
      BY <1>3, <3>1, <3>2
    <3>3. CASE q = r
      <4>1. i \in Nat /\ Lines[k].halos[i] \in Nat
        BY <1>3, <1>7, HaloSizes
      <4>2. Len(sent[r][s]) <= Len(Extended(reversed, k, r, s, sent[r][s], call[r], i))
        BY <1>4, <3>1, <3>3, <4>1, ExtendedKeeps
      <4>3. sent'[r][s] = Extended(reversed, k, r, s, sent[r][s], call[r], i)
        BY <1>3
      <4> QED  BY <3>1, <3>3, <4>2, <4>3
    <3> QED  BY <3>2, <3>3
  <2> SUFFICES ASSUME NEW q \in Ranks, NEW s \in Ranks, NEW n \in DOMAIN posted'[q][s],
                      posted'[q][s][n].call < call'[q]
               PROVE  n <= Len(sent'[s][q])
    BY DEF WaitedInv
  <2>2. n <= Len(sent[s][q])
    BY <1>1, <1>2 DEF WaitedInv
  <2>3. n \in Nat
    <3>1. posted'[q][s] \in Seq(Faces)
      BY <1>5 DEF TypeOK
    <3> QED  BY <3>1
  <2> QED  BY <2>1, <2>2, <2>3
<1> QED  BY <1>5, <1>6, <1>9, <1>10, <1>11 DEF IInv

LEMMA WaitallInv ==
  ASSUME IInv, NEW r \in Ranks, Waitall(r)  PROVE IInv'
<1>1. TypeOK /\ LineInv /\ CallInv /\ ScriptInv /\ WaitedInv
  BY DEF IInv
<1> DEFINE k == line[r]
<1>2. /\ pc[r] = "post" /\ step[r] = 2 * NDims(r) /\ ReceivesDone(r)
      /\ call' = [call EXCEPT ![r] = @ + 1] /\ step' = [step EXCEPT ![r] = 0]
      /\ pc' = [pc EXCEPT ![r] = IF call'[r] = NCALLS THEN "reduce" ELSE "post"]
      /\ UNCHANGED <<line, reversed, posted, sent, reduced, printed>>
  BY DEF Waitall, Goto
<1>3. /\ call'[r] = call[r] + 1 /\ step'[r] = 0
      /\ pc'[r] = IF call'[r] = NCALLS THEN "reduce" ELSE "post"
      /\ \A q \in Ranks : q # r => step'[q] = step[q] /\ call'[q] = call[q] /\ pc'[q] = pc[q]
      /\ step' \in [Ranks -> Nat] /\ call' \in [Ranks -> Nat] /\ pc' \in [Ranks -> Places]
      /\ call[r] \in Nat
  BY <1>1, <1>2 DEF TypeOK, Places
<1>4. TypeOK'
  BY <1>1, <1>2, <1>3 DEF TypeOK
<1>5. /\ LineInv'
      /\ \A q \in Ranks : /\ Base(q)' = Base(q) /\ (InGrid(q)' <=> InGrid(q))
                          /\ Dims(q)' = Dims(q) /\ NDims(q)' = NDims(q)
  <2>1. pc'[r] \in {"post", "reduce"}
    BY <1>3
  <2> QED  BY <1>1, <1>2, <1>3, <2>1, StaysInGrid
<1>6. /\ Base(r) = k /\ k \in DOMAIN Lines /\ InGrid(r)
      /\ Dims(r) = Lines[k].dims /\ NDims(r) = Len(Lines[k].dims) /\ NDims(r) \in Nat
  BY <1>1, <1>2, Exchanging
<1> HIDE DEF k
<1>7. call[r] < NCALLS
  BY <1>1, <1>2 DEF CallInv
<1>8. CallInv'
  <2>1. ASSUME NEW q \in Ranks
        PROVE  /\ pc'[q] = "post" => call'[q] < NCALLS /\ step'[q] <= 2 * NDims(q)'
               /\ pc'[q] # "post" => /\ step'[q] = 0
                                     /\ call'[q] = IF InGrid(q)' THEN NCALLS ELSE 0
    <3>1. CASE q = r
      BY <1>3, <1>5, <1>6, <1>7, <3>1, HaloAssumption
    <3>2. CASE q # r
      BY <1>1, <1>3, <1>5, <3>2 DEF CallInv
    <3> QED  BY <3>1, <3>2
  <2>2. ASSUME NEW q \in Ranks
        PROVE  /\ ~InGrid(q)' => \A s \in Ranks : posted'[q][s] = <<>> /\ sent'[q][s] = <<>>
               /\ q \in reduced' => InGrid(q)' /\ pc'[q] \notin {"post", "reduce"}
    BY <1>1, <1>2, <1>3, <1>5 DEF CallInv
  <2> QED  BY <2>1, <2>2 DEF CallInv
<1>9. ScriptInv'
  <2>1. ASSUME NEW q \in Ranks, InGrid(q)', NEW s \in Ranks
        PROVE  /\ Script(reversed', Base(q)', q, s, posted'[q][s], call'[q], ReceivesUpTo(q)')
               /\ Script(reversed', Base(q)', q, s, sent'[q][s], call'[q], SendsUpTo(q)')
    <3>1. CASE q # r
      <4>1. ReceivesUpTo(q)' = ReceivesUpTo(q) /\ SendsUpTo(q)' = SendsUpTo(q)
        BY <1>3, <1>5, <3>1 DEF ReceivesUpTo, SendsUpTo
      <4> QED  BY <1>1, <1>2, <1>3, <1>5, <2>1, <3>1, <4>1 DEF ScriptInv
    <3>2. CASE q = r
      <4>1. /\ ReceivesUpTo(r) = NDims(r) /\ SendsUpTo(r) = NDims(r)
            /\ ReceivesUpTo(r)' = 0 /\ SendsUpTo(r)' = 0
        BY <1>2, <1>3, <1>5, <1>6 DEF ReceivesUpTo, SendsUpTo, Least
      <4>2. /\ Script(reversed, k, r, s, posted[r][s], call[r], NDims(r))
            /\ Script(reversed, k, r, s, sent[r][s], call[r], NDims(r))
        BY <1>1, <1>6, <4>1 DEF ScriptInv
      <4>3. /\ Script(reversed, k, r, s, posted[r][s], call[r] + 1, 0)
            /\ Script(reversed, k, r, s, sent[r][s], call[r] + 1, 0)
        BY <1>3, <1>6, <4>2, ScriptTurns
      <4>4. Base(r)' = k /\ UNCHANGED <<reversed, posted, sent>>
        BY <1>2, <1>5, <1>6
      <4> QED  BY <1>3, <3>2, <4>1, <4>3, <4>4
    <3> QED  BY <3>1, <3>2
  <2> QED  BY <2>1 DEF ScriptInv
<1>10. WaitedInv'
  <2> SUFFICES ASSUME NEW q \in Ranks, NEW s \in Ranks, NEW n \in DOMAIN posted[q][s],
                      posted[q][s][n].call < call'[q]
               PROVE  n <= Len(sent[s][q])
    BY <1>2 DEF WaitedInv
  <2>1. CASE q # r
    BY <1>1, <1>3, <2>1 DEF WaitedInv
  <2>2. CASE q = r
    <3>1. posted[r][s] \in Seq(Faces) /\ sent[s][r] \in Seq(Faces)
      BY <1>1 DEF TypeOK
    <3>2. Len(posted[r][s]) <= Len(sent[s][r])
      BY <1>2 DEF ReceivesDone
    <3> QED  BY <2>2, <3>1, <3>2
  <2> QED  BY <2>1, <2>2
<1> QED  BY <1>4, <1>5, <1>8, <1>9, <1>10 DEF IInv

LEMMA StutterInv ==
  ASSUME IInv, UNCHANGED vars  PROVE IInv'
<1>1. TypeOK /\ LineInv /\ CallInv /\ ScriptInv /\ WaitedInv
  BY DEF IInv
<1> USE DEF vars
<1>2. TypeOK'
  BY <1>1 DEF TypeOK
<1>3. LineInv'
  BY <1>1 DEF LineInv, Base, InGrid, TooLarge
<1>4. CallInv'
  BY <1>1 DEF CallInv, InGrid, Base, NDims, This
<1>5. ScriptInv'
  BY <1>1 DEF ScriptInv, InGrid, Base, ReceivesUpTo, SendsUpTo, Dims
<1>6. WaitedInv'
  BY <1>1 DEF WaitedInv
<1> QED  BY <1>2, <1>3, <1>4, <1>5, <1>6 DEF IInv

\* The inductive invariant holds of halo_cell_exchange.c for every input, grid and
\* interleaving.
THEOREM Inductive == Spec => []IInv
<1>1. Init => IInv
  BY InitInv
<1>2. IInv /\ [Next]_vars => IInv'
  <2> SUFFICES ASSUME IInv, [Next]_vars  PROVE IInv'
    OBVIOUS
  <2>1. CASE Split
    BY <2>1, SplitInv
  <2>2. CASE Done \/ UNCHANGED vars
    BY <2>2, StutterInv DEF Done
  <2>3. ASSUME NEW r \in Ranks, Rank(r)  PROVE IInv'
    BY <2>3, BcastInv, PostReceivesInv, PostSendsInv, WaitallInv, ReduceInv DEF Rank
  <2> QED  BY <2>1, <2>2, <2>3 DEF Next
<1> QED  BY <1>1, <1>2, PTL DEF Spec

-----------------------------------------------------------------------------
(* Messages are matched as meant. *)

\* The requests of both ends of a pair.
LEMMA BothEnds ==
  ASSUME IInv, NEW r \in Ranks, NEW s \in Ranks, InGrid(r), InGrid(s),
         NEW K, K = Base(0), NEW dims, dims = Lines[K].dims
  PROVE  /\ K \in DOMAIN Lines /\ dims \in Seq(Nat \ {0}) /\ reversed \in BOOLEAN
         /\ Base(r) = K /\ Base(s) = K /\ Grid(K) = Cells(dims)
         /\ r \in Cells(dims) /\ s \in Cells(dims)
         /\ call[r] \in Nat /\ ReceivesUpTo(r) \in Nat /\ call[s] \in Nat /\ SendsUpTo(s) \in Nat
         /\ posted[r][s] \in Seq(Faces) /\ sent[s][r] \in Seq(Faces)
         /\ \A n \in 1 .. Len(posted[r][s]) : Fits(reversed, K, r, s, posted[r][s][n])
         /\ \A n \in 1 .. Len(sent[s][r]) : Fits(reversed, K, s, r, sent[s][r][n])
         /\ Lists(SlotsOf(reversed, dims, r, s, posted[r][s]),
                  Wanted(reversed, dims, r, s, call[r], ReceivesUpTo(r)))
         /\ Lists(SlotsOf(reversed, dims, s, r, sent[s][r]),
                  Wanted(reversed, dims, r, s, call[s], SendsUpTo(s)))
<1>1. TypeOK /\ LineInv /\ CallInv /\ ScriptInv
  BY DEF IInv
<1>2. Base(r) = K /\ Base(s) = K /\ K \in 1 .. Len(Lines)
  BY <1>1, HaloAssumption DEF LineInv, InGrid
<1>3. K \in DOMAIN Lines
  BY <1>2, HaloAssumption
<1>4. dims \in Seq(Nat \ {0}) /\ Grid(K) = Cells(dims)
  BY <1>3, LineFacts, GridFacts
<1>5. r \in Cells(dims) /\ s \in Cells(dims)
  BY <1>2, <1>4 DEF InGrid
<1>6. /\ call[r] \in Nat /\ call[s] \in Nat /\ reversed \in BOOLEAN
      /\ posted[r][s] \in Seq(Faces) /\ sent[s][r] \in Seq(Faces)
      /\ step[r] \in Nat /\ step[s] \in Nat
  BY <1>1 DEF TypeOK
<1>7. ReceivesUpTo(r) \in Nat /\ SendsUpTo(s) \in Nat
  <2>1. Dims(r) = dims /\ Dims(s) = dims /\ Len(dims) \in Nat
    BY <1>2, <1>4 DEF Dims
  <2> QED  BY <1>6, <2>1 DEF ReceivesUpTo, SendsUpTo, Least
<1>8. /\ Script(reversed, K, r, s, posted[r][s], call[r], ReceivesUpTo(r))
      /\ Script(reversed, K, s, r, sent[s][r], call[s], SendsUpTo(s))
  BY <1>1, <1>2 DEF ScriptInv
<1>9. /\ \A n \in 1 .. Len(posted[r][s]) : Fits(reversed, K, r, s, posted[r][s][n])
      /\ Lists(SlotsOf(reversed, dims, r, s, posted[r][s]),
               Wanted(reversed, dims, r, s, call[r], ReceivesUpTo(r)))
  BY <1>8, ScriptParts
<1>10. /\ \A n \in 1 .. Len(sent[s][r]) : Fits(reversed, K, s, r, sent[s][r][n])
       /\ Lists(SlotsOf(reversed, dims, s, r, sent[s][r]),
                Wanted(reversed, dims, s, r, call[s], SendsUpTo(s)))
  BY <1>8, ScriptParts
<1>11. Wanted(reversed, dims, s, r, call[s], SendsUpTo(s)) =
         Wanted(reversed, dims, r, s, call[s], SendsUpTo(s))
  BY ONLY <1>4, <1>5, <1>6, <1>7, WantedMirrored
<1> QED  BY <1>2, <1>3, <1>4, <1>5, <1>6, <1>7, <1>9, <1>10, <1>11

\* A slot tells the exchange and the dimension.
LEMMA SlotFields ==
  ASSUME NEW rev, NEW dims, NEW r, NEW s, NEW f
  PROVE  Slot(rev, dims, r, s, f)[1] = f.call /\ Slot(rev, dims, r, s, f)[2] = f.dim
  BY DEF Slot

\* The k-th receive and the k-th message of a pair have the same slot, hence the
\* same exchange, dimension and size; in a dimension of three ranks or more the
\* sides are opposite.
LEMMA MatchedStep == IInv => MatchedAsMeant
<1> SUFFICES ASSUME IInv, NEW r \in Ranks, NEW s \in Ranks, NEW k \in Matched(r, s)
             PROVE  LET want == posted[r][s][k]
                        got  == sent[s][r][k]
                    IN  /\ want.call = got.call /\ want.dim = got.dim /\ want.size = got.size
                        /\ pc[r] \in {"post", "reduce"} /\ This(r).dims[want.dim] >= 3 =>
                              want.side # got.side
  BY DEF MatchedAsMeant
<1> DEFINE want == posted[r][s][k]
           got == sent[s][r][k]
           K == Base(0)
           dims == Lines[K].dims
           p == posted[r][s]
           g == sent[s][r]
<1>1. TypeOK /\ LineInv /\ CallInv
  BY DEF IInv
<1>2. p \in Seq(Faces) /\ g \in Seq(Faces)
  BY <1>1 DEF TypeOK
<1>3. k \in 1 .. Len(p) /\ k \in 1 .. Len(g)
  BY <1>2 DEF Matched
<1>4. InGrid(r) /\ InGrid(s)
  <2>1. p # <<>> /\ g # <<>>
    BY <1>3
  <2> QED  BY <1>1, <2>1 DEF CallInv
<1> DEFINE V == Wanted(reversed, dims, r, s, call[r], ReceivesUpTo(r))
           W == Wanted(reversed, dims, r, s, call[s], SendsUpTo(s))
           pp == SlotsOf(reversed, dims, r, s, p)
           gg == SlotsOf(reversed, dims, s, r, g)
<1>5. /\ K \in DOMAIN Lines /\ dims \in Seq(Nat \ {0}) /\ reversed \in BOOLEAN /\ Base(r) = K
      /\ r \in Cells(dims) /\ s \in Cells(dims)
      /\ call[r] \in Nat /\ ReceivesUpTo(r) \in Nat /\ call[s] \in Nat /\ SendsUpTo(s) \in Nat
      /\ \A n \in 1 .. Len(p) : Fits(reversed, K, r, s, p[n])
      /\ \A n \in 1 .. Len(g) : Fits(reversed, K, s, r, g[n])
      /\ Lists(pp, V) /\ Lists(gg, W)
  BY <1>4, BothEnds
<1> HIDE DEF dims, K
<1>6. V \in SUBSET Slots /\ W \in SUBSET Slots /\ Begins(V, W) /\ Begins(W, V)
  BY <1>5, WantedShape, WantedBegins
<1>7. /\ pp \in Seq(Slots) /\ gg \in Seq(Slots) /\ Len(pp) = Len(p) /\ Len(gg) = Len(g)
      /\ pp[k] = Slot(reversed, dims, r, s, p[k]) /\ gg[k] = Slot(reversed, dims, s, r, g[k])
  BY <1>2, <1>3, SlotsOfFaces
<1> HIDE DEF pp, gg, V, W
<1>8. pp[k] = gg[k]
  BY <1>3, <1>5, <1>6, <1>7, ListsAgree
<1>9. want.call = got.call /\ want.dim = got.dim
  <2>1. Slot(reversed, dims, r, s, want) = Slot(reversed, dims, s, r, got)
    BY <1>7, <1>8
  <2>2. /\ Slot(reversed, dims, r, s, want)[1] = want.call
        /\ Slot(reversed, dims, r, s, want)[2] = want.dim
    BY ONLY SlotFields
  <2>3. /\ Slot(reversed, dims, s, r, got)[1] = got.call
        /\ Slot(reversed, dims, s, r, got)[2] = got.dim
    BY ONLY SlotFields
  <2> QED  BY ONLY <2>1, <2>2, <2>3
<1>10. Fits(reversed, K, r, s, want) /\ Fits(reversed, K, s, r, got)
  BY <1>3, <1>5
<1>11. want.size = got.size
  BY <1>9, <1>10 DEF Fits
<1>12. ASSUME pc[r] \in {"post", "reduce"}, This(r).dims[want.dim] >= 3
       PROVE  want.side # got.side
  <2> DEFINE i == want.dim
  <2>1. This(r).dims = dims
    BY <1>1, <1>5, <1>12, Exchanging DEF This, dims
  <2>2. /\ i \in 1 .. Len(dims) /\ dims[i] >= 3
        /\ want.side \in Sides /\ Toward(reversed, dims, r, i, want.side) = s
        /\ got.side \in Sides /\ Toward(reversed, dims, s, i, got.side) = r
    BY <1>9, <1>10, <1>12, <2>1 DEF Fits, dims
  <2> HIDE DEF i, want, got
  <2>3. Toward(reversed, dims, r, i, "source") # Toward(reversed, dims, r, i, "dest")
    BY <1>5, <2>2, TowardAndBack
  <2>4. /\ Toward(reversed, dims, r, i, "source") = s <=> Toward(reversed, dims, s, i, "dest") = r
        /\ Toward(reversed, dims, r, i, "dest") = s <=> Toward(reversed, dims, s, i, "source") = r
    BY <1>5, <2>2, Mirrored
  <2> QED  BY <2>2, <2>3, <2>4 DEF Sides
<1> QED  BY <1>9, <1>11, <1>12

\* A receive only ever takes the message that was meant for it, although all
\* messages of the exchange have tag 1.
THEOREM Matching == Spec => []MatchedAsMeant
  BY Inductive, MatchedStep, PTL

-----------------------------------------------------------------------------
(* A result is printed when all is finished. *)

\* When all of a grid have done their calls, the two ends of each pair have as
\* many receives as messages.
LEMMA AllDone ==
  ASSUME IInv, NEW r \in Ranks, InGrid(r), NEW s \in Ranks,
         \A q \in Grid(Base(0)) : call[q] = NCALLS /\ step[q] = 0
  PROVE  Len(posted[r][s]) = Len(sent[s][r])
<1> DEFINE K == Base(0)
           dims == Lines[K].dims
           p == posted[r][s]
           g == sent[s][r]
<1>1. TypeOK /\ LineInv /\ CallInv
  BY DEF IInv
<1>2. InGrid(s) <=> s \in Grid(K)
  BY <1>1 DEF LineInv, InGrid
<1>3. CASE InGrid(s)
  <2> DEFINE W == Wanted(reversed, dims, r, s, NCALLS, 0)
             pp == SlotsOf(reversed, dims, r, s, p)
             gg == SlotsOf(reversed, dims, s, r, g)
  <2>1. /\ p \in Seq(Faces) /\ g \in Seq(Faces) /\ dims \in Seq(Nat \ {0})
        /\ Base(r) = K /\ Base(s) = K
        /\ Lists(pp, Wanted(reversed, dims, r, s, call[r], ReceivesUpTo(r)))
        /\ Lists(gg, Wanted(reversed, dims, r, s, call[s], SendsUpTo(s)))
    BY <1>3, BothEnds
  <2>2. r \in Grid(K)
    BY <2>1 DEF InGrid
  <2>3. call[r] = NCALLS /\ call[s] = NCALLS /\ step[r] = 0 /\ step[s] = 0
    BY <1>2, <1>3, <2>2
  <2>4. ReceivesUpTo(r) = 0 /\ SendsUpTo(s) = 0
    <3>1. Dims(r) = dims /\ Dims(s) = dims /\ Len(dims) \in Nat
      BY <2>1 DEF Dims
    <3> QED  BY <2>3, <3>1 DEF ReceivesUpTo, SendsUpTo, Least
  <2>5. Lists(pp, W) /\ Lists(gg, W)
    BY <2>1, <2>3, <2>4
  <2>6. /\ W \in SUBSET Slots /\ pp \in Seq(Slots) /\ gg \in Seq(Slots)
        /\ Len(pp) = Len(p) /\ Len(gg) = Len(g)
    <3> HIDE DEF dims
    <3>1. NCALLS \in Nat
      BY HaloAssumption
    <3> QED  BY <2>1, <3>1, WantedShape, SlotsOfFaces
  <2> HIDE DEF W, pp, gg
  <2>7. Len(pp) = Len(gg)
    BY ONLY <2>5, <2>6, ListsSameLength
  <2> QED  BY <2>6, <2>7
<1>4. CASE ~InGrid(s)
  <2>1. g = <<>>
    BY <1>1, <1>4 DEF CallInv
  <2>2. /\ p \in Seq(Faces) /\ dims \in Seq(Nat \ {0}) /\ Grid(K) = Cells(dims)
        /\ r \in Cells(dims) /\ reversed \in BOOLEAN
        /\ \A n \in 1 .. Len(p) : Fits(reversed, K, r, s, p[n])
    <3>1. /\ K \in DOMAIN Lines /\ dims \in Seq(Nat \ {0}) /\ reversed \in BOOLEAN
          /\ Base(r) = K /\ Grid(K) = Cells(dims) /\ r \in Cells(dims)
      BY BothEnds
    <3>2. p \in Seq(Faces)
      BY <1>1 DEF TypeOK
    <3>3. Script(reversed, K, r, s, p, call[r], ReceivesUpTo(r))
      BY <3>1 DEF IInv, ScriptInv
    <3> QED  BY <3>1, <3>2, <3>3, ScriptParts
  <2>3. ASSUME NEW n \in 1 .. Len(p)  PROVE FALSE
    <3>1. /\ p[n].dim \in 1 .. Len(dims) /\ p[n].side \in Sides
          /\ Toward(reversed, dims, r, p[n].dim, p[n].side) = s
      BY <2>2 DEF Fits
    <3> HIDE DEF dims, p, K
    <3>2. s \in Cells(dims)
      BY <2>2, <3>1, TowardAndBack DEF Sides
    <3> QED  BY <1>2, <1>4, <2>2, <3>2
  <2>4. Len(p) = 0
    <3>1. Len(p) \in Nat
      BY <2>2
    <3>2. Len(p) > 0 => 1 \in 1 .. Len(p)
      BY <3>1
    <3> QED  BY <2>3, <3>1, <3>2
  <2> QED  BY <2>1, <2>4
<1> QED  BY <1>3, <1>4

\* A rank prints only when the whole grid is done.
LEMMA PrintedStep ==
  ASSUME IInv, [Next]_vars, printed' # printed
  PROVE  LET k == printed'[Len(printed')]
         IN  \A r \in Grid(k) :
               /\ call[r] = NCALLS
               /\ \A s \in Ranks : Len(posted[r][s]) = Len(sent[s][r])
<1>1. PICK r \in Ranks : Reduce(r)
  BY DEF Next, vars, Split, Done, Rank, Bcast, PostReceives, PostSends, Waitall
<1> DEFINE K == Base(0)
<1>2. TypeOK /\ LineInv /\ CallInv
  BY DEF IInv
<1>3. /\ printed' = Append(printed, line[r]) /\ reduced \cup {r} = Grid(line[r])
      /\ pc[r] = "reduce"
  BY <1>1 DEF Reduce
<1>4. /\ line[r] = K /\ InGrid(r) /\ Grid(line[r]) \subseteq Ranks /\ Base(r) = K
  BY <1>2, <1>3, Exchanging
<1>5. printed'[Len(printed')] = K
  <2>1. printed \in Seq(Nat) /\ line[r] \in Nat
    BY <1>2 DEF TypeOK
  <2> QED  BY <1>3, <1>4, <2>1
<1>6. ASSUME NEW q \in Grid(K)  PROVE q \in Ranks /\ InGrid(q) /\ call[q] = NCALLS /\ step[q] = 0
  <2>1. q \in Ranks /\ (q = r \/ q \in reduced)
    BY <1>3, <1>4
  <2>2. InGrid(q) /\ pc[q] # "post"
    BY <1>2, <1>3, <1>4, <2>1 DEF CallInv
  <2> QED  BY <1>2, <2>1, <2>2 DEF CallInv
<1> HIDE DEF K
<1>7. ASSUME NEW q \in Grid(K)
      PROVE  call[q] = NCALLS /\ \A s \in Ranks : Len(posted[q][s]) = Len(sent[s][q])
  BY <1>6, AllDone DEF K
<1> QED  BY <1>5, <1>7

\* The result of a line is printed only when every rank of its grid has done all
\* its exchanges and nothing is in flight.
THEOREM Printing == Spec => PrintedWhenFinished
<1>1. IInv /\ [Next]_vars =>
        [printed' # printed =>
           LET k == printed'[Len(printed')]
           IN  \A r \in Grid(k) :
                 /\ call[r] = NCALLS
                 /\ \A s \in Ranks : Len(posted[r][s]) = Len(sent[s][r])]_vars
  BY PrintedStep
<1> QED  BY <1>1, Inductive, PTL DEF Spec, PrintedWhenFinished

-----------------------------------------------------------------------------
(* Receives in flight stay apart. *)

\* A finite sequence of naturals has a largest.
LEMMA Largest ==
  ASSUME NEW q \in Seq(Nat), Len(q) > 0
  PROVE  \E h \in {q[i] : i \in 1 .. Len(q)} : \A i \in 1 .. Len(q) : q[i] <= h
<1> DEFINE S == {N \in Nat : N > 0 /\ N <= Len(q) =>
                   \E j \in 1 .. N : \A i \in 1 .. N : q[i] <= q[j]}
<1>0. Len(q) \in Nat /\ \A i \in 1 .. Len(q) : q[i] \in Nat
  OBVIOUS
<1>1. 0 \in S
  OBVIOUS
<1>2. ASSUME NEW N \in Nat, N \in S  PROVE N + 1 \in S
  <2> SUFFICES ASSUME N + 1 <= Len(q)
               PROVE  \E j \in 1 .. N + 1 : \A i \in 1 .. N + 1 : q[i] <= q[j]
    OBVIOUS
  <2>1. \A i \in 1 .. N + 1 : q[i] \in Nat /\ (i \in 1 .. N \/ i = N + 1)
    BY <1>0
  <2>2. CASE N = 0
    BY <2>1, <2>2
  <2>3. CASE N > 0
    <3>1. PICK j \in 1 .. N : \A i \in 1 .. N : q[i] <= q[j]
      BY <1>0, <1>2, <2>3
    <3>2. j \in 1 .. N + 1 /\ N + 1 \in 1 .. N + 1
      BY <2>3
    <3>3. CASE q[j] <= q[N + 1]
      <4>1. \A i \in 1 .. N + 1 : q[i] <= q[N + 1]
        BY <2>1, <3>1, <3>2, <3>3
      <4> QED  BY <3>2, <4>1
    <3>4. CASE ~(q[j] <= q[N + 1])
      <4>1. \A i \in 1 .. N + 1 : q[i] <= q[j]
        BY <2>1, <3>1, <3>2, <3>4
      <4> QED  BY <3>2, <4>1
    <3> QED  BY <3>3, <3>4
  <2> QED  BY <2>2, <2>3
<1>3. S = Nat
  <2> HIDE DEF S
  <2>1. S \in SUBSET Nat
    BY DEF S
  <2> QED  BY ONLY <1>1, <1>2, <2>1, NatSetInduction
<1>4. PICK j \in 1 .. Len(q) : \A i \in 1 .. Len(q) : q[i] <= q[j]
  <2>1. Len(q) \in S
    BY <1>0, <1>3
  <2> QED  BY <2>1
<1> HIDE DEF S
<1>5. q[j] \in {q[i] : i \in 1 .. Len(q)}
  OBVIOUS
<1> QED  BY ONLY <1>4, <1>5

\* Products of naturals grow with their factors.
LEMMA Times ==
  ASSUME NEW a \in Nat, NEW b \in Nat, NEW x \in Nat, NEW y \in Nat, a <= b, x <= y
  PROVE  a * x \in Nat /\ b * y \in Nat /\ a * x <= b * y
<1>1. b * y = a * x + (a * (y - x) + (b - a) * y)
  OBVIOUS
<1>2. a * (y - x) >= 0 /\ (b - a) * y >= 0
  OBVIOUS
<1> QED  BY <1>1, <1>2

\* One cell more.
LEMMA Cell ==
  ASSUME NEW a \in Nat, NEW x \in Nat
  PROVE  (a + 1) * x = a * x + x
  OBVIOUS

\* A receive in flight is one of the current exchange.
LEMMA InFlight ==
  ASSUME IInv, NEW r \in Ranks, pc[r] = "post", NEW u \in Pending(r)
  PROVE  /\ u = <<u[1], u[2]>> /\ u[1] \in Ranks /\ u[2] \in 1 .. Len(posted[r][u[1]])
         /\ posted[r][u[1]] \in Seq(Faces)
         /\ posted[r][u[1]][u[2]] \in Faces
         /\ posted[r][u[1]][u[2]].call = call[r]
         /\ Fits(reversed, line[r], r, u[1], posted[r][u[1]][u[2]])
         /\ line[r] \in DOMAIN Lines
<1>1. TypeOK /\ LineInv /\ ScriptInv /\ WaitedInv
  BY DEF IInv
<1>2. PICK s \in Ranks : \E k \in Len(sent[s][r]) + 1 .. Len(posted[r][s]) : u = <<s, k>>
  BY DEF Pending
<1>3. PICK k \in Len(sent[s][r]) + 1 .. Len(posted[r][s]) : u = <<s, k>>
  BY <1>2
<1> DEFINE p == posted[r][s]
           K == line[r]
           dims == Lines[K].dims
<1>4. p \in Seq(Faces) /\ sent[s][r] \in Seq(Faces) /\ call[r] \in Nat /\ step[r] \in Nat
  BY <1>1 DEF TypeOK
<1>5. k \in 1 .. Len(p) /\ ~(k <= Len(sent[s][r])) /\ p[k] \in Faces /\ k \in DOMAIN p
  BY <1>3, <1>4
<1>6. K \in DOMAIN Lines /\ Base(r) = K /\ InGrid(r) /\ Dims(r) = dims
  BY <1>1, Exchanging
<1>7. dims \in Seq(Nat \ {0}) /\ ReceivesUpTo(r) \in Nat
  <2>1. dims \in Seq(Nat \ {0}) /\ Len(dims) \in Nat
    BY <1>6, LineFacts
  <2> QED  BY <1>4, <1>6, <2>1 DEF ReceivesUpTo, Least
<1>8. Script(reversed, K, r, s, p, call[r], ReceivesUpTo(r))
  BY <1>1, <1>6 DEF ScriptInv
<1> DEFINE W == Wanted(reversed, dims, r, s, call[r], ReceivesUpTo(r))
           pp == SlotsOf(reversed, dims, r, s, p)
<1>9. Fits(reversed, K, r, s, p[k]) /\ Lists(pp, W)
  BY <1>5, <1>8, ScriptParts
<1>10. /\ W \in SUBSET Slots /\ \A w \in W : w[1] \in 0 .. call[r]
       /\ pp[k] = Slot(reversed, dims, r, s, p[k]) /\ Len(pp) = Len(p)
  <2> HIDE DEF dims
  <2> QED  BY <1>4, <1>5, <1>7, WantedShape, SlotsOfFaces
<1> HIDE DEF W, pp
<1>11. p[k].call \in 0 .. call[r]
  <2>1. pp[k] \in W
    BY <1>5, <1>9, <1>10 DEF Lists
  <2>2. pp[k][1] = p[k].call
    BY <1>10, SlotFields
  <2> QED  BY <1>10, <2>1, <2>2
<1>12. ~(p[k].call < call[r])
  BY <1>1, <1>5 DEF WaitedInv
<1>13. p[k].call = call[r]
  BY <1>4, <1>11, <1>12
<1>14. u[1] = s /\ u[2] = k
  BY <1>3
<1> QED  BY <1>3, <1>4, <1>5, <1>6, <1>9, <1>13, <1>14

\* Two of them are for different faces.
LEMMA DifferentFaces ==
  ASSUME IInv, NEW r \in Ranks, pc[r] = "post", NEW u \in Pending(r), NEW v \in Pending(r), u # v
  PROVE  \/ posted[r][u[1]][u[2]].dim # posted[r][v[1]][v[2]].dim
         \/ posted[r][u[1]][u[2]].side # posted[r][v[1]][v[2]].side
<1> DEFINE f == posted[r][u[1]][u[2]]
           g == posted[r][v[1]][v[2]]
<1> SUFFICES ASSUME f.dim = g.dim, f.side = g.side  PROVE FALSE
  OBVIOUS
<1> DEFINE K == line[r]
           dims == Lines[K].dims
           s == u[1]
           p == posted[r][s]
<1>1. /\ u = <<u[1], u[2]>> /\ s \in Ranks /\ u[2] \in 1 .. Len(p) /\ p \in Seq(Faces)
      /\ f.call = call[r] /\ Fits(reversed, K, r, u[1], f) /\ K \in DOMAIN Lines
  BY InFlight
<1>2. /\ v = <<v[1], v[2]>> /\ v[2] \in 1 .. Len(posted[r][v[1]])
      /\ g.call = call[r] /\ Fits(reversed, K, r, v[1], g)
  BY InFlight
<1>3. u[1] = v[1]
  BY <1>1, <1>2 DEF Fits
<1>4. u[2] # v[2] /\ v[2] \in 1 .. Len(p)
  BY <1>1, <1>2, <1>3
<1>5. Slot(reversed, dims, r, s, f) = Slot(reversed, dims, r, s, g)
  BY <1>1, <1>2 DEF Slot
<1>6. TypeOK /\ LineInv /\ ScriptInv
  BY DEF IInv
<1>7. Base(r) = K /\ InGrid(r)
  BY <1>6, Exchanging
<1>8. Script(reversed, K, r, s, p, call[r], ReceivesUpTo(r))
  BY <1>1, <1>6, <1>7 DEF ScriptInv
<1> DEFINE W == Wanted(reversed, dims, r, s, call[r], ReceivesUpTo(r))
           pp == SlotsOf(reversed, dims, r, s, p)
<1>9. Lists(pp, W)
  BY <1>8, ScriptParts
<1>10. /\ pp \in Seq(Slots) /\ Len(pp) = Len(p)
       /\ pp[u[2]] = Slot(reversed, dims, r, s, p[u[2]])
       /\ pp[v[2]] = Slot(reversed, dims, r, s, p[v[2]])
  <2> HIDE DEF dims, p
  <2> QED  BY <1>1, <1>4, SlotsOfFaces
<1> HIDE DEF W, pp
<1>11. pp[u[2]] = pp[v[2]] /\ pp[u[2]] \in Slots
  BY <1>1, <1>3, <1>5, <1>10
<1>12. Before(pp[u[2]], pp[v[2]]) \/ Before(pp[v[2]], pp[u[2]])
  <2>1. u[2] \in 1 .. Len(pp) /\ v[2] \in 1 .. Len(pp) /\ (u[2] < v[2] \/ v[2] < u[2])
    BY <1>1, <1>4, <1>10
  <2> QED  BY <1>9, <2>1 DEF Lists
<1> QED  BY <1>11, <1>12, BeforeOrders

\* The number of the request of a face.
Request(f) == (f.dim - 1) * 2 + (IF f.side = "dest" THEN 1 ELSE 0)

\* A request writes to the cells of its number.
LEMMA RegionOf ==
  ASSUME NEW r, NEW f \in Faces, f.dim > 0
  PROVE  /\ Request(f) \in Nat /\ Request(f) + 1 <= f.dim * 2
         /\ Region(r, f) = Request(f) * f.size .. (Request(f) + 1) * f.size - 1
<1>1. f.dim \in Nat /\ f.size \in Nat
  BY DEF Faces
<1>2. Request(f) \in Nat /\ Request(f) + 1 <= f.dim * 2
  BY <1>1 DEF Request
<1>3. (Request(f) + 1) * f.size = Request(f) * f.size + f.size
  BY ONLY <1>1, <1>2, Cell
<1>4. Region(r, f) = Request(f) * f.size .. Request(f) * f.size + f.size - 1
  BY DEF Region, Request
<1>5. Request(f) * f.size + f.size - 1 = (Request(f) + 1) * f.size - 1
  BY ONLY <1>1, <1>2, <1>3
<1>6. Region(r, f) = Request(f) * f.size .. (Request(f) + 1) * f.size - 1
  BY ONLY <1>4, <1>5
<1> QED  BY ONLY <1>2, <1>6

\* Receives in flight are for different faces, so that their parts of the buffer
\* are within it, and apart when all halos are of one size.
LEMMA ApartStep == IInv => ReceivesApart
<1> SUFFICES ASSUME IInv, NEW r \in Ranks, pc[r] = "post"
             PROVE  /\ \A p \in Pending(r) :
                         Region(r, posted[r][p[1]][p[2]]) \subseteq 0 .. BufferSize(r) - 1
                    /\ EqualHalos(r) => \A p, q \in Pending(r) : p # q =>
                         Region(r, posted[r][p[1]][p[2]]) \cap Region(r, posted[r][q[1]][q[2]])
                           = {}
  BY DEF ReceivesApart
<1> DEFINE K == line[r]
           N == NDims(r)
           halos == Lines[K].halos
           face(p) == posted[r][p[1]][p[2]]
<1>1. K \in DOMAIN Lines /\ N = Len(Lines[K].dims) /\ N \in Nat
  BY Exchanging DEF IInv
<1>2. halos \in Seq(Nat) /\ Len(halos) = N /\ \A i \in 1 .. N : halos[i] \in Nat
  <2>1. halos \in Seq(Nat) /\ Len(halos) = N
    BY <1>1, LineFacts
  <2> QED  BY <2>1
<1>3. ASSUME NEW p \in Pending(r)
      PROVE  /\ face(p) \in Faces /\ face(p).dim \in 1 .. N /\ face(p).side \in Sides
             /\ face(p).size = halos[face(p).dim]
  BY <1>1, InFlight DEF Fits
<1> HIDE DEF face
<1>4. ASSUME NEW p \in Pending(r)  PROVE Region(r, face(p)) \subseteq 0 .. BufferSize(r) - 1
  <2> DEFINE f == face(p)
             H == {halos[i] : i \in 1 .. N}
             largest == CHOOSE h \in H : \A i \in 1 .. N : halos[i] <= h
  <2>1. f \in Faces /\ f.dim \in 1 .. N /\ f.size = halos[f.dim] /\ f.dim \in Nat /\ f.size \in Nat
    BY <1>1, <1>2, <1>3 DEF Faces
  <2>2. \E h \in H : \A i \in 1 .. N : halos[i] <= h
    <3>1. Len(halos) > 0
      BY <1>1, <1>2, <2>1
    <3> HIDE DEF halos, N
    <3> QED  BY <1>2, <3>1, Largest
  <2>3. largest \in H /\ \A i \in 1 .. N : halos[i] <= largest
    BY <2>2
  <2>4. BufferSize(r) = (N * 2) * largest
    BY DEF BufferSize, This
  <2> HIDE DEF largest, f, N, halos
  <2>5. f.size <= largest /\ largest \in Nat
    BY <1>2, <2>1, <2>3
  <2>6. /\ Request(f) \in Nat /\ Request(f) + 1 <= f.dim * 2
        /\ Region(r, f) = Request(f) * f.size .. (Request(f) + 1) * f.size - 1
    <3>1. f.dim > 0
      BY <1>1, <2>1
    <3> QED  BY ONLY <2>1, <3>1, RegionOf
  <2>7. Request(f) + 1 <= N * 2 /\ N * 2 \in Nat /\ Request(f) + 1 \in Nat
    BY <1>1, <2>1, <2>6
  <2>8. (Request(f) + 1) * f.size <= (N * 2) * largest /\ (N * 2) * largest \in Nat
        /\ (Request(f) + 1) * f.size \in Nat
    BY ONLY <2>1, <2>5, <2>7, Times
  <2>9. Request(f) * f.size \in Nat
    BY ONLY <2>1, <2>6, Times
  <2> QED  BY <2>4, <2>6, <2>8, <2>9 DEF f
<1>5. ASSUME EqualHalos(r), NEW p \in Pending(r), NEW q \in Pending(r), p # q
      PROVE  Region(r, face(p)) \cap Region(r, face(q)) = {}
  <2> DEFINE f == face(p)
             g == face(q)
             h == f.size
  <2>1. /\ f \in Faces /\ f.dim \in 1 .. N /\ f.side \in Sides /\ f.size = halos[f.dim]
        /\ g \in Faces /\ g.dim \in 1 .. N /\ g.side \in Sides /\ g.size = halos[g.dim]
    BY <1>3, <1>5
  <2>2. g.size = h /\ h \in Nat
    <3>1. halos[f.dim] = halos[g.dim]
      BY <1>5, <2>1 DEF EqualHalos, This
    <3> QED  BY <2>1, <3>1 DEF Faces
  <2>3. f.dim # g.dim \/ f.side # g.side
    BY <1>5, DifferentFaces DEF face
  <2> HIDE DEF f, g, h, N, halos
  <2>4. Request(f) # Request(g)
    <3>1. f.dim \in Nat /\ g.dim \in Nat
      BY <2>1 DEF Faces
    <3> QED  BY <2>1, <2>3, <3>1 DEF Request, Sides
  <2>5. /\ Request(f) \in Nat /\ Region(r, f) = Request(f) * h .. (Request(f) + 1) * h - 1
        /\ Request(g) \in Nat /\ Region(r, g) = Request(g) * h .. (Request(g) + 1) * h - 1
    <3>1. f.dim > 0 /\ g.dim > 0 /\ h = f.size
      BY <1>1, <2>1 DEF h
    <3>2. /\ Request(f) \in Nat
          /\ Region(r, f) = Request(f) * f.size .. (Request(f) + 1) * f.size - 1
      BY ONLY <2>1, <3>1, RegionOf
    <3>3. /\ Request(g) \in Nat
          /\ Region(r, g) = Request(g) * g.size .. (Request(g) + 1) * g.size - 1
      BY ONLY <2>1, <3>1, RegionOf
    <3> QED  BY ONLY <2>2, <3>1, <3>2, <3>3
  <2>6. ASSUME NEW a \in Nat, NEW b \in Nat, a < b
        PROVE  (a * h .. (a + 1) * h - 1) \cap (b * h .. (b + 1) * h - 1) = {}
    <3>1. (a + 1) * h <= b * h /\ (a + 1) * h \in Nat /\ b * h \in Nat
      <4>1. a + 1 <= b /\ a + 1 \in Nat
        BY <2>6
      <4> QED  BY ONLY <4>1, <2>2, b \in Nat, Times
    <3> QED  BY <3>1
  <2>7. CASE Request(f) < Request(g)
    BY <2>5, <2>6, <2>7 DEF f, g
  <2>8. CASE Request(g) < Request(f)
    <3>1. Region(r, g) \cap Region(r, f) = {}
      BY <2>5, <2>6, <2>8
    <3> QED  BY <3>1 DEF f, g
  <2> QED  BY <2>4, <2>5, <2>7, <2>8
<1> QED  BY <1>4, <1>5 DEF face

\* Receives in flight stay within the buffer, and disjoint for equal halo sizes.
THEOREM Apart == Spec => []ReceivesApart
  BY Inductive, ApartStep, PTL

-----------------------------------------------------------------------------
(* The GPU burn benchmark, for any number of devices. *)

\* The values of a thread's stage.
Stages == {"warmup", "hold", "blocking", "loop", "compute", "log", "exited"}

\* The devices are finitely many, and so are those that are ready.
LEMMA DevicesFinite ==
    /\ IsFiniteSet(Devices) /\ Cardinality(Devices) = NumDevices
    /\ IsFiniteSet(Ready) /\ Cardinality(Ready) \in Nat
    /\ Cardinality(Ready) = NumDevices => Ready = Devices
<1>1. IsFiniteSet(Devices) /\ Cardinality(Devices) = NumDevices
  BY DevicesAssumption, FS_Interval DEF Devices
<1>2. Ready \subseteq Devices
  BY DEF Ready
<1>3. IsFiniteSet(Ready) /\ Cardinality(Ready) \in Nat
  BY <1>1, <1>2, FS_Subset, FS_CardinalityType
<1>4. Cardinality(Ready) = Cardinality(Devices) => Ready = Devices
  BY <1>1, <1>2, FS_Subset
<1> QED  BY <1>1, <1>3, <1>4

-----------------------------------------------------------------------------
(* Type correctness. *)

LEMMA BurnInitType == BurnInit => BurnTypeOK
<1> SUFFICES ASSUME BurnInit  PROVE BurnTypeOK
  OBVIOUS
<1>1. /\ stage \in [Devices -> {"warmup", "hold", "blocking", "loop", "compute", "log", "exited"}]
      /\ found \in [Devices -> BOOLEAN] /\ reps \in [Devices -> BOOLEAN]
      /\ err \in [Devices -> BOOLEAN] /\ logged \in [Devices -> SUBSET BOOLEAN]
      /\ verdict \in [Devices -> {"none", "OK", "FAULTY"}]
  BY DEF BurnInit
<1>2. next \in 1..(NumDevices + 1)
  BY DevicesAssumption DEF BurnInit
<1>3. burn \in BOOLEAN
  BY DEF BurnInit
<1>4. /\ main \in {"start", "blocking", "set", "notify", "sleep", "read", "join", "end"}
      /\ cvm \in {"free", "worker", "launch"} /\ startUpCounter \in Nat
      /\ waiters \subseteq Devices \cup {Launch}
  BY DEF BurnInit
<1> QED  BY <1>1, <1>2, <1>3, <1>4 DEF BurnTypeOK

LEMMA BurnTypeStep == BurnTypeOK /\ [BurnNext]_burnVars => BurnTypeOK'
<1> SUFFICES ASSUME BurnTypeOK, [BurnNext]_burnVars  PROVE BurnTypeOK'
  OBVIOUS
<1>1. ASSUME NEW d \in Devices, Worker(d)  PROVE BurnTypeOK'
  <2>1. CASE SignalReady(d)
    BY <2>1 DEF BurnTypeOK, SignalReady, trackers
  <2>2. CASE HoldOff(d)
    BY <2>2 DEF BurnTypeOK, HoldOff, trackers
  <2>3. CASE Block(d)
    BY <2>3 DEF BurnTypeOK, Block, trackers
  <2>4. CASE Repeat(d)
    BY <2>4 DEF BurnTypeOK, Repeat, trackers
  <2>5. CASE Compute(d)
    BY <2>5 DEF BurnTypeOK, Compute, trackers
  <2>6. CASE Log(d)
    <3>2. logged' \in [Devices -> SUBSET BOOLEAN]
      BY <2>6 DEF BurnTypeOK, Log, Logged
    <3>3. err' \in [Devices -> BOOLEAN] /\ reps' \in [Devices -> BOOLEAN]
          /\ found' \in [Devices -> BOOLEAN]
      BY <2>6 DEF BurnTypeOK, Log
    <3> QED  BY <2>6, <3>2, <3>3 DEF BurnTypeOK, Log
  <2> QED  BY <1>1, <2>1, <2>2, <2>3, <2>4, <2>5, <2>6 DEF Worker
<1>2. CASE AwaitReady \/ BlockLaunch \/ SetBurn \/ NotifyAll \/ ResetBurn \/ StartJoin \/ Join
  BY <1>2 DEF BurnTypeOK, AwaitReady, BlockLaunch, SetBurn, NotifyAll, ResetBurn, StartJoin, Join,
              threads, trackers
<1>3. CASE ReadTracker
  <2>1. reps' \in [Devices -> BOOLEAN] /\ err' \in [Devices -> BOOLEAN]
    BY <1>3 DEF BurnTypeOK, ReadTracker
  <2>2. verdict' \in [Devices -> {"none", "OK", "FAULTY"}]
    BY <1>3 DEF BurnTypeOK, ReadTracker
  <2>3. next' \in 1..(NumDevices + 1)
    BY <1>3, DevicesAssumption DEF BurnTypeOK, ReadTracker, Devices
  <2> QED  BY <1>3, <2>1, <2>2, <2>3 DEF BurnTypeOK, ReadTracker, threads
<1>4. CASE SpuriousWakeup \/ UNCHANGED burnVars
  BY <1>4 DEF BurnTypeOK, SpuriousWakeup, threads, trackers, burnVars
<1> QED  BY <1>1, <1>2, <1>3, <1>4 DEF BurnNext, Main, Terminated

-----------------------------------------------------------------------------
(* The start of the burn. *)

\* One step per action that moves a thread or launch.
LEMMA SwitchStep ==
    BurnTypeOK /\ CounterInv /\ SwitchInv /\ [BurnNext]_burnVars => (CounterInv /\ SwitchInv)'
<1> SUFFICES ASSUME BurnTypeOK, CounterInv, SwitchInv, [BurnNext]_burnVars
             PROVE  (CounterInv /\ SwitchInv)'
  OBVIOUS
<1>0. stage \in [Devices -> Stages]
  BY DEF BurnTypeOK, Stages
<1>1. ASSUME NEW d \in Devices, SignalReady(d)  PROVE (CounterInv /\ SwitchInv)'
  <2>1. Ready' = Ready \cup {d} /\ d \notin Ready
    BY <1>0, <1>1 DEF SignalReady, Ready
  <2>2. Cardinality(Ready') = Cardinality(Ready) + 1
    BY <2>1, DevicesFinite, FS_AddElement
  <2>3. main \in {"start", "blocking"}
    BY <1>1, <2>1 DEF SwitchInv
  <2>4. CounterInv'
    BY <1>1, <2>2 DEF CounterInv, SignalReady
  <2>5. \A e \in Devices : Burning(e)' => Burning(e)
    BY <1>0, <1>1 DEF SignalReady, Burning
  <2>6. SwitchInv'
    BY <1>1, <2>3, <2>5 DEF SwitchInv, SignalReady
  <2> QED  BY <2>4, <2>6
<1>2. ASSUME NEW d \in Devices,
             HoldOff(d) \/ Block(d) \/ Repeat(d) \/ Compute(d) \/ Log(d)
      PROVE  (CounterInv /\ SwitchInv)'
  <2>1. UNCHANGED <<main, startUpCounter, burn>>
    BY <1>2 DEF HoldOff, Block, Repeat, Compute, Log
  <2>2. \E to \in Stages \ {"warmup"} : stage[d] # "warmup" /\ stage' = [stage EXCEPT ![d] = to]
    BY <1>2 DEF HoldOff, Block, Repeat, Compute, Log, Stages
  <2>3. Ready' = Ready
    BY <1>0, <2>2 DEF Ready
  <2>4. \A e \in Devices : Burning(e)' => Burning(e) \/ burn
    BY <1>0, <1>2 DEF HoldOff, Block, Repeat, Compute, Log, Burning
  <2> QED  BY <2>1, <2>3, <2>4 DEF CounterInv, SwitchInv
<1>3. ASSUME Main \/ SpuriousWakeup \/ UNCHANGED burnVars
      PROVE  (CounterInv /\ SwitchInv)'
  <2>1. UNCHANGED <<stage, startUpCounter>>
    BY <1>3 DEF Main, AwaitReady, BlockLaunch, SetBurn, NotifyAll, ResetBurn, ReadTracker,
                StartJoin, Join, SpuriousWakeup, threads, burnVars
  <2>2. Ready' = Ready /\ \A e \in Devices : Burning(e)' <=> Burning(e)
    BY <2>1 DEF Ready, Burning
  <2>3. main' \notin {"start", "blocking"} => main \notin {"start", "blocking"} \/ Ready = Devices
    BY <1>3, DevicesFinite
       DEF Main, AwaitReady, BlockLaunch, SetBurn, NotifyAll, ResetBurn, ReadTracker,
           StartJoin, Join, SpuriousWakeup, burnVars, AllReady, CounterInv
  <2>4. main \notin {"start", "blocking"} => main' \notin {"start", "blocking"}
    BY <1>3 DEF Main, AwaitReady, BlockLaunch, SetBurn, NotifyAll, ResetBurn, ReadTracker,
                StartJoin, Join, SpuriousWakeup, burnVars
  <2>5. burn' => burn \/ main \notin {"start", "blocking"}
    <3>1. CASE SetBurn
      BY <3>1 DEF SetBurn
    <3>2. CASE ResetBurn
      BY <3>2 DEF ResetBurn
    <3>3. CASE UNCHANGED burn
      BY <3>3
    <3> QED  BY <1>3, <3>1, <3>2, <3>3
             DEF Main, AwaitReady, BlockLaunch, NotifyAll, ReadTracker, StartJoin, Join,
                 SpuriousWakeup, burnVars
  <2> QED  BY <2>1, <2>2, <2>3, <2>4, <2>5 DEF CounterInv, SwitchInv
<1> QED  BY <1>1, <1>2, <1>3 DEF BurnNext, Worker, Terminated

\* No thread burns while another warms up, whatever is woken up spuriously
\* and for any number of devices.
THEOREM HoldOffSafe == BurnSpec => []HoldOffUntilAllGo
<1>1. BurnInit => BurnTypeOK /\ CounterInv /\ SwitchInv
  <2> SUFFICES ASSUME BurnInit  PROVE BurnTypeOK /\ CounterInv /\ SwitchInv
    OBVIOUS
  <2>1. BurnTypeOK
    BY BurnInitType
  <2>2. Ready = {}
    BY DEF BurnInit, Ready
  <2>3. CounterInv
    BY <2>2, FS_EmptySet DEF BurnInit, CounterInv
  <2>4. SwitchInv
    BY DEF BurnInit, SwitchInv, Burning
  <2> QED  BY <2>1, <2>3, <2>4
<1>2. BurnTypeOK /\ CounterInv /\ SwitchInv /\ [BurnNext]_burnVars => (BurnTypeOK /\ CounterInv /\ SwitchInv)'
  BY BurnTypeStep, SwitchStep
<1>3. SwitchInv => HoldOffUntilAllGo
  BY DEF SwitchInv, HoldOffUntilAllGo
<1> QED  BY <1>1, <1>2, <1>3, PTL DEF BurnSpec

-----------------------------------------------------------------------------
(* The verdict. *)

\* A thread adds an outcome to the tracker and to its history in one step;
\* launch settles the verdict of a device once.
LEMMA TrackerStep == BurnTypeOK /\ TrackerInv /\ [BurnNext]_burnVars => TrackerInv'
<1> SUFFICES ASSUME BurnTypeOK, TrackerInv, [BurnNext]_burnVars  PROVE TrackerInv'
  OBVIOUS
<1> DEFINE Holds(e) ==
        /\ verdict'[e] = "none" => /\ reps'[e] <=> logged'[e] # {}
                                   /\ err'[e] <=> TRUE \in logged'[e]
        /\ verdict'[e] = "OK" => logged'[e] = {FALSE}
        /\ (main' # "end" /\ e >= next') => verdict'[e] = "none"
<1> SUFFICES ASSUME NEW e \in Devices  PROVE Holds(e)
  BY DEF TrackerInv
<1>1. /\ verdict[e] = "none" => /\ reps[e] <=> logged[e] # {}
                                /\ err[e] <=> TRUE \in logged[e]
      /\ verdict[e] = "OK" => logged[e] = {FALSE}
      /\ (main # "end" /\ e >= next) => verdict[e] = "none"
  BY DEF TrackerInv
<1>2. ASSUME NEW d \in Devices, Log(d)  PROVE Holds(e)
  <2>1. UNCHANGED <<verdict, main, next>>
    BY <1>2 DEF Log
  <2>2. CASE e = d
    <3>1. reps'[e] = TRUE /\ logged'[e] = Logged(e)
      BY <1>2, <2>2 DEF Log, BurnTypeOK
    <3>2. err'[e] <=> err[e] \/ found[e]
      BY <1>2, <2>2, Zenon DEF Log, BurnTypeOK
    <3>3. found[e] \in BOOLEAN /\ err[e] \in BOOLEAN
      BY DEF BurnTypeOK
    <3>4. CASE verdict[e] = "none"
      <4>1. logged'[e] = logged[e] \cup {found[e]}
        BY <3>1, <3>4 DEF Logged
      <4>2. logged'[e] # {}
        BY <4>1
      <4>3. TRUE \in logged'[e] <=> TRUE \in logged[e] \/ found[e]
        BY <3>3, <4>1, Zenon
      <4> QED  BY <1>1, <2>1, <3>1, <3>2, <3>4, <4>2, <4>3
    <3>5. CASE verdict[e] # "none"
      <4>1. logged'[e] = logged[e]
        BY <3>1, <3>5 DEF Logged
      <4> QED  BY <1>1, <2>1, <3>5, <4>1
    <3> QED  BY <3>4, <3>5
  <2>3. CASE e # d
    <3>1. reps'[e] = reps[e] /\ err'[e] = err[e] /\ logged'[e] = logged[e]
      BY <1>2, <2>3 DEF Log, BurnTypeOK
    <3> QED  BY <1>1, <2>1, <3>1
  <2> QED  BY <2>2, <2>3
<1>3. CASE ReadTracker
  <2>1. UNCHANGED <<logged, main>> /\ next' = next + 1 /\ next \in Devices
        /\ main = "read"
    BY <1>3 DEF ReadTracker
  <2>2. CASE e = next
    <3>1. verdict[e] = "none"
      BY <1>1, <2>1, <2>2 DEF Devices
    <3>2. verdict'[e] = "FAULTY" \/ (verdict'[e] = "OK" /\ reps[e] /\ ~err[e])
      BY <1>3, <2>2 DEF ReadTracker, Valid, BurnTypeOK
    <3>3. reps[e] /\ ~err[e] => logged[e] = {FALSE}
      <4>1. logged[e] \subseteq {TRUE, FALSE}
        BY DEF BurnTypeOK
      <4> QED  BY <1>1, <3>1, <4>1
    <3>4. ~(e >= next')
      BY <2>1, <2>2 DEF Devices
    <3> QED  BY <2>1, <3>2, <3>3, <3>4
  <2>3. CASE e # next
    <3>1. reps'[e] = reps[e] /\ err'[e] = err[e] /\ verdict'[e] = verdict[e]
      BY <1>3, <2>3 DEF ReadTracker, BurnTypeOK
    <3>2. e >= next' => e >= next
      BY <2>1 DEF Devices
    <3> QED  BY <1>1, <2>1, <3>1, <3>2
  <2> QED  BY <2>2, <2>3
<1>4. ASSUME UNCHANGED <<reps, err, logged, verdict, next>>, main' # "end" => main # "end"
      PROVE  Holds(e)
  BY <1>1, <1>4
<1>5. ASSUME NEW d \in Devices,
             SignalReady(d) \/ HoldOff(d) \/ Block(d) \/ Repeat(d) \/ Compute(d)
      PROVE  Holds(e)
  BY <1>4, <1>5 DEF SignalReady, HoldOff, Block, Repeat, Compute, trackers
<1>6. CASE Main /\ ~ReadTracker
  BY <1>4, <1>6 DEF Main, AwaitReady, BlockLaunch, SetBurn, NotifyAll, ResetBurn, StartJoin,
                    Join, trackers
<1>7. CASE SpuriousWakeup \/ UNCHANGED burnVars
  BY <1>4, <1>7 DEF SpuriousWakeup, trackers, burnVars
<1> HIDE DEF Holds
<1> QED  BY <1>2, <1>3, <1>5, <1>6, <1>7 DEF BurnNext, Worker, Terminated

\* A device is never passed as OK with an error logged before its tracker was
\* read, or with nothing logged at all.
THEOREM VerdictSafe == BurnSpec => []VerdictHonest
<1>1. BurnInit => BurnTypeOK /\ TrackerInv
  <2>1. BurnInit => BurnTypeOK
    BY BurnInitType
  <2>2. BurnInit => TrackerInv
    BY DEF BurnInit, TrackerInv
  <2> QED  BY <2>1, <2>2
<1>2. BurnTypeOK /\ TrackerInv /\ [BurnNext]_burnVars => (BurnTypeOK /\ TrackerInv)'
  BY BurnTypeStep, TrackerStep
<1>3. TrackerInv => VerdictHonest
  BY DEF TrackerInv, VerdictHonest
<1> QED  BY <1>1, <1>2, <1>3, PTL DEF BurnSpec
=============================================================================
