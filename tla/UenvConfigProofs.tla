--------------------------- MODULE UenvConfigProofs ---------------------------
(***************************************************************************)
(* Theorems about UenvConfig, for any uenvs, lists and metadata, and any   *)
(* number of changes other jobs make to the repository.                    *)
(***************************************************************************)
EXTENDS UenvConfig, WellFoundedInduction, TLAPS

(* The inductive invariant. *)

Identifiers == Uenvs \cup {NoUenv}
Collecting == {"pull", "exported", "skipped"}
Looking == {"file", "stat", "meta"}
Places == Collecting \cup Looking \cup {"load", "configured", "raised"}

KeysOf(u) == {Keys[u][i] : i \in DOMAIN Keys[u]}
Names == UNION {{Pretty[u]} \X KeysOf(u) : u \in Uenvs}
Envs == [name : Names, uenv : Uenvs, targets : {Everywhere}]

TypeOK ==
    /\ image \in [Uenvs -> {"absent", "pulling", "ready"}]
    /\ changes \in Nat /\ gone \subseteq Uenvs
    /\ pc \in Places
    /\ imgs \in Seq(Uenvs) /\ uenva \in Seq(Identifiers) /\ byHand \in BOOLEAN
    /\ turn \in Nat \ {0}
    /\ complete \subseteq Uenvs /\ skipped \subseteq Identifiers
    /\ envs \in Seq(Envs)
    /\ blame \in Identifiers

\* Where the loader is in the list.
TurnInv ==
    /\ turn <= Len(uenva) + 1
    /\ pc \in Looking => turn <= Len(uenva)
    /\ pc \in Collecting => turn = 1
    /\ pc = "meta" => Current \in complete \cup Paths
    /\ pc = "configured" => turn > Len(uenva)

\* The identifiers before this one have left their environments, in order.
LoadedInv ==
    /\ \A a \in 1..turn - 1 :
          \/ uenva[a] \in skipped
          \/ /\ uenva[a] \in Uenvs
             /\ \A k \in KeysOf(uenva[a]) :
                   \E i \in DOMAIN envs : envs[i].name = <<Pretty[uenva[a]], k>>
    /\ \A i, j \in DOMAIN envs : i <= j =>
          \E a, b \in 1..turn - 1 :
              a <= b /\ uenva[a] = envs[i].uenv /\ uenva[b] = envs[j].uenv

MergedInv ==
    pc = "configured" => \A p \in Partitions : environs[p] = Environs(envs, p)

\* What has become of an image the CI job has accepted.
Kept(u) ==
    \/ u = NoUenv /\ Len(uenva) = 1
    \/ u \in gone
    \/ u \in Uenvs /\ image[u] = "ready"
    \/ u \in Uenvs /\ image[u] = "pulling" /\ changes > 0

AcceptInv ==
    /\ \A u \in Uenvs : image[u] = "pulling" => changes > 0
    /\ ~byHand /\ pc = "pull" => NoUenv \notin ToSet(uenva)
    /\ ~byHand => \A u \in ToSet(uenva) : Kept(u)

RaisedInv ==
    pc = "raised" /\ ~byHand =>
        /\ blame \in ToSet(uenva)
        /\ \/ blame = NoUenv \/ blame \in gone \cup Broken
           \/ changes > 0 /\ image[blame] # "absent"

IInv ==
    /\ TypeOK /\ TurnInv /\ EnvironmentsBacked /\ LoadedInv /\ MergedInv
    /\ AcceptInv /\ RaisedInv

-----------------------------------------------------------------------------
(* Sequences. *)

\* Induction, for a set of naturals.
LEMMA NatSetInduction ==
  ASSUME NEW S \in SUBSET Nat, 0 \in S, \A n \in Nat : n \in S => n + 1 \in S
  PROVE  S = Nat
<1> DEFINE R == OpToRel(<, Nat)
<1>1. SUFFICES ASSUME Nat \ S # {}  PROVE FALSE
  OBVIOUS
<1>2. IsWellFoundedOn(R, Nat)
  BY NatLessThanWellFounded
<1>3. PICK n \in Nat \ S : \A m \in Nat \ S : ~(<<m, n>> \in R)
  <2>1. Nat \ S \in SUBSET Nat
    OBVIOUS
  <2> QED  BY <1>1, <1>2, <2>1, WFMin
<1>4. n - 1 \in Nat
  <2> HIDE DEF R
  <2>1. n # 0
    BY <1>3
  <2> QED  BY <1>3, <2>1
<1>5. <<n - 1, n>> \in R
  BY <1>3, <1>4 DEF OpToRel
<1> HIDE DEF R
<1>6. n - 1 \in S
  BY <1>3, <1>4, <1>5
<1> QED  BY <1>3, <1>4, <1>6

\* Concatenation.
LEMMA ConcatIs ==
  ASSUME NEW T, NEW p \in Seq(T), NEW q \in Seq(T)
  PROVE  /\ p \o q \in Seq(T) /\ Len(p) \in Nat /\ Len(q) \in Nat
         /\ Len(p \o q) = Len(p) + Len(q)
         /\ \A i \in 1..Len(p) : (p \o q)[i] = p[i]
         /\ \A i \in 1..Len(q) : (p \o q)[Len(p) + i] = q[i]
OBVIOUS

\* An element of a sequence is in its set.
LEMMA ToSetIs ==
  ASSUME NEW T, NEW q \in Seq(T)
  PROVE  /\ \A u : u \in ToSet(q) <=> \E i \in 1..Len(q) : q[i] = u
         /\ \A i \in 1..Len(q) : q[i] \in T
  BY DEF ToSet

\* The names of environments that are all valid on a system.
LEMMA AllValid ==
  ASSUME NEW es \in Seq(Envs), NEW system
  PROVE  ValidNames(es, system) = [i \in 1..Len(es) |-> es[i].name]
<1> DEFINE L == Len(es)
           first(n) == [i \in 1..n |-> es[i].name]
           Names_(f) == f = [n \in 0..L |->
                              IF n = 0 THEN <<>>
                              ELSE IF ValidOn(es[n], system) THEN Append(f[n - 1], es[n].name)
                              ELSE f[n - 1]]
<1>1. L \in Nat /\ \A n \in 1..L : es[n] \in Envs /\ ValidOn(es[n], system)
  <2>1. \A n \in 1..L : es[n] \in Envs
    OBVIOUS
  <2> QED  BY <2>1 DEF Envs, ValidOn
<1>2. \A n \in 1..L : first(n) = Append(first(n - 1), es[n].name)
  <2> SUFFICES ASSUME NEW n \in 1..L  PROVE first(n) = Append(first(n - 1), es[n].name)
    OBVIOUS
  <2> DEFINE T == {es[i].name : i \in 1..L}
             f == first(n)
             g == first(n - 1)
             a == Append(g, es[n].name)
  <2>1. n \in Nat /\ n - 1 \in Nat
    BY <1>1
  <2>2. f \in Seq(T) /\ Len(f) = n /\ \A i \in 1..n : f[i] = es[i].name
    BY <1>1, <2>1
  <2>3. g \in Seq(T) /\ Len(g) = n - 1 /\ \A i \in 1..n - 1 : g[i] = es[i].name
    BY <1>1, <2>1
  <2>4. es[n].name \in T
    OBVIOUS
  <2> HIDE DEF f, g, T
  <2>5. /\ a \in Seq(T) /\ Len(a) = n /\ a[n] = es[n].name
        /\ \A i \in 1..n - 1 : a[i] = g[i]
    BY <2>1, <2>3, <2>4
  <2> HIDE DEF a
  <2>6. \A i \in 1..n : f[i] = a[i]
    BY <2>1, <2>2, <2>3, <2>5
  <2>7. f = a
    BY <2>1, <2>2, <2>5, <2>6
  <2> QED  BY <2>7 DEF f, g, a
<1>3. first(0) = <<>>
  OBVIOUS
<1> HIDE DEF first
<1>4. Names_([n \in 0..L |-> first(n)])
  BY <1>1, <1>2, <1>3
<1> DEFINE names == CHOOSE f : Names_(f)
<1>5. Names_(names)
  <2> HIDE DEF Names_
  <2> QED  BY <1>4
<1>6. ValidNames(es, system) = names[L]
  BY DEF ValidNames
<1> HIDE DEF names
<1>7. /\ names[0] = <<>>
      /\ \A n \in 1..L : names[n] = Append(names[n - 1], es[n].name)
  <2>1. \A n \in 0..L : names[n] = IF n = 0 THEN <<>>
                              ELSE IF ValidOn(es[n], system)
                              THEN Append(names[n - 1], es[n].name)
                              ELSE names[n - 1]
    BY <1>5
  <2>2. 0 \in 0..L /\ \A n \in 1..L : n \in 0..L /\ n # 0
    BY <1>1
  <2> QED  BY <1>1, <2>1, <2>2
<1> DEFINE S == {n \in Nat : n <= L => names[n] = first(n)}
<1>8. S = Nat
  <2>1. 0 \in S
    BY <1>3, <1>7
  <2>2. ASSUME NEW n \in Nat, n \in S  PROVE n + 1 \in S
    <3> SUFFICES ASSUME n + 1 <= L  PROVE names[n + 1] = first(n + 1)
      OBVIOUS
    <3>1. n + 1 \in 1..L /\ (n + 1) - 1 = n /\ n <= L
      BY <1>1
    <3> QED  BY <1>2, <1>7, <2>2, <3>1
  <2>3. S \in SUBSET Nat
    OBVIOUS
  <2> HIDE DEF S
  <2> QED  BY ONLY <2>1, <2>2, <2>3, NatSetInduction
<1>9. names[L] = first(L)
  BY <1>1, <1>8
<1> QED  BY <1>6, <1>9 DEF first

-----------------------------------------------------------------------------
(* The environments of one image. *)

LEMMA KeysAre ==
  ASSUME NEW u \in Uenvs
  PROVE  /\ Keys[u] \in Seq(KeysOf(u)) /\ Len(Keys[u]) \in Nat
         /\ DOMAIN Keys[u] = 1..Len(Keys[u])
<1>1. Keys[u] \in Seq(KeysOf(u))
  BY UenvAssumption DEF KeysOf
<1> QED  BY <1>1

LEMMA LoadedIs ==
  ASSUME NEW u \in Uenvs
  PROVE  /\ Loaded(u) \in Seq(Envs) /\ Len(Loaded(u)) = Len(Keys[u])
         /\ \A i \in 1..Len(Loaded(u)) : Loaded(u)[i].uenv = u
         /\ \A k \in KeysOf(u) : \E i \in 1..Len(Loaded(u)) : Loaded(u)[i].name = <<Pretty[u], k>>
<1> DEFINE n == Len(Keys[u])
           env(i) == [name |-> <<Pretty[u], Keys[u][i]>>, uenv |-> u, targets |-> Everywhere]
<1>1. n \in Nat /\ DOMAIN Keys[u] = 1..n
  BY KeysAre
<1>2. Loaded(u) = [i \in 1..n |-> env(i)]
  BY <1>1 DEF Loaded, Environment
<1>3. \A i \in 1..n : Keys[u][i] \in KeysOf(u)
  BY <1>1 DEF KeysOf
<1>4. \A i \in 1..n : <<Pretty[u], Keys[u][i]>> \in Names
  BY <1>3 DEF Names
<1>5. \A i \in 1..n : env(i) \in Envs
  BY <1>4 DEF Envs
<1>6. \A i \in 1..n : env(i).uenv = u /\ env(i).name = <<Pretty[u], Keys[u][i]>>
  OBVIOUS
<1> HIDE DEF env
<1>7. Loaded(u) \in Seq(Envs) /\ Len(Loaded(u)) = n /\ \A i \in 1..n : Loaded(u)[i] = env(i)
  BY <1>1, <1>2, <1>5
<1>8. \A k \in KeysOf(u) : \E i \in 1..n : Keys[u][i] = k
  BY <1>1 DEF KeysOf
<1> QED  BY <1>6, <1>7, <1>8

-----------------------------------------------------------------------------
(* The steps. *)

LEMMA InitInv == Init => IInv
<1> SUFFICES ASSUME Init  PROVE IInv
  OBVIOUS
<1>1. /\ changes = 0 /\ gone = {} /\ turn = 1 /\ complete = {} /\ skipped = {} /\ envs = <<>>
      /\ blame = NoUenv /\ image \in [Uenvs -> {"absent", "ready"}]
      /\ \/ byHand = FALSE /\ pc = "pull" /\ imgs \in Lists /\ uenva = <<>>
         \/ byHand = TRUE /\ pc = "load" /\ imgs = <<>> /\ uenva \in HandLists
  BY DEF Init
<1>2. TypeOK
  <2>1. imgs \in Seq(Uenvs) /\ uenva \in Seq(Identifiers)
    <3>1. <<>> \in Seq(Uenvs) /\ <<>> \in Seq(Identifiers)
      OBVIOUS
    <3>2. Lists \subseteq Seq(Uenvs) /\ HandLists \subseteq Seq(Identifiers)
      BY UenvAssumption DEF Identifiers
    <3>3. CASE imgs \in Lists /\ uenva = <<>>
      BY <3>1, <3>2, <3>3
    <3>4. CASE imgs = <<>> /\ uenva \in HandLists
      BY <3>1, <3>2, <3>4
    <3> QED  BY <1>1, <3>3, <3>4
  <2>2. image \in [Uenvs -> {"absent", "pulling", "ready"}]
    BY <1>1
  <2>3. pc \in Places /\ byHand \in BOOLEAN
    BY <1>1 DEF Places, Collecting, Looking
  <2>4. envs \in Seq(Envs)
    <3>1. <<>> \in Seq(Envs)
      OBVIOUS
    <3> QED  BY <1>1, <3>1
  <2> QED  BY <1>1, <2>1, <2>2, <2>3, <2>4 DEF TypeOK, Identifiers
<1>3. Len(uenva) \in Nat
  BY <1>2 DEF TypeOK
<1>4. TurnInv
  BY <1>1, <1>3 DEF TurnInv, Looking, Collecting
<1>5. EnvironmentsBacked /\ LoadedInv
  BY <1>1 DEF EnvironmentsBacked, LoadedInv
<1>6. MergedInv /\ RaisedInv
  BY <1>1 DEF MergedInv, RaisedInv
<1>7. AcceptInv
  <2>1. \A u \in Uenvs : image[u] # "pulling"
    BY <1>1
  <2>2. ~byHand => ToSet(uenva) = {}
    BY <1>1 DEF ToSet
  <2> QED  BY <2>1, <2>2 DEF AcceptInv
<1> QED  BY <1>2, <1>4, <1>5, <1>6, <1>7 DEF IInv

LEMMA PullInv ==
  ASSUME IInv, PullMetaDir  PROVE IInv'
<1>1. TypeOK /\ TurnInv /\ EnvironmentsBacked /\ LoadedInv /\ MergedInv /\ AcceptInv /\ RaisedInv
  BY DEF IInv
<1> DEFINE u == Head(imgs)
<1>2. /\ pc = "pull" /\ imgs # <<>> /\ pc' = "pull" /\ imgs' = Tail(imgs)
      /\ UNCHANGED <<changes, gone, byHand, turn, complete, skipped, envs, environs, resources,
                     blame>>
  BY DEF PullMetaDir, loader, site
<1>3. u \in Uenvs /\ Tail(imgs) \in Seq(Uenvs) /\ imgs \in Seq(Uenvs) /\ uenva \in Seq(Identifiers)
      /\ u \in Identifiers /\ u # NoUenv
  <2>1. imgs \in Seq(Uenvs) /\ uenva \in Seq(Identifiers)
    BY <1>1 DEF TypeOK
  <2>2. u \in Uenvs /\ Tail(imgs) \in Seq(Uenvs)
    BY <1>2, <2>1
  <2> QED  BY <2>1, <2>2, UenvAssumption DEF Identifiers
<1> HIDE DEF u
<1>4. /\ \/ image' = image
         \/ image[u] = "absent" /\ image' = [image EXCEPT ![u] = "ready"]
      /\ \/ uenva' = uenva
         \/ uenva' = Append(uenva, u) /\ image'[u] # "absent"
  BY <1>1, <1>3 DEF PullMetaDir, Says, u, TypeOK
<1>5. /\ image' \in [Uenvs -> {"absent", "pulling", "ready"}]
      /\ \A w \in Uenvs : image'[w] = image[w] \/ image'[w] = "ready"
  BY <1>1, <1>4 DEF TypeOK
<1>6. uenva' \in Seq(Identifiers) /\ \A w \in ToSet(uenva') : w \in ToSet(uenva) \/ w = u
  <2>1. CASE uenva' = uenva
    BY <1>3, <2>1
  <2>2. CASE uenva' = Append(uenva, u)
    <3> DEFINE g == Append(uenva, u)
    <3>1. /\ g \in Seq(Identifiers) /\ Len(g) = Len(uenva) + 1 /\ Len(uenva) \in Nat
          /\ g[Len(uenva) + 1] = u /\ \A i \in 1..Len(uenva) : g[i] = uenva[i]
      BY <1>3
    <3> HIDE DEF g
    <3>2. ASSUME NEW w \in ToSet(g)  PROVE w \in ToSet(uenva) \/ w = u
      <4>1. PICK i \in 1..Len(g) : g[i] = w
        BY <3>1, ToSetIs
      <4>2. CASE i \in 1..Len(uenva)
        BY <1>3, <3>1, <4>1, <4>2, ToSetIs
      <4>3. CASE i = Len(uenva) + 1
        BY <3>1, <4>1, <4>3
      <4> QED  BY <3>1, <4>1, <4>2, <4>3
    <3> QED  BY <2>2, <3>1, <3>2 DEF g
  <2> QED  BY <1>4, <2>1, <2>2
<1>7. TypeOK'
  BY <1>1, <1>2, <1>3, <1>5, <1>6 DEF TypeOK
<1>8. turn = 1 /\ Len(uenva') \in Nat
  BY <1>1, <1>2, <1>7 DEF TurnInv, Collecting, TypeOK
<1>9. TurnInv'
  BY <1>2, <1>8 DEF TurnInv, Looking, Collecting
<1>10. EnvironmentsBacked'
  BY <1>1, <1>2 DEF EnvironmentsBacked
<1>11. LoadedInv'
  <2>1. \A i, j \in DOMAIN envs : ~(i <= j)
    BY <1>1, <1>8 DEF LoadedInv
  <2> QED  BY <1>2, <1>8, <2>1 DEF LoadedInv
<1>12. MergedInv' /\ RaisedInv'
  BY <1>2 DEF MergedInv, RaisedInv
<1>13. AcceptInv'
  <2>1. \A w \in Uenvs : image'[w] = "pulling" => changes' > 0
    BY <1>1, <1>2, <1>5 DEF AcceptInv
  <2>2. ~byHand' => NoUenv \notin ToSet(uenva')
    BY <1>1, <1>2, <1>3, <1>6 DEF AcceptInv
  <2>3. ASSUME ~byHand', NEW w \in ToSet(uenva')  PROVE Kept(w)'
    <3>1. w \in Uenvs
      BY <1>3, <1>6, <1>7, <2>2, <2>3, ToSetIs DEF TypeOK, Identifiers
    <3>2. CASE w \in ToSet(uenva)
      <4>1. w # NoUenv /\ Kept(w)
        BY <1>1, <1>2, <2>3, <3>1, <3>2, UenvAssumption DEF AcceptInv
      <4> QED  BY <1>2, <1>5, <3>1, <4>1 DEF Kept
    <3>3. CASE w = u /\ w \notin ToSet(uenva)
      <4>1. image'[u] # "absent"
        BY <1>4, <2>3, <3>3
      <4>2. image'[u] \in {"pulling", "ready"}
        BY <1>3, <1>5, <4>1
      <4> QED  BY <2>1, <3>1, <3>3, <4>2 DEF Kept
    <3> QED  BY <1>6, <2>3, <3>2, <3>3
  <2> QED  BY <2>1, <2>2, <2>3 DEF AcceptInv
<1> QED  BY <1>7, <1>9, <1>10, <1>11, <1>12, <1>13 DEF IInv

LEMMA ExportInv ==
  ASSUME IInv, ExportUenv  PROVE IInv'
<1>1. TypeOK /\ TurnInv /\ EnvironmentsBacked /\ LoadedInv /\ MergedInv /\ AcceptInv /\ RaisedInv
  BY DEF IInv
<1>2. /\ pc = "pull" /\ pc' = "exported" /\ uenva' = IF uenva = <<>> THEN <<NoUenv>> ELSE uenva
      /\ UNCHANGED <<image, changes, gone, imgs, byHand, turn, complete, skipped, envs, environs,
                     resources, blame>>
  BY DEF ExportUenv, repo, loader, site
<1>3. NoUenv \in Identifiers /\ <<NoUenv>> \in Seq(Identifiers) /\ Len(<<NoUenv>>) = 1
      /\ uenva \in Seq(Identifiers)
  <2>1. NoUenv \in Identifiers
    BY DEF Identifiers
  <2> QED  BY <1>1, <2>1 DEF TypeOK
<1>4. TypeOK'
  <2>1. uenva' \in Seq(Identifiers) /\ pc' \in Places
    BY <1>2, <1>3 DEF Places, Collecting
  <2> QED  BY <1>1, <1>2, <2>1 DEF TypeOK
<1>5. turn = 1 /\ Len(uenva') \in Nat
  BY <1>1, <1>2, <1>4 DEF TurnInv, Collecting, TypeOK
<1>6. TurnInv'
  BY <1>2, <1>5 DEF TurnInv, Looking, Collecting
<1>7. EnvironmentsBacked'
  BY <1>1, <1>2 DEF EnvironmentsBacked
<1>8. LoadedInv'
  <2>1. \A i, j \in DOMAIN envs : ~(i <= j)
    BY <1>1, <1>5 DEF LoadedInv
  <2> QED  BY <1>2, <1>5, <2>1 DEF LoadedInv
<1>9. MergedInv' /\ RaisedInv'
  BY <1>2 DEF MergedInv, RaisedInv
<1>10. AcceptInv'
  <2>1. ASSUME ~byHand', NEW w \in ToSet(uenva')  PROVE Kept(w)'
    <3>1. CASE uenva = <<>>
      <4>1. uenva' = <<NoUenv>> /\ <<NoUenv>>[1] = NoUenv
        BY <1>2, <3>1
      <4>2. \A i \in 1..Len(<<NoUenv>>) : <<NoUenv>>[i] = NoUenv
        BY <1>3, <4>1
      <4>3. w = NoUenv
        <5> DEFINE q == <<NoUenv>>
        <5>1. q \in Seq(Identifiers) /\ (\A i \in 1..Len(q) : q[i] = NoUenv) /\ w \in ToSet(q)
          BY <1>3, <2>1, <4>1, <4>2
        <5> HIDE DEF q
        <5>2. \A x : x \in ToSet(q) <=> \E i \in 1..Len(q) : q[i] = x
          BY ONLY <5>1, ToSetIs
        <5> QED  BY <5>1, <5>2
      <4> QED  BY <1>3, <4>1, <4>3 DEF Kept
    <3>2. CASE uenva # <<>>
      <4>1. uenva' = uenva
        BY <1>2, <3>2
      <4>2. Kept(w)
        BY <1>1, <1>2, <2>1, <4>1 DEF AcceptInv
      <4> QED  BY <1>2, <4>1, <4>2 DEF Kept
    <3> QED  BY <3>1, <3>2
  <2> QED  BY <1>1, <1>2, <2>1 DEF AcceptInv
<1> QED  BY <1>4, <1>6, <1>7, <1>8, <1>9, <1>10 DEF IInv

\* A look at the current identifier, or the error about it.
LEMMA LookedInv ==
  ASSUME IInv, pc \in Looking \cup {"load"}, turn <= Len(uenva),
         UNCHANGED <<repo, ci, site, turn, skipped, envs>>,
         complete' \subseteq Uenvs, complete \subseteq complete',
         \/ /\ pc' \in Looking /\ blame' = blame
            /\ pc' = "meta" => Current \in complete' \cup Paths
         \/ /\ pc' = "raised" /\ blame' = Current
            /\ Missing(Current) \/ Current \in Broken \/ image[Current] = "pulling"
  PROVE  IInv'
<1>1. TypeOK /\ TurnInv /\ EnvironmentsBacked /\ LoadedInv /\ MergedInv /\ AcceptInv /\ RaisedInv
  BY DEF IInv
<1>2. /\ UNCHANGED <<image, changes, gone, imgs, uenva, byHand, turn, skipped, envs, environs>>
      /\ pc' \in Looking \cup {"raised"}
  BY DEF repo, ci, site
<1>3. /\ uenva \in Seq(Identifiers) /\ turn \in 1..Len(uenva) /\ Current \in Identifiers
      /\ Current \in ToSet(uenva)
  <2>1. uenva \in Seq(Identifiers) /\ turn \in Nat \ {0} /\ Len(uenva) \in Nat
    BY <1>1 DEF TypeOK
  <2>2. turn \in 1..Len(uenva)
    BY <2>1
  <2> QED  BY <2>1, <2>2, ToSetIs DEF Current
<1>4. TypeOK'
  <2>1. pc' \in Places
    BY <1>2 DEF Places
  <2>2. blame' \in Identifiers
    BY <1>1, <1>3 DEF TypeOK
  <2> QED  BY <1>1, <1>2, <2>1, <2>2 DEF TypeOK
<1>5. TurnInv'
  <2>1. pc' # "configured" /\ pc' \notin Collecting /\ Current' = Current
    BY <1>2 DEF Looking, Collecting, Current
  <2>2. pc' = "meta" => Current \in complete' \cup Paths
    BY <1>2
  <2> QED  BY <1>1, <1>2, <2>1, <2>2 DEF TurnInv
<1>6. EnvironmentsBacked'
  BY <1>1, <1>2 DEF EnvironmentsBacked
<1>7. LoadedInv'
  <2>1. LoadedInv /\ uenva' = uenva /\ turn' = turn /\ skipped' = skipped /\ envs' = envs
    BY <1>1, <1>2
  <2> QED  BY ONLY <2>1 DEF LoadedInv
<1>8. MergedInv'
  BY <1>2 DEF MergedInv, Looking
<1>9. AcceptInv'
  <2>1. pc' # "pull"
    BY <1>2 DEF Looking
  <2>2. \A w : Kept(w) => Kept(w)'
    BY <1>2 DEF Kept
  <2> QED  BY <1>1, <1>2, <2>1, <2>2 DEF AcceptInv
<1>10. RaisedInv'
  <2> SUFFICES ASSUME pc' = "raised", ~byHand'
               PROVE  /\ blame' \in ToSet(uenva')
                      /\ \/ blame' = NoUenv \/ blame' \in gone' \cup Broken
                         \/ changes' > 0 /\ image'[blame'] # "absent"
    BY DEF RaisedInv
  <2>1. blame' = Current /\ (Missing(Current) \/ Current \in Broken \/ image[Current] = "pulling")
    BY DEF Looking
  <2>2. Kept(Current)
    BY <1>1, <1>2, <1>3 DEF AcceptInv
  <2>3. CASE Current = NoUenv
    BY <1>2, <1>3, <2>1, <2>3
  <2>4. CASE Current # NoUenv /\ image[Current] = "absent"
    <3>1. Current \in gone
      BY <2>2, <2>4 DEF Kept
    <3> QED  BY <1>2, <1>3, <2>1, <3>1
  <2>5. CASE Current \in Broken
    BY <1>2, <1>3, <2>1, <2>5
  <2>6. CASE Current # NoUenv /\ image[Current] = "pulling"
    <3>1. Current \in Uenvs
      BY <1>3, <2>6 DEF Identifiers
    <3>2. changes > 0 /\ image[Current] # "absent"
      BY <1>1, <2>6, <3>1 DEF AcceptInv
    <3> QED  BY <1>2, <1>3, <2>1, <3>2
  <2> QED  BY <2>1, <2>3, <2>4, <2>5, <2>6 DEF Missing
<1> QED  BY <1>4, <1>5, <1>6, <1>7, <1>8, <1>9, <1>10 DEF IInv

LEMMA LaunchInv ==
  ASSUME IInv, Launch  PROVE IInv'
<1>1. TypeOK /\ TurnInv /\ EnvironmentsBacked /\ LoadedInv /\ MergedInv /\ AcceptInv /\ RaisedInv
  BY DEF IInv
<1>2. /\ pc = "exported" /\ pc' \in {"load", "skipped"}
      /\ UNCHANGED <<image, changes, gone, imgs, uenva, byHand, turn, complete, skipped, envs,
                     environs, blame>>
  BY DEF Launch, repo, ci, loader, site
<1>3. TypeOK'
  <2>1. pc' \in Places
    BY <1>2 DEF Places, Collecting
  <2> QED  BY <1>1, <1>2, <2>1 DEF TypeOK
<1>4. TurnInv'
  <2>1. turn = 1
    BY <1>1, <1>2 DEF TurnInv, Collecting
  <2> QED  BY <1>1, <1>2, <2>1 DEF TurnInv, Looking, Collecting
<1>5. EnvironmentsBacked' /\ LoadedInv' /\ MergedInv' /\ RaisedInv'
  BY <1>1, <1>2 DEF EnvironmentsBacked, LoadedInv, MergedInv, RaisedInv
<1>6. AcceptInv'
  <2>1. \A w : Kept(w) => Kept(w)'
    BY <1>2 DEF Kept
  <2> QED  BY <1>1, <1>2, <2>1 DEF AcceptInv
<1> QED  BY <1>3, <1>4, <1>5, <1>6 DEF IInv

LEMMA IdentifyInv ==
  ASSUME IInv, Identify  PROVE IInv'
<1>1. /\ pc = "load" /\ turn <= Len(uenva)
      /\ UNCHANGED <<repo, ci, site, turn, skipped, envs>> /\ complete' = complete
      /\ \/ pc' = (IF Current \in Paths THEN "meta" ELSE "file") /\ blame' = blame
         \/ pc' = "raised" /\ blame' = Current /\ Missing(Current)
  BY DEF Identify, Look, ConfigError, loader
<1>2. complete \subseteq Uenvs
  BY DEF IInv, TypeOK
<1>3. (IF Current \in Paths THEN "meta" ELSE "file") \in Looking
  BY DEF Looking
<1>4. complete' \subseteq Uenvs /\ complete \subseteq complete'
  BY <1>1, <1>2
<1>5. \/ /\ pc' \in Looking /\ blame' = blame
         /\ pc' = "meta" => Current \in complete' \cup Paths
      \/ /\ pc' = "raised" /\ blame' = Current
         /\ Missing(Current) \/ Current \in Broken \/ image[Current] = "pulling"
  BY <1>1, <1>3
<1> QED  BY <1>1, <1>4, <1>5, LookedInv

LEMMA IsFileInv ==
  ASSUME IInv, IsFile  PROVE IInv'
<1>1. /\ pc = "file" /\ UNCHANGED <<repo, ci, site, turn, skipped, envs>> /\ complete' = complete
      /\ \/ pc' = "stat" /\ blame' = blame
         \/ pc' = "raised" /\ blame' = Current /\ Missing(Current)
  BY DEF IsFile, Look, ConfigError, loader
<1>2. complete \subseteq Uenvs /\ pc \in Looking /\ turn <= Len(uenva)
  BY <1>1 DEF IInv, TypeOK, TurnInv, Looking
<1>3. complete' \subseteq Uenvs /\ complete \subseteq complete'
  BY <1>1, <1>2
<1>4. \/ /\ pc' \in Looking /\ blame' = blame
         /\ pc' = "meta" => Current \in complete' \cup Paths
      \/ /\ pc' = "raised" /\ blame' = Current
         /\ Missing(Current) \/ Current \in Broken \/ image[Current] = "pulling"
  BY <1>1 DEF Looking
<1> QED  BY <1>1, <1>2, <1>3, <1>4, LookedInv

LEMMA StatInv ==
  ASSUME IInv, Stat  PROVE IInv'
<1>1. /\ pc = "stat" /\ UNCHANGED <<repo, ci, site, turn, skipped, envs>>
  BY DEF Stat
<1>2. TypeOK /\ complete \subseteq Uenvs /\ pc \in Looking /\ turn <= Len(uenva)
  BY <1>1 DEF IInv, TypeOK, TurnInv, Looking
<1>3. Current \in Identifiers
  <2>1. turn \in 1..Len(uenva) /\ uenva \in Seq(Identifiers)
    BY <1>2 DEF TypeOK
  <2> QED  BY <2>1, ToSetIs DEF Current
<1>4. /\ complete' \subseteq Uenvs /\ complete \subseteq complete'
      /\ \/ /\ pc' \in Looking /\ blame' = blame
            /\ pc' = "meta" => Current \in complete' \cup Paths
         \/ /\ pc' = "raised" /\ blame' = Current
            /\ Missing(Current) \/ Current \in Broken \/ image[Current] = "pulling"
  <2>1. CASE Complete
    <3>1. Current \in Uenvs /\ image[Current] = "ready"
      BY <1>3, <2>1 DEF Complete, Missing, Identifiers
    <3>2. complete' = complete \cup {Current} /\ pc' = "meta" /\ blame' = blame
      BY <2>1, <3>1 DEF Stat
    <3> QED  BY <1>2, <3>1, <3>2 DEF Looking
  <2>2. CASE ~Complete
    <3>1. complete' = complete /\ pc' = "raised" /\ blame' = Current
      BY <2>2 DEF Stat, ConfigError
    <3>2. Missing(Current) \/ image[Current] = "pulling"
      <4> SUFFICES ASSUME ~Missing(Current)  PROVE image[Current] = "pulling"
        OBVIOUS
      <4>1. Current \in Uenvs /\ image[Current] # "absent" /\ image[Current] # "ready"
        BY <1>3, <2>2 DEF Complete, Missing, Identifiers
      <4> QED  BY <1>2, <4>1 DEF TypeOK
    <3> QED  BY <1>2, <3>1, <3>2
  <2> QED  BY <2>1, <2>2
<1> QED  BY <1>1, <1>2, <1>4, LookedInv

\* What leaving an identifier behind has in common, skipped or loaded.
LEMMA NextTurnInv ==
  ASSUME IInv, pc = "meta", pc' = "load", turn' = turn + 1,
         UNCHANGED <<repo, ci, complete, site, blame>>,
         skipped' \subseteq Identifiers, envs' \in Seq(Envs), EnvironmentsBacked', LoadedInv'
  PROVE  IInv'
<1>1. TypeOK /\ TurnInv /\ AcceptInv
  BY DEF IInv
<1>2. UNCHANGED <<image, changes, gone, imgs, uenva, byHand, complete, environs, blame>>
  BY DEF repo, ci, site
<1>3. turn \in Nat \ {0} /\ Len(uenva) \in Nat /\ turn <= Len(uenva)
  BY <1>1 DEF TypeOK, TurnInv, Looking
<1>4. TypeOK'
  <2>1. pc' \in Places
    BY DEF Places
  <2>2. turn' \in Nat \ {0}
    BY <1>3
  <2> QED  BY <1>1, <1>2, <2>1, <2>2 DEF TypeOK
<1>5. TurnInv'
  <2>1. turn' <= Len(uenva') + 1
    BY <1>2, <1>3
  <2> QED  BY <2>1 DEF TurnInv, Looking, Collecting
<1>6. MergedInv' /\ RaisedInv'
  BY DEF MergedInv, RaisedInv
<1>7. AcceptInv'
  <2>1. \A w : Kept(w) => Kept(w)'
    BY <1>2 DEF Kept
  <2> QED  BY <1>1, <1>2, <2>1 DEF AcceptInv
<1> QED  BY <1>4, <1>5, <1>6, <1>7 DEF IInv

LEMMA SkipInv ==
  ASSUME IInv, pc = "meta", pc' = "load", turn' = turn + 1,
         UNCHANGED <<repo, ci, complete, site, envs, blame>>, skipped' = skipped \cup {Current}
  PROVE  IInv'
<1>1. TypeOK /\ TurnInv /\ EnvironmentsBacked /\ LoadedInv
  BY DEF IInv
<1>2. uenva' = uenva /\ envs' = envs /\ complete' = complete
  BY DEF ci
<1>3. turn \in Nat \ {0} /\ Len(uenva) \in Nat /\ turn <= Len(uenva) /\ envs \in Seq(Envs)
  BY <1>1 DEF TypeOK, TurnInv, Looking
<1>4. skipped' \subseteq Identifiers
  <2>1. turn \in 1..Len(uenva) /\ uenva \in Seq(Identifiers)
    BY <1>1, <1>3 DEF TypeOK
  <2>2. Current \in Identifiers
    BY <2>1, ToSetIs DEF Current
  <2> QED  BY <1>1, <2>2 DEF TypeOK
<1>5. EnvironmentsBacked'
  BY <1>1, <1>2 DEF EnvironmentsBacked
<1>6. LoadedInv'
  <2>1. ASSUME NEW a \in 1..turn' - 1
        PROVE  \/ uenva[a] \in skipped'
               \/ /\ uenva[a] \in Uenvs
                  /\ \A k \in KeysOf(uenva[a]) :
                        \E i \in DOMAIN envs : envs[i].name = <<Pretty[uenva[a]], k>>
    <3>1. CASE a = turn
      BY <3>1 DEF Current
    <3>2. CASE a # turn
      <4>1. a \in 1..turn - 1
        BY <1>3, <3>2
      <4> QED  BY <1>1, <4>1 DEF LoadedInv
    <3> QED  BY <3>1, <3>2
  <2>2. \A i, j \in DOMAIN envs : i <= j =>
          \E a, b \in 1..turn' - 1 :
              a <= b /\ uenva[a] = envs[i].uenv /\ uenva[b] = envs[j].uenv
    <3>1. \A a \in 1..turn - 1 : a \in 1..turn' - 1
      BY <1>3
    <3> QED  BY <1>1, <3>1 DEF LoadedInv
  <2> QED  BY ONLY <1>2, <2>1, <2>2 DEF LoadedInv
<1> QED  BY <1>2, <1>3, <1>4, <1>5, <1>6, NextTurnInv

LEMMA LoadInv ==
  ASSUME IInv, pc = "meta", pc' = "load", turn' = turn + 1, Current \in Uenvs,
         UNCHANGED <<repo, ci, complete, site, skipped, blame>>, envs' = envs \o Loaded(Current)
  PROVE  IInv'
<1>1. TypeOK /\ TurnInv /\ EnvironmentsBacked /\ LoadedInv
  BY DEF IInv
<1>2. uenva' = uenva /\ skipped' = skipped /\ complete' = complete
  BY DEF ci
<1> DEFINE new == Loaded(Current)
           m == Len(envs)
           n == Len(new)
<1>3. turn \in Nat \ {0} /\ Len(uenva) \in Nat /\ turn <= Len(uenva) /\ envs \in Seq(Envs)
  BY <1>1 DEF TypeOK, TurnInv, Looking
<1>4. /\ new \in Seq(Envs)
      /\ \A i \in 1..n : new[i].uenv = Current
      /\ \A k \in KeysOf(Current) : \E i \in 1..n : new[i].name = <<Pretty[Current], k>>
  BY LoadedIs
<1> HIDE DEF new
<1>5. /\ envs' \in Seq(Envs) /\ m \in Nat /\ n \in Nat /\ Len(envs') = m + n
      /\ \A i \in 1..m : envs'[i] = envs[i]
      /\ \A i \in 1..n : envs'[m + i] = new[i]
  <2> DEFINE both == envs \o new
  <2>1. /\ both \in Seq(Envs) /\ m \in Nat /\ n \in Nat /\ Len(both) = m + n
        /\ \A i \in 1..m : both[i] = envs[i]
        /\ \A i \in 1..n : both[m + i] = new[i]
    BY ONLY <1>3, <1>4, ConcatIs
  <2>2. envs' = both
    BY DEF new
  <2> HIDE DEF both
  <2> QED  BY <2>1, <2>2
<1>6. DOMAIN envs = 1..m /\ DOMAIN envs' = 1..m + n
  BY <1>3, <1>5
<1> HIDE DEF m, n
<1>7. ASSUME NEW i \in DOMAIN envs'
      PROVE  \/ i \in DOMAIN envs /\ envs'[i] = envs[i]
             \/ i > m /\ envs'[i].uenv = Current
  <2>1. CASE i <= m
    <3>1. i \in 1..m
      BY <1>5, <1>6, <2>1
    <3> QED  BY <1>5, <1>6, <3>1
  <2>2. CASE i > m
    <3>1. i - m \in 1..n /\ i = m + (i - m)
      BY <1>5, <1>6, <2>2
    <3>2. envs'[i] = new[i - m]
      BY <1>5, <3>1
    <3> QED  BY <1>4, <2>2, <3>1, <3>2 DEF n
  <2> QED  BY <1>5, <1>6, <2>1, <2>2
<1>8. EnvironmentsBacked'
  <2>1. Current \in complete \cup Paths
    BY <1>1 DEF TurnInv
  <2> QED  BY <1>1, <1>2, <1>7, <2>1 DEF EnvironmentsBacked
<1>9. LoadedInv'
  <2>1. ASSUME NEW a \in 1..turn' - 1
        PROVE  \/ uenva[a] \in skipped
               \/ /\ uenva[a] \in Uenvs
                  /\ \A k \in KeysOf(uenva[a]) :
                        \E i \in DOMAIN envs' : envs'[i].name = <<Pretty[uenva[a]], k>>
    <3>1. CASE a = turn
      <4>1. uenva[a] = Current
        BY <3>1 DEF Current
      <4>2. ASSUME NEW k \in KeysOf(Current)
            PROVE  \E i \in DOMAIN envs' : envs'[i].name = <<Pretty[Current], k>>
        <5>1. PICK i \in 1..n : new[i].name = <<Pretty[Current], k>>
          BY <1>4 DEF n
        <5>2. m + i \in DOMAIN envs' /\ envs'[m + i] = new[i]
          BY <1>5, <1>6
        <5> QED  BY <5>1, <5>2
      <4> QED  BY <4>1, <4>2
    <3>2. CASE a # turn
      <4>1. a \in 1..turn - 1
        BY <1>3, <3>2
      <4>2. \/ uenva[a] \in skipped
            \/ /\ uenva[a] \in Uenvs
               /\ \A k \in KeysOf(uenva[a]) :
                     \E i \in DOMAIN envs : envs[i].name = <<Pretty[uenva[a]], k>>
        BY <1>1, <4>1 DEF LoadedInv
      <4>3. \A i \in DOMAIN envs : i \in DOMAIN envs' /\ envs'[i] = envs[i]
        BY <1>5, <1>6
      <4> QED  BY <4>2, <4>3
    <3> QED  BY <3>1, <3>2
  <2>2. ASSUME NEW i \in DOMAIN envs', NEW j \in DOMAIN envs', i <= j
        PROVE  \E a, b \in 1..turn' - 1 :
                  a <= b /\ uenva[a] = envs'[i].uenv /\ uenva[b] = envs'[j].uenv
    <3>1. /\ \A a \in 1..turn - 1 : a \in 1..turn' - 1 /\ a <= turn
          /\ turn \in 1..turn' - 1 /\ uenva[turn] = Current
      BY <1>3 DEF Current
    <3>2. CASE j \in DOMAIN envs /\ envs'[j] = envs[j]
      <4>1. i \in DOMAIN envs /\ envs'[i] = envs[i]
        BY <1>5, <1>6, <2>2, <3>2
      <4>2. PICK a \in 1..turn - 1, b \in 1..turn - 1 :
                a <= b /\ uenva[a] = envs[i].uenv /\ uenva[b] = envs[j].uenv
        BY <1>1, <2>2, <3>2, <4>1 DEF LoadedInv
      <4> QED  BY <3>1, <3>2, <4>1, <4>2
    <3>3. CASE j > m /\ envs'[j].uenv = Current
      <4>1. CASE i \in DOMAIN envs /\ envs'[i] = envs[i]
        <5>1. i <= i
          BY <1>5, <1>6, <4>1
        <5>2. PICK a \in 1..turn - 1, b \in 1..turn - 1 :
                  a <= b /\ uenva[a] = envs[i].uenv /\ uenva[b] = envs[i].uenv
          BY <1>1, <4>1, <5>1 DEF LoadedInv
        <5> QED  BY <3>1, <3>3, <4>1, <5>2
      <4>2. CASE i > m /\ envs'[i].uenv = Current
        <5>1. turn <= turn
          BY <1>3
        <5> QED  BY <3>1, <3>3, <4>2, <5>1
      <4> QED  BY <1>7, <4>1, <4>2
    <3> QED  BY <1>7, <3>2, <3>3
  <2> QED  BY ONLY <1>2, <2>1, <2>2 DEF LoadedInv
<1>10. skipped' \subseteq Identifiers
  BY <1>1, <1>2 DEF TypeOK
<1> QED  BY <1>5, <1>8, <1>9, <1>10, NextTurnInv

LEMMA ReadMetaInv ==
  ASSUME IInv, ReadMeta  PROVE IInv'
<1>1. TypeOK /\ TurnInv
  BY DEF IInv
<1>2. /\ pc = "meta" /\ UNCHANGED <<repo, ci, complete, site>>
      /\ \/ skipped' = skipped \cup {Current} /\ turn' = turn + 1 /\ pc' = "load"
            /\ UNCHANGED <<envs, blame>>
         \/ envs' = envs \o Loaded(Current) /\ turn' = turn + 1 /\ pc' = "load"
            /\ UNCHANGED <<skipped, blame>>
         \/ Current \in Broken /\ pc' = "raised" /\ blame' = Current
            /\ UNCHANGED <<skipped, envs, turn>>
  BY DEF ReadMeta, Skip, ConfigError
<1>3. Current \in Uenvs /\ pc \in Looking /\ turn <= Len(uenva) /\ complete \subseteq Uenvs
  BY <1>1, <1>2, UenvAssumption DEF TypeOK, TurnInv, Looking
<1>4. CASE skipped' = skipped \cup {Current} /\ turn' = turn + 1 /\ pc' = "load"
           /\ UNCHANGED <<envs, blame>>
  <2>1. UNCHANGED <<repo, ci, complete, site, envs, blame>>
    BY <1>2, <1>4
  <2> QED  BY <1>2, <1>4, <2>1, SkipInv
<1>5. CASE envs' = envs \o Loaded(Current) /\ turn' = turn + 1 /\ pc' = "load"
           /\ UNCHANGED <<skipped, blame>>
  <2>1. UNCHANGED <<repo, ci, complete, site, skipped, blame>>
    BY <1>2, <1>5
  <2> QED  BY <1>2, <1>3, <1>5, <2>1, LoadInv
<1>6. CASE Current \in Broken /\ pc' = "raised" /\ blame' = Current
           /\ UNCHANGED <<skipped, envs, turn>>
  <2>1. UNCHANGED <<repo, ci, site, turn, skipped, envs>>
    BY <1>2, <1>6
  <2>2. complete' \subseteq Uenvs /\ complete \subseteq complete'
    BY <1>2, <1>3
  <2>3. \/ /\ pc' \in Looking /\ blame' = blame
           /\ pc' = "meta" => Current \in complete' \cup Paths
        \/ /\ pc' = "raised" /\ blame' = Current
           /\ Missing(Current) \/ Current \in Broken \/ image[Current] = "pulling"
    BY <1>6
  <2> QED  BY <1>3, <2>1, <2>2, <2>3, LookedInv
<1> QED  BY <1>2, <1>4, <1>5, <1>6

LEMMA MergeInv ==
  ASSUME IInv, MergeSite  PROVE IInv'
<1>1. TypeOK /\ TurnInv /\ EnvironmentsBacked /\ LoadedInv /\ AcceptInv
  BY DEF IInv
<1>2. /\ turn > Len(uenva) /\ pc' = "configured"
      /\ environs' = [p \in Partitions |-> Environs(envs, p)]
      /\ UNCHANGED <<image, changes, gone, imgs, uenva, byHand, turn, complete, skipped, envs,
                     blame>>
  BY DEF MergeSite, repo, ci, loader
<1>3. TypeOK'
  <2>1. pc' \in Places
    BY <1>2 DEF Places
  <2> QED  BY <1>1, <1>2, <2>1 DEF TypeOK
<1>4. TurnInv'
  BY <1>1, <1>2 DEF TurnInv, Looking, Collecting
<1>5. EnvironmentsBacked' /\ LoadedInv'
  <2>1. LoadedInv /\ EnvironmentsBacked
        /\ uenva' = uenva /\ turn' = turn /\ skipped' = skipped /\ envs' = envs
        /\ complete' = complete
    BY <1>1, <1>2
  <2>2. LoadedInv'
    BY ONLY <2>1 DEF LoadedInv
  <2> QED  BY ONLY <2>1, <2>2 DEF EnvironmentsBacked
<1>6. MergedInv'
  <2>1. \A p \in Partitions : environs'[p] = Environs(envs, p)
    BY <1>2
  <2>2. envs' = envs
    BY <1>2
  <2> QED  BY ONLY <2>1, <2>2 DEF MergedInv
<1>7. RaisedInv'
  BY <1>2 DEF RaisedInv
<1>8. AcceptInv'
  <2>1. \A w : Kept(w) => Kept(w)'
    BY <1>2 DEF Kept
  <2> QED  BY <1>1, <1>2, <2>1 DEF AcceptInv
<1> QED  BY <1>3, <1>4, <1>5, <1>6, <1>7, <1>8 DEF IInv

\* The conjuncts about the loader do not depend on the repository.
LEMMA OthersInv ==
  ASSUME IInv, UNCHANGED <<ci, loader, site, pc, blame>>,
         image' \in [Uenvs -> {"absent", "pulling", "ready"}], changes' = changes + 1,
         gone' \subseteq Uenvs, gone \subseteq gone',
         \A w \in Uenvs : image[w] # "absent" =>
             image'[w] # "absent" \/ (w \in ToSet(uenva) => w \in gone')
  PROVE  IInv'
<1>1. TypeOK /\ TurnInv /\ EnvironmentsBacked /\ LoadedInv /\ MergedInv /\ AcceptInv /\ RaisedInv
  BY DEF IInv
<1>2. UNCHANGED <<imgs, uenva, byHand, turn, complete, skipped, envs, environs, pc, blame>>
  BY DEF ci, loader, site
<1>3. changes \in Nat /\ changes' \in Nat /\ changes' > 0
  BY <1>1 DEF TypeOK
<1>4. TypeOK'
  BY <1>1, <1>2, <1>3 DEF TypeOK
<1>5. TurnInv'
  <2>1. Current' = Current
    BY <1>2 DEF Current
  <2> QED  BY <1>1, <1>2, <2>1 DEF TurnInv
<1>6. EnvironmentsBacked'
  BY <1>1, <1>2 DEF EnvironmentsBacked
<1>7. LoadedInv'
  <2>1. LoadedInv /\ uenva' = uenva /\ turn' = turn /\ skipped' = skipped /\ envs' = envs
    BY <1>1, <1>2
  <2> QED  BY ONLY <2>1 DEF LoadedInv
<1>8. MergedInv'
  <2>1. MergedInv /\ pc' = pc /\ environs' = environs /\ envs' = envs
    BY <1>1, <1>2
  <2> QED  BY ONLY <2>1 DEF MergedInv
<1>9. AcceptInv'
  <2>1. ASSUME NEW w \in ToSet(uenva), Kept(w)  PROVE Kept(w)'
    <3>1. CASE w = NoUenv /\ Len(uenva) = 1
      BY <1>2, <3>1 DEF Kept
    <3>2. CASE w \in gone
      BY <3>2 DEF Kept
    <3>3. CASE w \in Uenvs /\ image[w] # "absent"
      <4>1. image'[w] \in {"absent", "pulling", "ready"}
        BY <3>3
      <4>2. CASE image'[w] = "absent"
        <5>1. w \in gone'
          BY <2>1, <3>3, <4>2
        <5> QED  BY <5>1 DEF Kept
      <4>3. CASE image'[w] # "absent"
        BY <1>3, <3>3, <4>1, <4>3 DEF Kept
      <4> QED  BY <4>2, <4>3
    <3> QED  BY <2>1, <3>1, <3>2, <3>3 DEF Kept
  <2> QED  BY <1>1, <1>2, <1>3, <2>1 DEF AcceptInv
<1>10. RaisedInv'
  <2> SUFFICES ASSUME pc' = "raised", ~byHand'
               PROVE  /\ blame' \in ToSet(uenva')
                      /\ \/ blame' = NoUenv \/ blame' \in gone' \cup Broken
                         \/ changes' > 0 /\ image'[blame'] # "absent"
    BY DEF RaisedInv
  <2>1. /\ blame \in ToSet(uenva)
        /\ \/ blame = NoUenv \/ blame \in gone \cup Broken
           \/ changes > 0 /\ image[blame] # "absent"
    BY <1>1, <1>2 DEF RaisedInv
  <2>2. CASE blame = NoUenv \/ blame \in gone \cup Broken
    BY <1>2, <2>1, <2>2
  <2>3. CASE blame # NoUenv /\ image[blame] # "absent"
    <3>1. blame \in Uenvs
      BY <1>1, <2>3 DEF TypeOK, Identifiers
    <3>2. image'[blame] # "absent" \/ blame \in gone'
      BY <2>1, <2>3, <3>1
    <3> QED  BY <1>2, <1>3, <2>1, <3>2
  <2> QED  BY <2>1, <2>2, <2>3
<1> QED  BY <1>4, <1>5, <1>6, <1>7, <1>8, <1>9, <1>10 DEF IInv

LEMMA OtherPullsInv ==
  ASSUME IInv, NEW u \in Uenvs, OtherPulls(u)  PROVE IInv'
<1>1. TypeOK
  BY DEF IInv
<1>2. /\ UNCHANGED <<ci, loader, site, pc, blame>> /\ gone' = gone /\ changes' = changes + 1
      /\ \/ image[u] = "absent" /\ image' = [image EXCEPT ![u] = "pulling"]
         \/ image[u] = "pulling" /\ image' = [image EXCEPT ![u] = "ready"]
  BY DEF OtherPulls, Change
<1>3. /\ image' \in [Uenvs -> {"absent", "pulling", "ready"}]
      /\ \A w \in Uenvs : image[w] # "absent" =>
             image'[w] # "absent" \/ (w \in ToSet(uenva) => w \in gone')
  BY <1>1, <1>2 DEF TypeOK
<1>4. gone' \subseteq Uenvs /\ gone \subseteq gone'
  BY <1>1, <1>2 DEF TypeOK
<1> QED  BY <1>2, <1>3, <1>4, OthersInv

LEMMA OtherRemovesInv ==
  ASSUME IInv, NEW u \in Uenvs, OtherRemoves(u)  PROVE IInv'
<1>1. TypeOK
  BY DEF IInv
<1>2. /\ UNCHANGED <<ci, loader, site, pc, blame>> /\ changes' = changes + 1
      /\ image' = [image EXCEPT ![u] = "absent"]
      /\ gone' = IF u \in ToSet(uenva) THEN gone \cup {u} ELSE gone
  BY DEF OtherRemoves, Change
<1>3. gone' \subseteq Uenvs /\ gone \subseteq gone' /\ (u \in ToSet(uenva) => u \in gone')
  BY <1>1, <1>2 DEF TypeOK
<1>4. /\ image' \in [Uenvs -> {"absent", "pulling", "ready"}]
      /\ \A w \in Uenvs : image[w] # "absent" =>
             image'[w] # "absent" \/ (w \in ToSet(uenva) => w \in gone')
  BY <1>1, <1>2, <1>3 DEF TypeOK
<1> QED  BY <1>2, <1>3, <1>4, OthersInv

LEMMA StutterInv ==
  ASSUME IInv, UNCHANGED vars  PROVE IInv'
<1>1. UNCHANGED <<image, changes, gone, imgs, uenva, byHand, turn, complete, skipped, envs,
                  environs, resources, pc, blame>>
  BY DEF vars, repo, ci, loader, site
<1>2. TypeOK /\ TurnInv /\ EnvironmentsBacked /\ LoadedInv /\ MergedInv /\ AcceptInv /\ RaisedInv
  BY DEF IInv
<1>3. TypeOK'
  BY <1>1, <1>2 DEF TypeOK
<1>4. TurnInv'
  BY <1>1, <1>2 DEF TurnInv, Current
<1>5. EnvironmentsBacked' /\ LoadedInv'
  <2>1. LoadedInv /\ EnvironmentsBacked
        /\ uenva' = uenva /\ turn' = turn /\ skipped' = skipped /\ envs' = envs
        /\ complete' = complete
    BY <1>1, <1>2
  <2>2. LoadedInv'
    BY ONLY <2>1 DEF LoadedInv
  <2> QED  BY ONLY <2>1, <2>2 DEF EnvironmentsBacked
<1>6. MergedInv' /\ RaisedInv'
  BY <1>1, <1>2 DEF MergedInv, RaisedInv
<1>7. AcceptInv'
  BY <1>1, <1>2 DEF AcceptInv, Kept
<1> QED  BY <1>3, <1>4, <1>5, <1>6, <1>7 DEF IInv

-----------------------------------------------------------------------------
(* The theorems. *)

(* The strengthened invariant holds in every reachable state, whatever the *)
(* uenvs, the lists and the metadata, and whatever other jobs do.          *)
THEOREM Inductive == Spec => []IInv
<1>1. Init => IInv
  BY InitInv
<1>2. IInv /\ [Next]_vars => IInv'
  <2> SUFFICES ASSUME IInv, [Next]_vars  PROVE IInv'
    OBVIOUS
  <2>1. CASE Others
    BY <2>1, OtherPullsInv, OtherRemovesInv DEF Others
  <2>2. CASE Job
    BY <2>2, PullInv, ExportInv, LaunchInv, IdentifyInv, IsFileInv, StatInv, ReadMetaInv, MergeInv
      DEF Job
  <2>3. CASE Terminating \/ UNCHANGED vars
    BY <2>3, StutterInv DEF Terminating
  <2> QED  BY <2>1, <2>2, <2>3 DEF Next
<1> QED  BY <1>1, <1>2, PTL DEF Spec

(* No environment is made of an image that the loader has not seen with a  *)
(* size, whatever other jobs pull or remove between its steps              *)
(* (uenv.py:349-355).                                                      *)
THEOREM Backed == Spec => []EnvironmentsBacked
<1>1. IInv => EnvironmentsBacked
  BY DEF IInv
<1> QED  BY <1>1, Inductive, PTL

(* An image the CI job has accepted stops the configuration only when      *)
(* another job interfered or its metadata is broken (uenv.py:337-355).     *)
THEOREM Accepted == Spec => []AcceptedLoads
<1>1. IInv => AcceptedLoads
  <2> SUFFICES ASSUME IInv, pc = "raised", ~byHand
               PROVE  \/ blame = NoUenv /\ Len(uenva) = 1
                      \/ blame \in gone \cup Broken
                      \/ blame \in Uenvs /\ changes > 0 /\ image[blame] # "absent"
    BY DEF AcceptedLoads
  <2>1. TypeOK /\ AcceptInv /\ RaisedInv
    BY DEF IInv
  <2>2. blame \in ToSet(uenva) /\ Kept(blame)
    BY <2>1 DEF AcceptInv, RaisedInv
  <2>3. CASE blame = NoUenv
    BY <2>1, <2>2, <2>3, UenvAssumption DEF Kept, TypeOK
  <2>4. CASE blame # NoUenv
    BY <2>1, <2>4 DEF RaisedInv, TypeOK, Identifiers
  <2> QED  BY <2>3, <2>4
<1> QED  BY <1>1, Inductive, PTL

\* The environments added to a partition follow its own, with their names.
LEMMA EnvironsAre ==
  ASSUME NEW es \in Seq(Envs), NEW p \in Partitions
  PROVE  /\ p \notin HasUenv => Environs(es, p) = BaseEnvirons[p]
         /\ p \in HasUenv =>
               /\ IsPrefix(BaseEnvirons[p], Environs(es, p))
               /\ \A i \in DOMAIN es : es[i].name \in ToSet(Environs(es, p))
<1> DEFINE base == BaseEnvirons[p]
           Own == {base[i] : i \in DOMAIN base}
           names == [i \in 1..Len(es) |-> es[i].name]
           T == Own \cup Names
<1>1. base \in Seq(Own)
  BY SiteAssumption
<1>2. names \in Seq(Names) /\ Len(names) = Len(es) /\ \A i \in 1..Len(es) : names[i] = es[i].name
  <2>1. Len(es) \in Nat /\ \A i \in 1..Len(es) : es[i] \in Envs
    OBVIOUS
  <2>2. \A i \in 1..Len(es) : es[i].name \in Names
    BY <2>1 DEF Envs
  <2> QED  BY <2>1, <2>2
<1>3. base \in Seq(T) /\ names \in Seq(T)
  <2> HIDE DEF base, names
  <2> QED  BY <1>1, <1>2
<1>4. CASE p \notin HasUenv
  <2> HIDE DEF base, Own
  <2>1. base \o <<>> = base
    BY <1>1
  <2>2. Environs(es, p) = base \o <<>>
    BY <1>4 DEF Environs, Merged, base
  <2> QED  BY <1>4, <2>1, <2>2 DEF base
<1>5. CASE p \in HasUenv
  <2> DEFINE all == base \o names
  <2>1. Environs(es, p) = all
    BY <1>5, AllValid DEF Environs, Merged
  <2> HIDE DEF base, names, T
  <2>2. /\ all \in Seq(T) /\ Len(base) \in Nat /\ Len(names) \in Nat
        /\ Len(all) = Len(base) + Len(names)
        /\ \A i \in 1..Len(base) : all[i] = base[i]
        /\ \A i \in 1..Len(names) : all[Len(base) + i] = names[i]
    BY ONLY <1>3, ConcatIs
  <2> HIDE DEF all
  <2>3. IsPrefix(base, all)
    <3> DEFINE s == SubSeq(base, 1, Len(base))
               t == SubSeq(all, 1, Len(base))
    <3>1. s \in Seq(T) /\ Len(s) = Len(base) /\ \A i \in 1..Len(base) : s[i] = base[i]
      BY <1>3, <2>2
    <3>2. t \in Seq(T) /\ Len(t) = Len(base) /\ \A i \in 1..Len(base) : t[i] = all[i]
      BY <2>2
    <3> HIDE DEF s, t
    <3>3. s = t
      BY <2>2, <3>1, <3>2
    <3>4. Len(base) <= Len(all)
      BY <2>2
    <3> QED  BY <3>3, <3>4 DEF IsPrefix, s, t
  <2>4. ASSUME NEW i \in DOMAIN es  PROVE es[i].name \in ToSet(all)
    <3>1. i \in 1..Len(es)
      OBVIOUS
    <3>2. Len(base) + i \in 1..Len(all) /\ all[Len(base) + i] = es[i].name
      BY <1>2, <2>2, <3>1
    <3>3. \A x : x \in ToSet(all) <=> \E j \in 1..Len(all) : all[j] = x
      BY ONLY <2>2, ToSetIs
    <3> QED  BY <3>2, <3>3
  <2> QED  BY <1>5, <2>1, <2>3, <2>4 DEF base
<1> QED  BY <1>4, <1>5

(* When the configuration is complete, every identifier that was not       *)
(* skipped has left all of its environments on the partitions with the     *)
(* feature, after their own and in the order of the list, and the other    *)
(* partitions keep what they had (uenv.py:366-374, cscs.py:83-86).         *)
THEOREM Hidden == Spec => []NothingHidden
<1>1. IInv => NothingHidden
  <2> SUFFICES ASSUME IInv, pc = "configured", NEW p \in Partitions
               PROVE  IF p \notin HasUenv THEN environs[p] = BaseEnvirons[p]
                      ELSE /\ IsPrefix(BaseEnvirons[p], environs[p])
                           /\ \A u \in ToSet(uenva) \ skipped :
                                 {Pretty[u]} \X ToSet(Keys[u]) \subseteq ToSet(environs[p])
                           /\ \A i, j \in DOMAIN envs : i < j =>
                                 \E a, b \in DOMAIN uenva :
                                    a <= b /\ uenva[a] = envs[i].uenv /\ uenva[b] = envs[j].uenv
    BY DEF NothingHidden
  <2>1. /\ envs \in Seq(Envs) /\ uenva \in Seq(Identifiers) /\ environs[p] = Environs(envs, p)
        /\ turn \in Nat \ {0} /\ turn <= Len(uenva) + 1 /\ turn > Len(uenva) /\ LoadedInv
    BY DEF IInv, TypeOK, MergedInv, TurnInv
  <2>2. 1..turn - 1 = DOMAIN uenva /\ DOMAIN uenva = 1..Len(uenva) /\ Len(uenva) \in Nat
        /\ DOMAIN envs = 1..Len(envs) /\ Len(envs) \in Nat
    BY <2>1
  <2>3. CASE p \notin HasUenv
    BY <2>1, <2>3, EnvironsAre
  <2>4. CASE p \in HasUenv
    <3>1. /\ IsPrefix(BaseEnvirons[p], environs[p])
          /\ \A i \in DOMAIN envs : envs[i].name \in ToSet(environs[p])
      BY <2>1, <2>4, EnvironsAre
    <3>2. ASSUME NEW u \in ToSet(uenva) \ skipped, NEW k \in ToSet(Keys[u])
          PROVE  <<Pretty[u], k>> \in ToSet(environs[p])
      <4>1. PICK a \in 1..Len(uenva) : uenva[a] = u
        BY <2>1, ToSetIs
      <4>2. /\ u \in Uenvs
            /\ \A x \in KeysOf(u) : \E i \in DOMAIN envs : envs[i].name = <<Pretty[u], x>>
        BY <2>1, <2>2, <3>2, <4>1 DEF LoadedInv
      <4>3. k \in KeysOf(u)
        <5>1. Keys[u] \in Seq(KeysOf(u))
          BY <4>2, KeysAre
        <5>2. PICK i \in 1..Len(Keys[u]) : Keys[u][i] = k
          BY <3>2, <5>1, ToSetIs
        <5>3. Keys[u][i] \in KeysOf(u)
          BY <5>1, ToSetIs
        <5> QED  BY <5>2, <5>3
      <4> QED  BY <3>1, <4>2, <4>3
    <3>3. \A u \in ToSet(uenva) \ skipped :
             {Pretty[u]} \X ToSet(Keys[u]) \subseteq ToSet(environs[p])
      BY <3>2
    <3>4. ASSUME NEW i \in DOMAIN envs, NEW j \in DOMAIN envs, i < j
          PROVE  \E a, b \in DOMAIN uenva :
                    a <= b /\ uenva[a] = envs[i].uenv /\ uenva[b] = envs[j].uenv
      <4>1. i <= j
        BY <2>2, <3>4
      <4>2. PICK a \in 1..turn - 1, b \in 1..turn - 1 :
                a <= b /\ uenva[a] = envs[i].uenv /\ uenva[b] = envs[j].uenv
        BY <2>1, <4>1 DEF LoadedInv
      <4> QED  BY <2>2, <4>2
    <3> QED  BY <2>4, <3>1, <3>3, <3>4
  <2> QED  BY <2>3, <2>4
<1> QED  BY <1>1, Inductive, PTL
===============================================================================
