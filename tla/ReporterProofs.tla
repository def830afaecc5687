---------------------------- MODULE ReporterProofs ----------------------------
(***************************************************************************)
(* Theorems about Reporter, for any systems, images, recipes, tests and    *)
(* matrices, and any number of changes of the images deployed.             *)
(***************************************************************************)
EXTENDS Reporter, FiniteSetTheorems, WellFoundedInduction, TLAPS

(* The inductive invariant. *)

Statuses == {"not run", "listed", "silent", "failed"}
Outputs == [status : Statuses, tests : SUBSET Tests, overlooked : SUBSET Recipes]
Inventories == [usable : BOOLEAN, records : SUBSET Records]
Places == {"generate", "start", "target", "describe", "success", "raised"}

Targets == {targets[i] : i \in DOMAIN targets}

TypeOK ==
    /\ registry \subseteq Records /\ ever \subseteq Records /\ steady \subseteq Records
    /\ changes \in Nat
    /\ asked \in AskLists /\ next \in Nat \ {0} /\ merged \subseteq Records
    /\ files \in [Files -> Inventories]
    /\ flag \in {"--mode", "--tag"} /\ targets \in Matrices /\ path \in Files \cup {Live, None}
    /\ pc \in Places /\ turn \in Nat \ {0}
    /\ found \in Inventories /\ overlooked \in SUBSET Recipes
    /\ processed \in Seq(Targets) /\ any_failures \in BOOLEAN
    /\ output \in [DOMAIN targets -> Outputs]

\* Where the program is.
RunInv ==
    /\ pc \in {"target", "describe"} => \A i \in DOMAIN targets : WellFormed(targets[i])
    /\ pc = "describe" => turn <= Len(targets)
    /\ \A i \in DOMAIN targets : i >= turn => output[i] = NotRun

\* What has been collected is what the runs gave.
CollectedInv ==
    /\ all_results = UNION {output[i].tests \X {targets[i]} : i \in DOMAIN targets}
    /\ ToSet(processed) = {targets[i] : i \in {j \in DOMAIN targets : Returned(j)}}
    /\ \A i \in DOMAIN targets : output[i].tests # {} => output[i].status = "listed"

ReportInv == report = NoReport \/ (pc = "success" /\ report = Table)

IInv == TypeOK /\ RunInv /\ CollectedInv /\ ReportInv

\* An inventory has only images that have been deployed, and all that have
\* been deployed all the time on the systems it is about.
HistoryInv == steady \subseteq registry /\ registry \subseteq ever

GeneratedInv ==
    /\ merged \subseteq ever
    /\ \A k \in 1..next - 1 : \A r \in steady : r.system = asked[k] => r \in merged
    /\ \A f \in Files :
          /\ files[f].records \subseteq ever
          /\ files[f].usable => \A r \in steady : r.system \in ToSet(f) => r \in files[f].records

FoundInv ==
    /\ found.records \subseteq ever
    /\ pc = "describe" /\ found.usable /\ overlooked # Recipes =>
          \A r \in steady :
             /\ r.system = OnSystem(targets[turn])
             /\ path = Live \/ (path \in Files /\ r.system \in ToSet(path))
             => r \in found.records

SeenInv == HistoryInv /\ GeneratedInv /\ FoundInv

\* The test is due in the output of a run: the recipe has been deployed.
Due(i, r, recipe, t) ==
    /\ r.system = OnSystem(targets[i])
    /\ recipe \in {<<r.name, r.version>>, <<r.name, r.version, r.uarch>>}
    /\ Valid[t] \cap NamesOf(recipe) # {} /\ t \in Filter(targets[i])

DueInv ==
    \A i \in DOMAIN targets :
       /\ \A t \in output[i].tests : RunsOn(t, OnSystem(targets[i]))
       /\ Reported(i) => \A r \in steady, recipe \in Recipes, t \in Tests :
                           Due(i, r, recipe, t) /\ recipe \notin output[i].overlooked
                           => t \in output[i].tests

-----------------------------------------------------------------------------
(* Types. *)

\* Sequences of sets given by their elements.
LEMMA ToSetIs ==
  ASSUME NEW T, NEW q \in Seq(T)
  PROVE  /\ \A u : u \in ToSet(q) <=> \E i \in 1..Len(q) : q[i] = u
         /\ \A i \in 1..Len(q) : q[i] \in T
  BY DEF ToSet

LEMMA AppendedSet ==
  ASSUME NEW T, NEW q \in Seq(T), NEW x \in T
  PROVE  Append(q, x) \in Seq(T) /\ ToSet(Append(q, x)) = ToSet(q) \cup {x}
<1> DEFINE a == Append(q, x)
<1>1. /\ a \in Seq(T) /\ Len(q) \in Nat /\ Len(a) = Len(q) + 1 /\ a[Len(q) + 1] = x
      /\ \A i \in 1..Len(q) : a[i] = q[i]
  OBVIOUS
<1> HIDE DEF a
<1>2. ASSUME NEW u  PROVE u \in ToSet(a) <=> u \in ToSet(q) \/ u = x
  <2>1. u \in ToSet(a) <=> \E i \in 1..Len(a) : a[i] = u
    BY ONLY <1>1, ToSetIs
  <2>2. u \in ToSet(q) <=> \E i \in 1..Len(q) : q[i] = u
    BY ToSetIs
  <2>3. 1..Len(a) = 1..Len(q) \cup {Len(q) + 1}
    BY <1>1
  <2> QED  BY <1>1, <2>1, <2>2, <2>3
<1> QED  BY <1>1, <1>2 DEF a

\* The targets are a sequence.
LEMMA TargetsAre ==
  ASSUME TypeOK
  PROVE  /\ targets \in Seq(Targets) /\ Len(targets) \in Nat
         /\ DOMAIN targets = 1..Len(targets)
         /\ \A i \in DOMAIN targets : targets[i] \in Targets
<1>1. targets \in Seq(Targets)
  BY ReporterAssumption DEF TypeOK, Targets
<1> QED  BY <1>1 DEF Targets

\* What a well-formed target selects are tests.
LEMMA FilterIs ==
  ASSUME TypeOK, NEW i \in DOMAIN targets, WellFormed(targets[i])
  PROVE  Filter(targets[i]) \subseteq Tests
<1>1. /\ targets \in Matrices /\ flag \in {"--mode", "--tag"}
      /\ Len(targets[i]) = 3
  BY DEF TypeOK, WellFormed
<1>2. CASE targets[i][3] = ""
  BY <1>2 DEF Filter
<1>3. CASE targets[i][3] # ""
  <2>1. <<flag, targets[i][3]>> \in DOMAIN Selected
    BY <1>1, <1>3, ReporterAssumption
  <2>2. Selected[<<flag, targets[i][3]>>] \subseteq Tests
    BY <2>1, ReporterAssumption
  <2> QED  BY <2>2 DEF Filter
<1> QED  BY <1>2, <1>3

LEMMA FoundType ==
  ASSUME NEW s  PROVE ImageFind(s) \subseteq registry
  BY DEF ImageFind

\* A file that is written holds an inventory.
LEMMA FileWritten ==
  ASSUME TypeOK, NEW f, NEW inv \in Inventories, files' = [files EXCEPT ![f] = inv]
  PROVE  files' \in [Files -> Inventories]
  BY DEF TypeOK

-----------------------------------------------------------------------------
(* The steps. *)

LEMMA CollectedKept ==
  ASSUME CollectedInv, UNCHANGED <<targets, output, all_results, processed>>
  PROVE  CollectedInv'
  BY DEF CollectedInv, Returned

LEMMA ReportKept ==
  ASSUME ReportInv, pc # "success", report' = report
  PROVE  ReportInv'
  BY DEF ReportInv

LEMMA InitInv == Init => IInv
<1> SUFFICES ASSUME Init  PROVE IInv
  OBVIOUS
<1>1. targets \in Seq(Targets) /\ \A i \in DOMAIN targets : i \in Nat /\ i >= 1
  <2>1. targets \in Seq(Targets)
    BY ReporterAssumption DEF Init, Targets
  <2> QED  BY <2>1
<1>2. TypeOK
  <2>1. registry \subseteq Records
    <3>1. PICK D \in Deployed : registry = {Record(d[1], d[2]) : d \in D}
      BY DEF Init
    <3>2. D \subseteq Images \X Systems
      BY <3>1, ReporterAssumption
    <3> QED  BY <3>1, <3>2 DEF Records
  <2>2. files \in [Files -> Inventories] /\ found \in Inventories
    BY DEF Init, Unusable, Inventories
  <2>3. <<>> \in Seq(Targets)
    OBVIOUS
  <2>4. output \in [DOMAIN targets -> Outputs]
    BY DEF Init, NotRun, Outputs, Statuses
  <2>5. /\ ever = registry /\ steady = registry /\ changes = 0 /\ asked \in AskLists /\ next = 1
        /\ merged = {} /\ flag \in {"--mode", "--tag"} /\ targets \in Matrices
        /\ path \in Files \cup {Live, None} /\ pc = "generate" /\ turn = 1 /\ processed = <<>>
        /\ any_failures = FALSE /\ overlooked = {}
    BY DEF Init
  <2>6. processed \in Seq(Targets)
    BY <2>3, <2>5
  <2>7. /\ registry \subseteq Records /\ ever \subseteq Records /\ steady \subseteq Records
        /\ overlooked \in SUBSET Recipes /\ changes \in Nat /\ next \in Nat \ {0}
        /\ turn \in Nat \ {0} /\ merged \subseteq Records
    BY <2>1, <2>5
  <2>8. pc \in Places /\ any_failures \in BOOLEAN
    BY ONLY <2>5 DEF Places
  <2> QED  BY <2>2, <2>4, <2>5, <2>6, <2>7, <2>8 DEF TypeOK
<1>3. RunInv
  BY DEF Init, RunInv
<1>4. CollectedInv
  <2>1. \A i \in DOMAIN targets : output[i].tests = {} /\ ~Returned(i)
    BY DEF Init, NotRun, Returned
  <2>2. all_results = {} /\ ToSet(processed) = {}
    BY DEF Init, ToSet
  <2> QED  BY <2>1, <2>2 DEF CollectedInv
<1>5. ReportInv
  BY DEF Init, ReportInv
<1> QED  BY <1>2, <1>3, <1>4, <1>5 DEF IInv

\* Deploy, and the steps of the generator, leave the runs alone.
LEMMA DeployInv ==
  ASSUME IInv, NEW r \in Records, Deploy(r)  PROVE IInv'
<1>1. TypeOK /\ RunInv /\ CollectedInv /\ ReportInv
  BY DEF IInv
<1>2. UNCHANGED <<asked, next, merged, files, flag, targets, path, pc, turn, found,
                  overlooked, all_results,
                  processed, any_failures, raw, output, report>>
  BY DEF Deploy, generator, arguments, loaded, collected
<1>3. TypeOK'
  <2>1. registry' \subseteq Records /\ ever' \subseteq Records /\ steady' \subseteq Records
        /\ changes' \in Nat
    BY <1>1 DEF Deploy, TypeOK
  <2> QED  BY <1>1, <1>2, <2>1 DEF TypeOK, Targets
<1>4. RunInv' /\ CollectedInv'
  BY <1>1, <1>2, CollectedKept DEF RunInv
<1>5. ReportInv'
  <2>1. Table' = Table
    BY <1>2 DEF Table, Labels, Columns, UniqueTests, Cell, Variants, Exists, TargetCount, Counted,
                RawCount
  <2> QED  BY <1>1, <1>2, <2>1 DEF ReportInv
<1> QED  BY <1>3, <1>4, <1>5 DEF IInv

LEMMA GenerateInv ==
  ASSUME IInv, AskSystem \/ WriteMerged  PROVE IInv'
<1>1. TypeOK /\ RunInv /\ CollectedInv /\ ReportInv
  BY DEF IInv
<1>2. /\ UNCHANGED <<registry, changes, ever, steady, asked, flag, targets, path, turn,
                     found, overlooked,
                     all_results, processed, any_failures, raw, output, report>>
      /\ pc = "generate" /\ pc' \in {"generate", "start"}
  BY DEF AskSystem, WriteMerged, images, arguments, loaded, collected
<1>3. TypeOK'
  <2>1. next' \in Nat \ {0} /\ merged' \subseteq Records
    BY <1>1, FoundType DEF AskSystem, WriteMerged, TypeOK
  <2>2. files' \in [Files -> Inventories]
    <3>1. \A R \in SUBSET Records : Inventory(R) \in Inventories
      BY DEF Inventory, Inventories
    <3>2. Unusable \in Inventories
      BY DEF Unusable, Inventories
    <3>3. \A s : ImageFind(s) \in SUBSET Records
      BY <1>1, FoundType DEF TypeOK
    <3>4. merged \in SUBSET Records
      BY <1>1 DEF TypeOK
    <3>5. CASE files' = files
      BY <1>1, <3>5 DEF TypeOK
    <3>6. CASE AskSystem
      <4>1. Inventory(ImageFind(asked[next])) \in Inventories
        BY <3>1, <3>3
      <4>2. \/ files' = [files EXCEPT ![<<asked[next]>>] = Inventory(ImageFind(asked[next]))]
            \/ files' = [files EXCEPT ![<<asked[next]>>] = Unusable]
            \/ files' = files
        BY <3>6 DEF AskSystem
      <4> QED  BY <1>1, <3>2, <3>5, <4>1, <4>2, FileWritten
    <3>7. CASE WriteMerged
      <4>1. Inventory(merged) \in Inventories
        BY <3>1, <3>4
      <4>2. files' = [files EXCEPT ![asked] = Inventory(merged)]
        BY <3>7 DEF WriteMerged, MergedRecords
      <4> QED  BY <1>1, <4>1, <4>2, FileWritten
    <3> QED  BY <3>6, <3>7
  <2> QED  BY <1>1, <1>2, <2>1, <2>2 DEF TypeOK, Places, Targets
<1>4. RunInv' /\ CollectedInv' /\ ReportInv'
  BY <1>1, <1>2, CollectedKept, ReportKept DEF RunInv
<1> QED  BY <1>3, <1>4 DEF IInv

LEMMA StartInv ==
  ASSUME IInv, Start  PROVE IInv'
<1>1. TypeOK /\ RunInv /\ CollectedInv /\ ReportInv
  BY DEF IInv
<1>2. /\ UNCHANGED <<registry, changes, ever, steady, asked, next, merged, files, flag,
                     targets,
                     path, turn, found, overlooked, all_results, processed, any_failures,
                     raw, output, report>>
      /\ pc = "start" /\ pc' \in {"target", "raised"}
      /\ pc' = "target" => \A i \in DOMAIN targets : WellFormed(targets[i])
  BY DEF Start, images, generator, arguments, loaded, collected
<1>3. TypeOK'
  BY <1>1, <1>2 DEF TypeOK, Places, Targets
<1>4. RunInv' /\ CollectedInv' /\ ReportInv'
  BY <1>1, <1>2, CollectedKept, ReportKept DEF RunInv
<1> QED  BY <1>3, <1>4 DEF IInv

LEMMA RunInvKept ==
  ASSUME IInv, RunReframe \/ NoReframe \/ Garbled  PROVE IInv'
<1>1. TypeOK /\ RunInv /\ CollectedInv /\ ReportInv
  BY DEF IInv
<1>2. /\ UNCHANGED <<registry, changes, ever, steady, asked, next, merged, files, flag,
                     targets,
                     path, turn, all_results, processed, any_failures, output, report>>
      /\ pc \in {"target", "describe"} /\ pc' \in {"describe", "raised"}
      /\ pc' = "describe" => turn <= Len(targets) /\ pc = "target"
  BY DEF RunReframe, NoReframe, Garbled, images, generator, arguments, loaded, collected
<1>3. TypeOK'
  <2>1. found' \in Inventories /\ overlooked' \in SUBSET Recipes
    <3>1. CASE RunReframe
      <4>1. \A R \in SUBSET Records : Inventory(R) \in Inventories
        BY DEF Inventory, Inventories
      <4>2. Unusable \in Inventories
        BY DEF Unusable, Inventories
      <4>3. \A s : ImageFind(s) \in SUBSET Records
        BY <1>1, FoundType DEF TypeOK
      <4>4. path \notin {None, Live} => files[path] \in Inventories
        BY <1>1 DEF TypeOK
      <4>5. \A R \in Unreadable : R \in SUBSET Recipes
        BY ReporterAssumption
      <4> QED  BY <3>1, <4>5, <4>1, <4>2, <4>3, <4>4 DEF RunReframe, Overlook, LoadInventory
    <3>2. CASE found' = found /\ overlooked' = overlooked
      BY <1>1, <3>2 DEF TypeOK
    <3> QED  BY <3>1, <3>2 DEF NoReframe, Garbled, loaded
  <2> QED  BY <1>1, <1>2, <2>1 DEF TypeOK, Places, Targets
<1>4. RunInv' /\ CollectedInv' /\ ReportInv'
  BY <1>1, <1>2, CollectedKept, ReportKept DEF RunInv
<1> QED  BY <1>3, <1>4 DEF IInv

\* One run gives one more output, and nothing else of the program changes.
LEMMA RanInv ==
  ASSUME IInv, pc = "describe", pc' = "target", turn' = turn + 1,
         UNCHANGED <<images, generator, arguments, found, overlooked, report>>,
         any_failures' \in BOOLEAN, processed' \in Seq(Targets),
         output' \in [DOMAIN targets -> Outputs],
         \A i \in DOMAIN targets : i # turn => output'[i] = output[i],
         CollectedInv'
  PROVE  IInv'
<1>1. TypeOK /\ RunInv /\ ReportInv
  BY DEF IInv
<1>2. UNCHANGED <<registry, changes, ever, steady, asked, next, merged, files, flag,
                  targets, path,
                  found, overlooked, report>>
  BY DEF images, generator, arguments, loaded
<1>3. turn \in Nat \ {0} /\ DOMAIN targets = 1..Len(targets) /\ Len(targets) \in Nat
  BY <1>1, TargetsAre DEF TypeOK
<1>4. TypeOK'
  <2>1. turn' \in Nat \ {0} /\ pc' \in Places
    BY <1>3 DEF Places
  <2> QED  BY <1>1, <1>2, <2>1 DEF TypeOK, Targets
<1>5. RunInv'
  <2>1. \A i \in DOMAIN targets : i >= turn' => output'[i] = NotRun
    BY <1>1, <1>3 DEF RunInv
  <2>2. \A i \in DOMAIN targets : WellFormed(targets[i])
    BY <1>1 DEF RunInv
  <2> QED  BY <1>2, <2>1, <2>2 DEF RunInv
<1>6. ReportInv'
  BY <1>1, <1>2, ReportKept
<1> QED  BY <1>4, <1>5, <1>6 DEF IInv

LEMMA FailedInv ==
  ASSUME IInv, Failed  PROVE IInv'
<1> DEFINE out == Output("failed", {})
<1>1. TypeOK /\ RunInv /\ CollectedInv
  BY DEF IInv
<1>2. /\ pc = "describe" /\ pc' = "target" /\ turn' = turn + 1 /\ any_failures' = TRUE
      /\ UNCHANGED <<images, generator, arguments, found, overlooked, all_results,
                     processed, report>>
      /\ output' = [output EXCEPT ![turn] = out]
  BY DEF Failed, NextTarget, loaded
<1>3. /\ turn \in DOMAIN targets /\ output \in [DOMAIN targets -> Outputs] /\ output[turn] = NotRun
      /\ processed \in Seq(Targets)
  <2>1. turn \in DOMAIN targets
    BY <1>1, <1>2, TargetsAre DEF TypeOK, RunInv
  <2>2. turn >= turn
    BY <1>1 DEF TypeOK
  <2> QED  BY <1>1, <2>1, <2>2 DEF TypeOK, RunInv
<1>4. out \in Outputs /\ out.tests = {} /\ out.status = "failed"
  BY <1>1 DEF Output, Outputs, Statuses, TypeOK
<1> HIDE DEF out
<1>5. /\ output' \in [DOMAIN targets -> Outputs] /\ output'[turn] = out
      /\ \A i \in DOMAIN targets : i # turn => output'[i] = output[i]
  BY <1>2, <1>3, <1>4
<1>6. CollectedInv'
  <2>1. targets' = targets
    BY <1>2 DEF arguments
  <2>2. \A i \in DOMAIN targets : /\ output'[i].tests = output[i].tests
                                  /\ Returned(i)' <=> Returned(i)
    <3> SUFFICES ASSUME NEW i \in DOMAIN targets
                 PROVE  output'[i].tests = output[i].tests /\ (Returned(i)' <=> Returned(i))
      OBVIOUS
    <3>1. CASE i = turn
      <4>1. output[i].tests = {} /\ output[i].status = "not run"
        <5>1. output[i] = NotRun
          BY <1>3, <3>1
        <5>2. NotRun.tests = {} /\ NotRun.status = "not run"
          BY DEF NotRun
        <5> QED  BY ONLY <5>1, <5>2
      <4>2. output'[i].tests = {} /\ output'[i].status = "failed"
        BY <1>4, <1>5, <3>1
      <4> QED  BY <4>1, <4>2 DEF Returned
    <3>2. CASE i # turn
      BY <1>5, <3>2 DEF Returned
    <3> QED  BY <3>1, <3>2
  <2>3. \A i \in DOMAIN targets : output'[i].tests # {} => output'[i].status = "listed"
    BY <1>1, <1>4, <1>5 DEF CollectedInv
  <2>4. UNION {output'[i].tests \X {targets[i]} : i \in DOMAIN targets} =
        UNION {output[i].tests \X {targets[i]} : i \in DOMAIN targets}
    BY <2>2
  <2>5. {targets[i] : i \in {j \in DOMAIN targets : Returned(j)'}} =
        {targets[i] : i \in {j \in DOMAIN targets : Returned(j)}}
    BY <2>2
  <2> QED  BY <1>1, <1>2, <2>1, <2>3, <2>4, <2>5 DEF CollectedInv
<1> QED  BY <1>2, <1>3, <1>5, <1>6, RanInv

LEMMA ListedInv ==
  ASSUME IInv, Listed  PROVE IInv'
<1> DEFINE t == targets[turn]
<1>1. TypeOK /\ RunInv /\ CollectedInv
  BY DEF IInv
<1>2. /\ pc = "describe" /\ pc' = "target" /\ turn' = turn + 1
      /\ UNCHANGED <<images, generator, arguments, found, overlooked, any_failures, report>>
  BY DEF Listed, NextTarget, loaded
<1>3. PICK out \in {Output("listed", Described(t)), Output("silent", {})} :
          Collect(t, out.tests) /\ output' = [output EXCEPT ![turn] = out]
  BY DEF Listed
<1>4. /\ turn \in DOMAIN targets /\ output \in [DOMAIN targets -> Outputs]
      /\ output[turn] = NotRun /\ processed \in Seq(Targets) /\ t \in Targets
  <2>1. turn \in DOMAIN targets
    BY <1>1, <1>2, TargetsAre DEF TypeOK, RunInv
  <2>2. turn >= turn
    BY <1>1 DEF TypeOK
  <2> QED  BY <1>1, <2>1, <2>2 DEF TypeOK, RunInv, Targets
<1>5. /\ out \in Outputs /\ out.status \in {"listed", "silent"}
      /\ out.tests # {} => out.status = "listed"
  <2>1. Described(t) \subseteq Tests
    <3>1. Filter(t) \subseteq Tests
      BY <1>1, <1>2, <1>4, FilterIs DEF RunInv
    <3> QED  BY <3>1 DEF Described
  <2> DEFINE some == Output("listed", Described(t))
             none == Output("silent", {})
  <2>2. some \in Outputs /\ some.status = "listed"
    BY <1>1, <2>1 DEF Output, Outputs, Statuses, TypeOK
  <2>3. none \in Outputs /\ none.status = "silent" /\ none.tests = {}
    BY <1>1 DEF Output, Outputs, Statuses, TypeOK
  <2>4. out = some \/ out = none
    BY <1>3
  <2> HIDE DEF some, none
  <2> QED  BY ONLY <2>2, <2>3, <2>4
<1>6. /\ output' \in [DOMAIN targets -> Outputs] /\ output'[turn] = out
      /\ \A i \in DOMAIN targets : i # turn => output'[i] = output[i]
  BY <1>3, <1>4, <1>5
<1>7. /\ all_results' = all_results \cup (out.tests \X {t})
      /\ processed' \in Seq(Targets) /\ ToSet(processed') = ToSet(processed) \cup {t}
  <2>1. processed' = IF t \in ToSet(processed) THEN processed ELSE Append(processed, t)
    BY <1>3 DEF Collect
  <2> HIDE DEF t
  <2>2. /\ Append(processed, t) \in Seq(Targets)
        /\ ToSet(Append(processed, t)) = ToSet(processed) \cup {t}
    BY ONLY <1>4, AppendedSet
  <2> QED  BY <1>3, <1>4, <2>1, <2>2 DEF Collect
<1>8. output[turn].tests = {} /\ output[turn].status = "not run"
  <2>1. NotRun.tests = {} /\ NotRun.status = "not run"
    BY DEF NotRun
  <2> QED  BY ONLY <1>4, <2>1
<1>9. CollectedInv'
  <2>1. targets' = targets
    BY <1>2 DEF arguments
  <2>2. UNION {output'[i].tests \X {targets[i]} : i \in DOMAIN targets} =
        (UNION {output[i].tests \X {targets[i]} : i \in DOMAIN targets}) \cup (out.tests \X {t})
    <3> DEFINE F(i) == output[i].tests \X {targets[i]}
               G(i) == output'[i].tests \X {targets[i]}
    <3>1. \A i \in DOMAIN targets : i # turn => G(i) = F(i)
      BY <1>6
    <3>2. F(turn) = {} /\ G(turn) = out.tests \X {t}
      BY <1>6, <1>8
    <3> HIDE DEF F, G, t
    <3>3. ASSUME NEW x
          PROVE  (\E i \in DOMAIN targets : x \in G(i))
                 <=> (\E i \in DOMAIN targets : x \in F(i)) \/ x \in out.tests \X {t}
      <4>1. \A i \in DOMAIN targets : x \in G(i) => i = turn \/ x \in F(i)
        BY <3>1
      <4>2. x \in G(turn) <=> x \in out.tests \X {t}
        BY <3>2
      <4>3. \A i \in DOMAIN targets : x \in F(i) => i # turn /\ x \in G(i)
        BY <3>1, <3>2
      <4>4. turn \in DOMAIN targets
        BY <1>4
      <4> QED  BY ONLY <4>1, <4>2, <4>3, <4>4
    <3>4. UNION {G(i) : i \in DOMAIN targets} =
          (UNION {F(i) : i \in DOMAIN targets}) \cup (out.tests \X {t})
      <4> DEFINE A == UNION {G(i) : i \in DOMAIN targets}
                 B == UNION {F(i) : i \in DOMAIN targets}
      <4>1. /\ \A x : x \in A <=> \E i \in DOMAIN targets : x \in G(i)
            /\ \A x : x \in B <=> \E i \in DOMAIN targets : x \in F(i)
        OBVIOUS
      <4>2. \A x : x \in A <=> x \in B \/ x \in out.tests \X {t}
        BY ONLY <3>3, <4>1
      <4> HIDE DEF A, B
      <4>3. A = B \cup (out.tests \X {t})
        BY ONLY <4>2
      <4> QED  BY <4>3 DEF A, B
    <3> QED  BY <3>4 DEF F, G
  <2>3. {targets[i] : i \in {j \in DOMAIN targets : Returned(j)'}} =
        {targets[i] : i \in {j \in DOMAIN targets : Returned(j)}} \cup {t}
    <3>1. ASSUME NEW i \in DOMAIN targets  PROVE Returned(i)' <=> Returned(i) \/ i = turn
      <4>1. CASE i # turn
        BY <1>6, <4>1 DEF Returned
      <4>2. CASE i = turn
        <5>1. output'[i].status \in {"listed", "silent"}
          BY <1>5, <1>6, <4>2
        <5> QED  BY <4>2, <5>1 DEF Returned
      <4> QED  BY <4>1, <4>2
    <3> QED  BY <1>4, <3>1
  <2>4. \A i \in DOMAIN targets : output'[i].tests # {} => output'[i].status = "listed"
    BY <1>1, <1>5, <1>6 DEF CollectedInv
  <2>5. all_results' = UNION {output'[i].tests \X {targets[i]} : i \in DOMAIN targets}
    <3> DEFINE A == UNION {output'[i].tests \X {targets[i]} : i \in DOMAIN targets}
               B == UNION {output[i].tests \X {targets[i]} : i \in DOMAIN targets}
    <3>1. all_results = B
      BY <1>1 DEF CollectedInv
    <3>2. A = B \cup (out.tests \X {t})
      BY <2>2
    <3> HIDE DEF A, B, t
    <3>3. all_results' = A
      BY <1>7, <3>1, <3>2
    <3> QED  BY <3>3 DEF A
  <2>6. ToSet(processed') = {targets[i] : i \in {j \in DOMAIN targets : Returned(j)'}}
    BY <1>1, <1>7, <2>3 DEF CollectedInv
  <2> QED  BY ONLY <2>1, <2>4, <2>5, <2>6 DEF CollectedInv
<1>10. any_failures' \in BOOLEAN
  BY <1>1, <1>2 DEF TypeOK
<1>11. UNCHANGED <<images, generator, arguments, found, overlooked, report>>
  BY <1>2
<1> HIDE DEF t
<1> QED  BY <1>2, <1>6, <1>7, <1>9, <1>10, <1>11, RanInv

LEMMA TableInv ==
  ASSUME IInv, Generate  PROVE IInv'
<1>1. TypeOK /\ RunInv /\ CollectedInv /\ ReportInv
  BY DEF IInv
<1>2. /\ UNCHANGED <<registry, changes, ever, steady, asked, next, merged, files, flag,
                     targets,
                     path, turn, found, overlooked, all_results, processed, any_failures,
                     raw, output>>
      /\ pc = "target" /\ pc' = "success"
      /\ report' = report \/ report' = Table
  BY DEF Generate, images, generator, arguments, loaded, collected
<1>3. TypeOK'
  BY <1>1, <1>2 DEF TypeOK, Places, Targets
<1>4. RunInv' /\ CollectedInv'
  BY <1>1, <1>2, CollectedKept DEF RunInv
<1>5. ReportInv'
  <2>1. Table' = Table
    BY <1>2 DEF Table, Labels, Columns, UniqueTests, Cell, Variants, Exists, TargetCount, Counted,
                RawCount
  <2> QED  BY <1>1, <1>2, <2>1 DEF ReportInv
<1> QED  BY <1>3, <1>4, <1>5 DEF IInv

LEMMA StutterInv ==
  ASSUME IInv, UNCHANGED vars  PROVE IInv'
<1>1. TypeOK /\ RunInv /\ CollectedInv /\ ReportInv
  BY DEF IInv
<1>2. UNCHANGED <<registry, changes, ever, steady, asked, next, merged, files, flag,
                  targets, path,
                  pc, turn, found, overlooked, all_results, processed, any_failures, raw,
                  output, report>>
  BY DEF vars, images, generator, arguments, loaded, collected
<1>3. TypeOK'
  BY <1>1, <1>2 DEF TypeOK, Targets
<1>4. RunInv' /\ CollectedInv'
  BY <1>1, <1>2, CollectedKept DEF RunInv
<1>5. ReportInv'
  <2>1. Table' = Table
    BY <1>2 DEF Table, Labels, Columns, UniqueTests, Cell, Variants, Exists, TargetCount, Counted,
                RawCount
  <2> QED  BY <1>1, <1>2, <2>1 DEF ReportInv
<1> QED  BY <1>3, <1>4, <1>5 DEF IInv

(* The strengthened invariant holds in every reachable state, for any      *)
(* matrix and whatever the runs give.                                      *)
THEOREM Inductive == Spec => []IInv
<1>1. Init => IInv
  BY InitInv
<1>2. IInv /\ [Next]_vars => IInv'
  <2> SUFFICES ASSUME IInv, [Next]_vars  PROVE IInv'
    OBVIOUS
  <2>1. CASE Program
    BY <2>1, GenerateInv, StartInv, RunInvKept, ListedInv, FailedInv, TableInv DEF Program, Runs
  <2>2. CASE Registry
    BY <2>2, DeployInv DEF Registry
  <2>3. CASE Terminating \/ UNCHANGED vars
    BY <2>3, StutterInv DEF Terminating
  <2> QED  BY <2>1, <2>2, <2>3 DEF Next
<1> QED  BY <1>1, <1>2, PTL DEF Spec

-----------------------------------------------------------------------------
(* The table. *)

LEMMA ExistsIs ==
  ASSUME CollectedInv, NEW test
  PROVE  /\ test \in UniqueTests <=> \E i \in DOMAIN targets : test \in output[i].tests
         /\ \A label : Exists(test, label) <=> \E i \in HasLabel(label) : test \in output[i].tests
<1>1. \A r : r \in all_results <=>
             \E i \in DOMAIN targets : r \in output[i].tests \X {targets[i]}
  BY DEF CollectedInv
<1>2. test \in UniqueTests <=> \E i \in DOMAIN targets : test \in output[i].tests
  <2>1. ASSUME test \in UniqueTests
        PROVE  \E i \in DOMAIN targets : test \in output[i].tests
    <3>1. PICK r \in all_results : r[1] = test
      BY <2>1 DEF UniqueTests
    <3> QED  BY <1>1, <3>1
  <2>2. ASSUME NEW i \in DOMAIN targets, test \in output[i].tests
        PROVE  test \in UniqueTests
    <3> DEFINE r == <<test, targets[i]>>
    <3>1. r \in all_results /\ r[1] = test
      BY <1>1, <2>2
    <3> QED  BY <3>1 DEF UniqueTests
  <2> QED  BY <2>1, <2>2
<1>3. ASSUME NEW label
      PROVE  Exists(test, label) <=> \E i \in HasLabel(label) : test \in output[i].tests
  <2>1. ASSUME Exists(test, label)
        PROVE  \E i \in HasLabel(label) : test \in output[i].tests
    <3>1. PICK r \in all_results : r[1] = test /\ LabelOf(r[2]) = label
      BY <2>1 DEF Exists
    <3>2. PICK i \in DOMAIN targets : r \in output[i].tests \X {targets[i]}
      BY <1>1
    <3>3. r[2] = targets[i] /\ test \in output[i].tests
      BY <3>1, <3>2
    <3> QED  BY <3>1, <3>3 DEF HasLabel
  <2>2. ASSUME NEW i \in HasLabel(label), test \in output[i].tests
        PROVE  Exists(test, label)
    <3> DEFINE r == <<test, targets[i]>>
    <3>1. i \in DOMAIN targets /\ LabelOf(targets[i]) = label
      BY DEF HasLabel
    <3>2. r \in all_results /\ r[1] = test /\ r[2] = targets[i]
      BY <1>1, <2>2, <3>1
    <3> QED  BY <3>1, <3>2 DEF Exists
  <2> QED  BY <2>1, <2>2
<1> QED  BY <1>2, <1>3

LEMMA CellIs ==
  ASSUME CollectedInv, NEW row, NEW label
  PROVE  Cell(row, label) <=>
            \E i \in HasLabel(label) : \E t \in output[i].tests : Row(t) = row
<1>1. Cell(row, label) <=> \E test \in UniqueTests : Row(test) = row /\ Exists(test, label)
  BY DEF Cell, Variants
<1>2. HasLabel(label) \subseteq DOMAIN targets
  BY DEF HasLabel
<1> QED  BY <1>1, <1>2, ExistsIs

\* A column stands for a target, which was run when there is any test.
LEMMA ColumnsAre ==
  ASSUME TypeOK, CollectedInv
  PROVE  /\ Columns \in Seq(Targets) /\ Len(Columns) \in Nat
         /\ Labels(Columns) = [k \in 1..Len(Columns) |-> LabelOf(Columns[k])]
         /\ UniqueTests # {} =>
               \A k \in 1..Len(Columns) : \E i \in DOMAIN targets :
                  targets[i] = Columns[k] /\ Returned(i)
<1>1. processed \in Seq(Targets) /\ targets \in Seq(Targets)
  BY TargetsAre DEF TypeOK
<1>2. Columns \in Seq(Targets) /\ Len(Columns) \in Nat /\ DOMAIN Columns = 1..Len(Columns)
  <2>1. Columns \in Seq(Targets)
    BY <1>1 DEF Columns
  <2> QED  BY <2>1
<1>3. Labels(Columns) = [k \in 1..Len(Columns) |-> LabelOf(Columns[k])]
  BY <1>2 DEF Labels
<1>4. ASSUME UniqueTests # {}, NEW k \in 1..Len(Columns)
      PROVE  \E i \in DOMAIN targets : targets[i] = Columns[k] /\ Returned(i)
  <2>1. PICK j \in DOMAIN targets : output[j].tests # {}
    BY <1>4, ExistsIs
  <2>2. Returned(j)
    BY <2>1 DEF CollectedInv, Returned
  <2>3. targets[j] \in ToSet(processed)
    BY <2>2 DEF CollectedInv
  <2>4. processed # <<>>
    <3>1. ToSet(<<>>) = {}
      BY DEF ToSet
    <3> QED  BY <2>3, <3>1
  <2>5. Columns[k] \in ToSet(processed)
    BY <1>1, <2>4, ToSetIs DEF Columns
  <2> QED  BY <2>5 DEF CollectedInv
<1> QED  BY <1>2, <1>3, <1>4

\* The fields of the table.
LEMMA TableIs ==
  /\ Table.written = TRUE /\ Table.labels = Labels(Columns)
  /\ Table.rows = {Row(test) : test \in UniqueTests}
  /\ Table.yes = {c \in Table.rows \X ToSet(Table.labels) : Cell(c[1], c[2])}
  /\ Table.grouped = [l \in ToSet(Table.labels) |-> TargetCount(Table.rows, Table.labels, l)]
  /\ Table.raw = [l \in ToSet(Table.labels) |-> RawCount(l)]
BY DEF Table

LEMMA WrittenIs ==
  ASSUME ReportInv, report.written  PROVE report = Table
BY DEF ReportInv, NoReport

(* A cell of the table is a tick if and only if a run of a target with the *)
(* label of its column has listed a test of its row, and a column of a     *)
(* table with rows is never only of runs that have failed                  *)
(* (orchestrator.py:97-110, renderers.py:271-283).                         *)
THEOREM Cells == Spec => []CellsTrue
<1>1. IInv => CellsTrue
  <2> SUFFICES ASSUME IInv, report.written,
                      NEW row \in report.rows, NEW l \in ToSet(report.labels)
               PROVE  /\ <<row, l>> \in report.yes <=>
                            \E i \in HasLabel(l) : \E t \in output[i].tests : Row(t) = row
                      /\ \E i \in HasLabel(l) : Returned(i)
    BY DEF CellsTrue
  <2>1. TypeOK /\ CollectedInv /\ report = Table
    BY WrittenIs DEF IInv
  <2>2. <<row, l>> \in report.yes <=> Cell(row, l)
    <3>1. report.yes = {c \in report.rows \X ToSet(report.labels) : Cell(c[1], c[2])}
      BY <2>1, TableIs
    <3> QED  BY <3>1
  <2>3. \E i \in HasLabel(l) : Returned(i)
    <3>1. UniqueTests # {}
      BY <2>1, TableIs
    <3>2. PICK k \in 1..Len(Columns) : LabelOf(Columns[k]) = l
      <4>1. /\ report.labels = [k \in 1..Len(Columns) |-> LabelOf(Columns[k])]
            /\ Len(Columns) \in Nat
        BY <2>1, TableIs, ColumnsAre
      <4> QED  BY <4>1 DEF ToSet
    <3>3. PICK i \in DOMAIN targets : targets[i] = Columns[k] /\ Returned(i)
      BY <2>1, <3>1, ColumnsAre
    <3> QED  BY <3>2, <3>3 DEF HasLabel
  <2> QED  BY <2>1, <2>2, <2>3, CellIs
<1> QED  BY <1>1, Inductive, PTL

\* Pairs with one second element are as many as their first elements.
LEMMA PairedWith ==
  ASSUME NEW C, IsFiniteSet(C), NEW x
  PROVE  Cardinality({<<c, x>> : c \in C}) = Cardinality(C)
<1> DEFINE T == {<<c, x>> : c \in C}
           f == [c \in C |-> <<c, x>>]
<1>1. f \in [C -> T] /\ \A c \in C : f[c] = <<c, x>>
  OBVIOUS
<1>2. \A a, b \in C : f[a] = f[b] => a = b
  BY <1>1
<1>3. \A t \in T : \E c \in C : f[c] = t
  OBVIOUS
<1> HIDE DEF T, f
<1>4. f \in Bijection(C, T)
  BY <1>1, <1>2, <1>3 DEF Bijection, Injection, Surjection, IsInjective
<1>5. ExistsBijection(C, T)
  BY <1>4 DEF ExistsBijection
<1>6. Cardinality(T) = Cardinality(C)
  BY <1>5, FS_Bijection
<1> QED  BY <1>6 DEF T

\* The rows of a finite set of tests are not more than the tests.
LEMMA RowsOf ==
  ASSUME NEW D, IsFiniteSet(D)
  PROVE  /\ IsFiniteSet({Row(test) : test \in D})
         /\ Cardinality({Row(test) : test \in D}) <= Cardinality(D)
<1> DEFINE R == {Row(test) : test \in D}
           f == [test \in D |-> Row(test)]
<1>1. f \in [D -> R] /\ \A r \in R : \E test \in D : f[test] = r
  OBVIOUS
<1> HIDE DEF R, f
<1>2. f \in Surjection(D, R)
  BY <1>1 DEF Surjection
<1>3. IsFiniteSet(R) /\ Cardinality(R) <= Cardinality(D)
  BY <1>2, FS_Surjection
<1> QED  BY <1>3 DEF R

\* Columns with different labels count each row once.
LEMMA CountIs ==
  ASSUME NEW rows, NEW labels, IsInjective(labels), NEW l \in ToSet(labels),
         IsFiniteSet({row \in rows : Cell(row, l)})
  PROVE  TargetCount(rows, labels, l) = Cardinality({row \in rows : Cell(row, l)})
<1> DEFINE C == {row \in rows : Cell(row, l)}
<1>1. PICK k \in DOMAIN labels : labels[k] = l
  BY DEF ToSet
<1>2. {j \in DOMAIN labels : labels[j] = l} = {k}
  BY <1>1 DEF IsInjective
<1> DEFINE P == {Counted(row, l) \X {i} : row \in rows, i \in {j \in DOMAIN labels : labels[j] = l}}
<1>3. \A s : s \in P <=> \E row \in rows : s = Counted(row, l) \X {k}
  BY <1>2
<1>4. ASSUME NEW x  PROVE x \in UNION P <=> x \in {<<c, k>> : c \in C}
  <2>1. x \in UNION P <=> \E row \in rows : x \in Counted(row, l) \X {k}
    <3> DEFINE S(row) == Counted(row, l) \X {k}
    <3>1. x \in UNION P <=> \E s \in P : x \in s
      OBVIOUS
    <3> HIDE DEF P
    <3>2. \A s : s \in P <=> \E row \in rows : s = S(row)
      BY <1>3
    <3> HIDE DEF S
    <3>3. x \in UNION P <=> \E row \in rows : x \in S(row)
      BY ONLY <3>1, <3>2
    <3> QED  BY <3>3 DEF S
  <2>2. \A row : x \in Counted(row, l) \X {k} <=> Cell(row, l) /\ x = <<row, k>>
    BY DEF Counted
  <2> QED  BY <2>1, <2>2
<1>5. UNION P = {<<c, k>> : c \in C}
  <2> HIDE DEF P, C
  <2> QED  BY <1>4
<1>6. TargetCount(rows, labels, l) = Cardinality({<<c, k>> : c \in C})
  BY <1>5 DEF TargetCount
<1> HIDE DEF C
<1>7. IsFiniteSet(C)
  BY DEF C
<1> QED  BY <1>6, <1>7, PairedWith DEF C

(* When no two columns have one label, the totals of the table are those   *)
(* of its ticks and of the tests that ReFrame listed, and grouping tests   *)
(* into rows never adds any (renderers.py:158-162, 280-281).               *)
THEOREM Totals == Spec => []TotalsRight
<1>1. IInv => TotalsRight
  <2> SUFFICES ASSUME IInv, report.written, IsInjective(report.labels),
                      NEW l \in ToSet(report.labels)
               PROVE  /\ report.grouped[l] = Cardinality({c \in report.yes : c[2] = l})
                      /\ report.raw[l] = Cardinality(UNION {output[i].tests : i \in HasLabel(l)})
                      /\ report.grouped[l] <= report.raw[l]
    BY DEF TotalsRight
  <2>1. TypeOK /\ CollectedInv /\ report = Table
    BY WrittenIs DEF IInv
  <2> DEFINE C == {row \in report.rows : Cell(row, l)}
             D == {test \in UniqueTests : Exists(test, l)}
  <2>2. IsFiniteSet(D)
    <3>1. \A i \in DOMAIN targets : output[i].tests \subseteq Tests
      BY <2>1 DEF TypeOK, Outputs
    <3>2. D \in SUBSET Tests
      BY <2>1, <3>1, ExistsIs
    <3> HIDE DEF D
    <3> QED  BY <3>2, FS_Subset, ReporterAssumption
  <2>3. C = {Row(test) : test \in D}
    <3>1. report.rows = {Row(test) : test \in UniqueTests}
      BY <2>1, TableIs
    <3>2. \A row : Cell(row, l) <=> \E test \in UniqueTests : Row(test) = row /\ Exists(test, l)
      BY DEF Cell, Variants
    <3> QED  BY <3>1, <3>2
  <2> HIDE DEF C, D
  <2>4. IsFiniteSet(C) /\ Cardinality(C) <= Cardinality(D)
    BY <2>2, <2>3, RowsOf
  <2>5. report.grouped[l] = Cardinality(C)
    <3>1. report.grouped[l] = TargetCount(report.rows, report.labels, l)
      BY <2>1, TableIs
    <3>2. TargetCount(report.rows, report.labels, l) = Cardinality(C)
      BY <2>4, CountIs DEF C
    <3> QED  BY <3>1, <3>2
  <2>6. {c \in report.yes : c[2] = l} = {<<row, l>> : row \in C}
    <3>1. report.yes = {c \in report.rows \X ToSet(report.labels) : Cell(c[1], c[2])}
      BY <2>1, TableIs
    <3> QED  BY <3>1 DEF C
  <2>7. report.raw[l] = Cardinality(D)
    BY <2>1, TableIs DEF RawCount, D
  <2>8. D = UNION {output[i].tests : i \in HasLabel(l)}
    <3>1. ASSUME NEW x  PROVE x \in D <=> \E i \in HasLabel(l) : x \in output[i].tests
      <4>1. HasLabel(l) \subseteq DOMAIN targets
        BY DEF HasLabel
      <4> QED  BY <2>1, <4>1, ExistsIs DEF D
    <3> QED  BY <3>1
  <2>9. Cardinality({c \in report.yes : c[2] = l}) = Cardinality(C)
    BY <2>4, <2>6, PairedWith
  <2> QED  BY <2>4, <2>5, <2>7, <2>8, <2>9
<1> QED  BY <1>1, Inductive, PTL

-----------------------------------------------------------------------------
(* What the loader makes of an inventory. *)

\* Induction, for a set of naturals.
LEMMA NatSetInduction ==
  ASSUME NEW S \in SUBSET Nat, 0 \in S, \A n \in Nat : n \in S => n + 1 \in S
  PROVE  S = Nat
<1> DEFINE R == OpToRel(<, Nat)
<1>1. SUFFICES ASSUME Nat \ S # {}  PROVE FALSE
  OBVIOUS
<1>2. IsWellFoundedOn(R, Nat)
  BY NatLessThanWellFounded
<1>3. PICK n \in Nat \ S : \A m \in Nat \ S : ~(<<m, n>> \in R)
  <2>1. Nat \ S \in SUBSET Nat
    OBVIOUS
  <2> QED  BY <1>1, <1>2, <2>1, WFMin
<1>4. n - 1 \in Nat
  <2> HIDE DEF R
  <2>1. n # 0
    BY <1>3
  <2> QED  BY <1>3, <2>1
<1>5. <<n - 1, n>> \in R
  BY <1>3, <1>4 DEF OpToRel
<1> HIDE DEF R
<1>6. n - 1 \in S
  BY <1>3, <1>4, <1>5
<1> QED  BY <1>3, <1>4, <1>6

\* A sequence of values, each made of the one before.
Steps(V) == [Nat -> [V -> V]]
Iterates(g, V, v, step) ==
  g \in [Nat -> V] /\ g[0] = v /\ \A n \in Nat : g[n + 1] = step[n][g[n]]

LEMMA Recursion ==
  ASSUME NEW V, NEW v \in V, NEW step \in Steps(V)
  PROVE  \E g : Iterates(g, V, v, step)
<1> USE DEF Steps
<1> DEFINE G(n) == {h \in [0..n -> V] : h[0] = v /\ \A i \in 0..n - 1 : h[i + 1] = step[i][h[i]]}
           S == {n \in Nat : \E h \in [0..n -> V] :
                   /\ h \in G(n)
                   /\ \A m \in Nat : n <= m => \A k \in G(m) : k[n] = h[n]}
<1>1. 0 \in S
  <2> DEFINE h == [i \in 0..0 |-> v]
  <2>1. h \in [0..0 -> V] /\ h[0] = v /\ 0..0 - 1 = {}
    OBVIOUS
  <2>2. h \in G(0)
    BY <2>1
  <2>3. \A m \in Nat : \A k \in G(m) : k[0] = h[0]
    BY <2>1
  <2> QED  BY <2>1, <2>2, <2>3
<1>2. ASSUME NEW n \in Nat, n \in S  PROVE n + 1 \in S
  <2>1. PICK h \in [0..n -> V] : h \in G(n) /\ \A m \in Nat : n <= m => \A k \in G(m) : k[n] = h[n]
    BY <1>2
  <2> DEFINE w == step[n][h[n]]
             j == [i \in 0..n + 1 |-> IF i <= n THEN h[i] ELSE w]
  <2>2. w \in V /\ n \in 0..n
    BY <2>1
  <2>3. /\ j \in [0..n + 1 -> V] /\ j[n + 1] = w /\ j[0] = h[0]
        /\ \A i \in 0..n : j[i] = h[i]
    BY <2>1, <2>2
  <2>4. j \in G(n + 1)
    <3>1. \A i \in 0..n : j[i + 1] = step[i][j[i]]
      <4> SUFFICES ASSUME NEW i \in 0..n  PROVE j[i + 1] = step[i][j[i]]
        OBVIOUS
      <4>1. CASE i = n
        BY <2>2, <2>3, <4>1
      <4>2. CASE i # n
        <5>1. i \in 0..n - 1 /\ i + 1 \in 0..n
          BY <4>2
        <5> HIDE DEF j, w
        <5> QED  BY <2>1, <2>3, <5>1
      <4> QED  BY <4>1, <4>2
    <3>2. (n + 1) - 1 = n
      OBVIOUS
    <3>3. j[0] = v
      BY <2>1, <2>3
    <3> HIDE DEF j, w
    <3> QED  BY <2>3, <3>1, <3>2, <3>3
  <2>5. ASSUME NEW m \in Nat, n + 1 <= m, NEW k \in G(m)  PROVE k[n + 1] = j[n + 1]
    <3>1. n \in 0..m - 1 /\ n <= m
      BY <2>5
    <3>2. k[n + 1] = step[n][k[n]]
      BY <3>1
    <3>3. k[n] = h[n]
      BY <2>1, <3>1
    <3> QED  BY <2>3, <3>2, <3>3
  <2> HIDE DEF G, j
  <2> QED  BY <2>3, <2>4, <2>5
<1>3. S = Nat
  <2>1. S \in SUBSET Nat
    OBVIOUS
  <2> HIDE DEF S
  <2> QED  BY ONLY <1>1, <1>2, <2>1, NatSetInduction
<1> DEFINE g == [n \in Nat |-> (CHOOSE h : h \in G(n))[n]]
<1>4. \A n \in Nat : (CHOOSE h : h \in G(n)) \in G(n)
  <2>1. \A n \in Nat : \E h : h \in G(n)
    BY <1>3
  <2> HIDE DEF G
  <2> QED  BY <2>1
<1>5. \A n \in Nat : \A m \in Nat : n <= m => \A k \in G(m) : k[n] = g[n]
  <2> SUFFICES ASSUME NEW n \in Nat, NEW m \in Nat, n <= m, NEW k \in G(m)  PROVE k[n] = g[n]
    OBVIOUS
  <2>1. PICK h \in [0..n -> V] : h \in G(n) /\ \A l \in Nat : n <= l => \A x \in G(l) : x[n] = h[n]
    BY <1>3
  <2> HIDE DEF G
  <2>2. n <= n
    OBVIOUS
  <2>3. (CHOOSE x : x \in G(n))[n] = h[n]
    BY <1>4, <2>1, <2>2
  <2>4. k[n] = h[n]
    BY <2>1
  <2> QED  BY <2>3, <2>4
<1>6. \A n \in Nat : g[n] \in V
  <2> SUFFICES ASSUME NEW n \in Nat  PROVE (CHOOSE h : h \in G(n))[n] \in V
    OBVIOUS
  <2> DEFINE c == CHOOSE h : h \in G(n)
  <2>1. c \in G(n)
    BY <1>4
  <2> HIDE DEF c
  <2>2. c \in [0..n -> V] /\ n \in 0..n
    BY <2>1
  <2>3. c[n] \in V
    BY <2>2
  <2> QED  BY <2>3 DEF c
<1>7. g[0] = v
  <2> DEFINE c == CHOOSE h : h \in G(0)
  <2>1. c \in G(0)
    BY <1>4
  <2> HIDE DEF c
  <2>2. c[0] = v
    BY <2>1
  <2> QED  BY <2>2 DEF c
<1>8. ASSUME NEW n \in Nat  PROVE g[n + 1] = step[n][g[n]]
  <2> DEFINE c == CHOOSE h : h \in G(n + 1)
  <2>1. c \in G(n + 1)
    <3>1. n + 1 \in Nat
      OBVIOUS
    <3> HIDE DEF G
    <3> QED  BY <1>4, <3>1
  <2> HIDE DEF c
  <2>2. c[n + 1] = step[n][c[n]]
    BY <2>1
  <2>3. c[n + 1] = g[n + 1] /\ c[n] = g[n]
    <3>1. n <= n + 1 /\ n + 1 <= n + 1 /\ n + 1 \in Nat
      OBVIOUS
    <3> HIDE DEF G, g
    <3> QED  BY <1>5, <2>1, <3>1
  <2> QED  BY <2>2, <2>3
<1>9. g \in [Nat -> V]
  BY <1>6
<1> HIDE DEF g
<1>10. Iterates(g, V, v, step)
  BY <1>7, <1>8, <1>9 DEF Iterates
<1> QED  BY <1>10

LEMMA ConcatSet ==
  ASSUME NEW T, NEW p \in Seq(T), NEW q \in Seq(T)
  PROVE  /\ p \o q \in Seq(T)
         /\ \A x : x \in ToSet(p \o q) <=> x \in ToSet(p) \/ x \in ToSet(q)
<1> DEFINE c == p \o q
<1>1. /\ c \in Seq(T) /\ Len(p) \in Nat /\ Len(q) \in Nat /\ Len(c) = Len(p) + Len(q)
      /\ \A i \in 1..Len(p) : c[i] = p[i]
      /\ \A i \in 1..Len(q) : c[Len(p) + i] = q[i]
  OBVIOUS
<1> HIDE DEF c
<1>2. \A x : /\ x \in ToSet(p) <=> \E i \in 1..Len(p) : p[i] = x
             /\ x \in ToSet(q) <=> \E i \in 1..Len(q) : q[i] = x
  BY ToSetIs
<1>3. \A x : x \in ToSet(c) <=> \E i \in 1..Len(c) : c[i] = x
  BY ONLY <1>1, ToSetIs
<1>4. ASSUME NEW x  PROVE x \in ToSet(c) <=> x \in ToSet(p) \/ x \in ToSet(q)
  <2>1. ASSUME x \in ToSet(c)  PROVE x \in ToSet(p) \/ x \in ToSet(q)
    <3>1. PICK i \in 1..Len(c) : c[i] = x
      BY <1>3, <2>1
    <3>2. CASE i <= Len(p)
      <4>1. i \in 1..Len(p)
        BY <1>1, <3>2
      <4> QED  BY <1>1, <1>2, <3>1, <4>1
    <3>3. CASE i > Len(p)
      <4>1. i - Len(p) \in 1..Len(q) /\ i = Len(p) + (i - Len(p))
        BY <1>1, <3>3
      <4> QED  BY <1>1, <1>2, <3>1, <4>1
    <3> QED  BY <1>1, <3>2, <3>3
  <2>2. ASSUME x \in ToSet(p)  PROVE x \in ToSet(c)
    <3>1. PICK i \in 1..Len(p) : p[i] = x
      BY <1>2, <2>2
    <3>2. i \in 1..Len(c)
      BY <1>1
    <3> QED  BY <1>1, <1>3, <3>1, <3>2
  <2>3. ASSUME x \in ToSet(q)  PROVE x \in ToSet(c)
    <3>1. PICK i \in 1..Len(q) : q[i] = x
      BY <1>2, <2>3
    <3>2. Len(p) + i \in 1..Len(c)
      BY <1>1
    <3> QED  BY <1>1, <1>3, <3>1, <3>2
  <2> QED  BY <2>1, <2>2, <2>3
<1> QED  BY <1>1, <1>4 DEF c

NamedIn(E, N) == \A e \in E : e.name \in N

\* The names of the environments that are valid on a system.
LEMMA NamesIs ==
  ASSUME NEW N, NEW E, NEW es \in Seq(E), NamedIn(E, N), NEW system
  PROVE  /\ ValidNames(es, system) \in Seq(N)
         /\ \A x : x \in ToSet(ValidNames(es, system)) <=>
               \E i \in 1..Len(es) : ValidOn(es[i], system) /\ es[i].name = x
<1> DEFINE L == Len(es)
           OK(n) == n <= L /\ ValidOn(es[n], system)
           step == [n \in Nat |-> [q \in Seq(N) |->
                       IF OK(n + 1) THEN Append(q, es[n + 1].name) ELSE q]]
<1>1. L \in Nat /\ \A n \in 1..L : es[n].name \in N
  <2>1. \A n \in 1..L : es[n] \in E
    OBVIOUS
  <2> QED  BY <2>1 DEF NamedIn
<1> HIDE DEF L
<1>2. <<>> \in Seq(N) /\ ToSet(<<>>) = {}
  BY DEF ToSet
<1>3. step \in [Nat -> [Seq(N) -> Seq(N)]]
  <2> SUFFICES ASSUME NEW n \in Nat, NEW q \in Seq(N), OK(n + 1)
               PROVE  Append(q, es[n + 1].name) \in Seq(N)
    OBVIOUS
  <2>1. n + 1 \in 1..L
    BY <1>1
  <2>2. es[n + 1].name \in N
    BY <1>1, <2>1
  <2> QED  BY <2>2
<1>4. PICK g \in [Nat -> Seq(N)] : g[0] = <<>> /\ \A n \in Nat : g[n + 1] = step[n][g[n]]
  <2> DEFINE V == Seq(N)
             v == <<>>
  <2>1. v \in V /\ step \in Steps(V)
    BY <1>2, <1>3 DEF Steps
  <2> HIDE DEF step, V, v
  <2>2. PICK g : Iterates(g, V, v, step)
    BY ONLY <2>1, Recursion
  <2> QED  BY <2>2 DEF Iterates, V, v
<1>5. \A n \in Nat : g[n + 1] = IF OK(n + 1) THEN Append(g[n], es[n + 1].name) ELSE g[n]
  BY <1>4
<1> HIDE DEF step
<1> DEFINE Holds(f) == f = [n \in 0..L |->
                         IF n = 0 THEN <<>>
                         ELSE IF ValidOn(es[n], system) THEN Append(f[n - 1], es[n].name)
                         ELSE f[n - 1]]
           names == CHOOSE f : Holds(f)
<1>6. Holds([n \in 0..L |-> g[n]])
  <2>1. ASSUME NEW n \in 1..L
        PROVE  g[n] = IF ValidOn(es[n], system) THEN Append(g[n - 1], es[n].name) ELSE g[n - 1]
    <3>1. n - 1 \in Nat /\ (n - 1) + 1 = n /\ n <= L
      BY <1>1
    <3> QED  BY <1>5, <3>1
  <2>2. \A n \in 1..L : n - 1 \in 0..L
    BY <1>1
  <2>3. \A n \in 0..L : n # 0 => n \in 1..L
    BY <1>1
  <2> QED  BY <1>4, <2>1, <2>2, <2>3
<1>7. Holds(names)
  <2> HIDE DEF Holds
  <2> QED  BY <1>6
<1>8. ValidNames(es, system) = names[L]
  BY DEF ValidNames, L
<1> HIDE DEF names
<1>9. /\ names[0] = <<>>
      /\ \A n \in 1..L : names[n] = IF ValidOn(es[n], system) THEN Append(names[n - 1], es[n].name)
                                    ELSE names[n - 1]
  <2>1. \A n \in 0..L : names[n] = IF n = 0 THEN <<>>
                              ELSE IF ValidOn(es[n], system)
                              THEN Append(names[n - 1], es[n].name)
                              ELSE names[n - 1]
    BY <1>7
  <2>2. 0 \in 0..L /\ \A n \in 1..L : n \in 0..L /\ n # 0
    BY <1>1
  <2> QED  BY <1>1, <2>1, <2>2
<1> DEFINE S == {n \in Nat : n <= L =>
                    /\ names[n] \in Seq(N)
                    /\ \A x : x \in ToSet(names[n]) <=>
                          \E i \in 1..n : ValidOn(es[i], system) /\ es[i].name = x}
<1>10. S = Nat
  <2>1. 0 \in S
    <3>1. names[0] \in Seq(N) /\ ToSet(names[0]) = {} /\ 1..0 = {}
      BY <1>2, <1>9
    <3> QED  BY <3>1
  <2>2. ASSUME NEW n \in Nat, n \in S  PROVE n + 1 \in S
    <3> SUFFICES ASSUME n + 1 <= L
                 PROVE  /\ names[n + 1] \in Seq(N)
                        /\ \A x : x \in ToSet(names[n + 1]) <=>
                              \E i \in 1..n + 1 : ValidOn(es[i], system) /\ es[i].name = x
      OBVIOUS
    <3>1. n + 1 \in 1..L /\ (n + 1) - 1 = n /\ n <= L /\ 1..n + 1 = 1..n \cup {n + 1}
      BY <1>1
    <3> DEFINE q == names[n]
               y == es[n + 1].name
    <3>2. /\ q \in Seq(N)
          /\ \A x : x \in ToSet(q) <=> \E i \in 1..n : ValidOn(es[i], system) /\ es[i].name = x
      BY <2>2, <3>1
    <3>3. y \in N
      BY <1>1, <3>1
    <3>4. names[n + 1] = IF ValidOn(es[n + 1], system) THEN Append(q, y) ELSE q
      BY <1>9, <3>1
    <3> HIDE DEF q, y
    <3>5. Append(q, y) \in Seq(N) /\ ToSet(Append(q, y)) = ToSet(q) \cup {y}
      BY ONLY <3>2, <3>3, AppendedSet
    <3>6. CASE ValidOn(es[n + 1], system)
      BY <3>1, <3>2, <3>4, <3>5, <3>6 DEF y
    <3>7. CASE ~ValidOn(es[n + 1], system)
      BY <3>1, <3>2, <3>4, <3>7
    <3> QED  BY <3>6, <3>7
  <2>3. S \in SUBSET Nat
    OBVIOUS
  <2> HIDE DEF S
  <2> QED  BY ONLY <2>1, <2>2, <2>3, NatSetInduction
<1>11. L \in S
  BY <1>1, <1>10
<1>12. L <= L
  BY <1>1
<1> QED  BY <1>8, <1>11, <1>12 DEF L

\* The elements of sequences put one after the other.
LEMMA FlattenIs ==
  ASSUME NEW T, NEW qs \in Seq(Seq(T))
  PROVE  /\ FlattenSeq(qs) \in Seq(T)
         /\ \A x : x \in ToSet(FlattenSeq(qs)) <=> \E i \in 1..Len(qs) : x \in ToSet(qs[i])
<1> DEFINE L == Len(qs)
           step == [n \in Nat |-> [q \in Seq(T) |-> IF n + 1 <= L THEN q \o qs[n + 1] ELSE q]]
<1>1. L \in Nat /\ \A n \in 1..L : qs[n] \in Seq(T)
  OBVIOUS
<1>2. <<>> \in Seq(T) /\ ToSet(<<>>) = {} /\ \A q \in Seq(T) : <<>> \o q = q
  BY DEF ToSet
<1>a. CASE L = 0
  <2>1. qs = <<>>
    BY <1>a
  <2>2. FlattenSeq(qs) = <<>> /\ 1..Len(qs) = {}
    BY <1>a, <2>1 DEF FlattenSeq
  <2> QED  BY <1>2, <2>2
<1>b. CASE L # 0
  <2> HIDE DEF L
  <2>1. step \in [Nat -> [Seq(T) -> Seq(T)]]
    <3> SUFFICES ASSUME NEW n \in Nat, NEW q \in Seq(T), n + 1 <= L
                 PROVE  q \o qs[n + 1] \in Seq(T)
      OBVIOUS
    <3>1. n + 1 \in 1..L
      BY <1>1
    <3>2. qs[n + 1] \in Seq(T)
      BY <1>1, <3>1
    <3> QED  BY <3>2, ConcatSet
  <2>2. PICK g \in [Nat -> Seq(T)] : g[0] = <<>> /\ \A n \in Nat : g[n + 1] = step[n][g[n]]
    <3> DEFINE V == Seq(T)
               v == <<>>
    <3>1. v \in V /\ step \in Steps(V)
      BY <1>2, <2>1 DEF Steps
    <3> HIDE DEF step, V, v
    <3>2. PICK g : Iterates(g, V, v, step)
      BY ONLY <3>1, Recursion
    <3> QED  BY <3>2 DEF Iterates, V, v
  <2>3. \A n \in Nat : n + 1 <= L => g[n + 1] = g[n] \o qs[n + 1]
    BY <2>2
  <2> HIDE DEF step
  <2> DEFINE Holds(f) == f = [i \in 1..L |-> IF i = 1 THEN qs[i] ELSE f[i - 1] \o qs[i]]
             flatten == CHOOSE f : Holds(f)
  <2>4. \A n \in 1..L : n - 1 \in Nat /\ (n - 1) + 1 = n /\ n <= L /\ (n # 1 => n - 1 \in 1..L)
    BY <1>1
  <2>5. \A n \in 1..L : g[n] = IF n = 1 THEN qs[n] ELSE g[n - 1] \o qs[n]
    <3> SUFFICES ASSUME NEW n \in 1..L  PROVE g[n] = IF n = 1 THEN qs[n] ELSE g[n - 1] \o qs[n]
      OBVIOUS
    <3>1. g[n] = g[n - 1] \o qs[n]
      BY <2>3, <2>4
    <3>2. CASE n = 1
      <4>1. g[n - 1] = <<>>
        BY <2>2, <3>2
      <4>2. qs[n] \in Seq(T)
        BY <1>1
      <4>3. g[n] = <<>> \o qs[n]
        BY <3>1, <4>1
      <4> QED  BY <1>2, <3>2, <4>2, <4>3
    <3> QED  BY <3>1, <3>2
  <2>6. Holds([n \in 1..L |-> g[n]])
    BY <2>4, <2>5
  <2>7. Holds(flatten)
    <3> HIDE DEF Holds
    <3> QED  BY <2>6
  <2>8. FlattenSeq(qs) = flatten[L]
    BY <1>b DEF FlattenSeq, L
  <2> HIDE DEF flatten
  <2>9. \A n \in 1..L : flatten[n] = IF n = 1 THEN qs[n] ELSE flatten[n - 1] \o qs[n]
    BY <2>7
  <2> DEFINE Right(n) == /\ flatten[n] \in Seq(T)
                         /\ \A x : x \in ToSet(flatten[n]) <=>
                               \E i \in 1..n : x \in ToSet(qs[i])
             S == {n \in Nat : n + 1 <= L => Right(n + 1)}
  <2>10. S = Nat
    <3>1. 0 \in S
      <4>1. 1 \in 1..L /\ 1..1 = {1}
        BY <1>1, <1>b
      <4>2. flatten[1] = qs[1] /\ qs[1] \in Seq(T)
        BY <1>1, <2>9, <4>1
      <4> QED  BY <4>1, <4>2
    <3>2. ASSUME NEW n \in Nat, n \in S  PROVE n + 1 \in S
      <4> DEFINE m == n + 1
      <4>0. m \in Nat /\ m \in 1..m /\ m # 0
        OBVIOUS
      <4> SUFFICES ASSUME m + 1 <= L  PROVE Right(m + 1)
        <5> HIDE DEF Right
        <5> QED  BY <4>0
      <4>1. m <= L
        BY <1>1
      <4>2. /\ flatten[m] \in Seq(T)
            /\ \A x : x \in ToSet(flatten[m]) <=> \E i \in 1..m : x \in ToSet(qs[i])
        BY <3>2, <4>1
      <4> HIDE DEF m
      <4>3. m + 1 \in 1..L /\ (m + 1) - 1 = m /\ m + 1 # 1 /\ 1..m + 1 = 1..m \cup {m + 1}
        BY <1>1, <4>0
      <4>4. flatten[m + 1] = flatten[m] \o qs[m + 1] /\ qs[m + 1] \in Seq(T)
        BY <1>1, <2>9, <4>3
      <4> DEFINE p == flatten[m]
                 q == qs[m + 1]
                 c == p \o q
      <4>5. p \in Seq(T) /\ q \in Seq(T)
        BY <4>2, <4>4
      <4> HIDE DEF p, q
      <4>6. c \in Seq(T) /\ \A x : x \in ToSet(c) <=> x \in ToSet(p) \/ x \in ToSet(q)
        BY ONLY <4>5, ConcatSet
      <4> HIDE DEF c
      <4>7. flatten[m + 1] = c
        BY <4>4 DEF c, p, q
      <4> QED  BY <4>2, <4>3, <4>6, <4>7 DEF p, q
    <3>3. S \in SUBSET Nat
      OBVIOUS
    <3> HIDE DEF S
    <3> QED  BY ONLY <3>1, <3>2, <3>3, NatSetInduction
  <2>11. L - 1 \in Nat /\ (L - 1) + 1 = L /\ L <= L
    BY <1>1, <1>b
  <2>12. Right(L)
    <3>1. L - 1 \in S
      <4> HIDE DEF S
      <4> QED  BY <2>10, <2>11
    <3> HIDE DEF Right
    <3> QED  BY <2>11, <3>1
  <2> QED  BY <2>8, <2>12 DEF L
<1> QED  BY <1>a, <1>b

\* The recipes, each once.
LEMMA RecipesFoundIs ==
  /\ RecipesFound \in Seq(Recipes) /\ Len(RecipesFound) \in Nat
  /\ DOMAIN RecipesFound = 1..Len(RecipesFound)
  /\ \A recipe \in Recipes : \E i \in 1..Len(RecipesFound) : RecipesFound[i] = recipe
<1> DEFINE n == Cardinality(Recipes)
           f == RecipesFound
<1>1. n \in Nat /\ ExistsBijection(1..n, Recipes)
  BY FS_CardinalityType, ReporterAssumption
<1>2. \E h \in [1..n -> Recipes] : IsInjective(h)
  BY <1>1 DEF ExistsBijection, Bijection, Injection, IsInjective
<1>3. f \in [1..n -> Recipes] /\ IsInjective(f)
  BY <1>2 DEF RecipesFound, SetToSeq
<1> HIDE DEF f
<1>4. f \in Injection(1..n, Recipes)
  BY <1>3 DEF Injection, IsInjective
<1>5. Cardinality(1..n) = n
  <2> HIDE DEF n
  <2>1. 1 \in Int /\ n \in Int
    BY <1>1
  <2>2. Cardinality(1..n) = IF 1 > n THEN 0 ELSE n - 1 + 1
    BY <2>1, FS_Interval
  <2> QED  BY <1>1, <2>2
<1>6. f \in Surjection(1..n, Recipes)
  BY <1>4, <1>5, FS_Injection, ReporterAssumption
<1>7. \A recipe \in Recipes : \E i \in 1..n : f[i] = recipe
  BY <1>6 DEF Surjection
<1> HIDE DEF n
<1>8. f \in Seq(Recipes) /\ Len(f) = n /\ DOMAIN f = 1..n
  BY <1>1, <1>3
<1> QED  BY <1>1, <1>7, <1>8 DEF f

\* The environments of one recipe.
LEMMA RecipeEnvironmentsAre ==
  ASSUME NEW recipe \in Recipes, NEW records
  PROVE  LET systems == RecipeTargetSystems(recipe, records)
             envs == RecipeEnvironments(recipe, records)
         IN  /\ envs \in Seq(ToSet(envs))
             /\ \A x : x \in ToSet(envs) <=>
                   /\ recipe \notin overlooked /\ systems # {}
                   /\ \E key \in ToSet(RecipeEnvs[recipe]) :
                         x = Environment(<<recipe, key>>, recipe, systems)
<1> DEFINE systems == RecipeTargetSystems(recipe, records)
           keys == RecipeEnvs[recipe]
           envs == RecipeEnvironments(recipe, records)
           Env(key) == Environment(<<recipe, key>>, recipe, systems)
<1>1. keys \in Seq({keys[i] : i \in DOMAIN keys})
  BY ReporterAssumption
<1>2. envs = IF recipe \in overlooked \/ systems = {} THEN <<>>
             ELSE [k \in DOMAIN keys |-> Env(keys[k])]
  BY DEF RecipeEnvironments
<1> HIDE DEF systems, keys, envs, Env
<1>3. DOMAIN keys = 1..Len(keys) /\ Len(keys) \in Nat
  BY <1>1
<1>4. CASE recipe \in overlooked \/ systems = {}
  <2>1. envs = <<>>
    BY <1>2, <1>4
  <2>2. ToSet(<<>>) = {} /\ <<>> \in Seq({})
    BY DEF ToSet
  <2>3. envs \in Seq(ToSet(envs)) /\ ToSet(envs) = {}
    BY <2>1, <2>2
  <2> QED  BY <1>4, <2>3 DEF systems, keys, envs, Env
<1>5. CASE recipe \notin overlooked /\ systems # {}
  <2>1. envs = [k \in 1..Len(keys) |-> Env(keys[k])]
    BY <1>2, <1>3, <1>5
  <2>2. \A x : x \in ToSet(envs) <=> \E k \in 1..Len(keys) : x = Env(keys[k])
    BY <2>1 DEF ToSet
  <2>3. \A key : key \in ToSet(keys) <=> \E k \in 1..Len(keys) : key = keys[k]
    BY <1>3 DEF ToSet
  <2>4. \A k \in 1..Len(keys) : Env(keys[k]) \in ToSet(envs)
    BY <2>2
  <2>5. envs \in Seq(ToSet(envs))
    <3> DEFINE S == ToSet(envs)
    <3> HIDE DEF S
    <3>1. envs \in Seq(S)
      BY <1>3, <2>1, <2>4 DEF S
    <3> QED  BY <3>1 DEF S
  <2>6. \A x : x \in ToSet(envs) <=> \E key \in ToSet(keys) : x = Env(key)
    BY <2>2, <2>3
  <2> QED  BY <1>5, <2>5, <2>6 DEF systems, keys, envs, Env
<1> QED  BY <1>4, <1>5

LoadedFrom(records) == UNION {ToSet(RecipeEnvironments(recipe, records)) : recipe \in Recipes}

\* The environments that the loader makes.
LEMMA LoadedIs ==
  ASSUME NEW records
  PROVE  /\ LoadRecipes(records) \in Seq(LoadedFrom(records))
         /\ \A x : x \in ToSet(LoadRecipes(records)) <=>
               /\ path # None
               /\ \E recipe \in Recipes : x \in ToSet(RecipeEnvironments(recipe, records))
<1> DEFINE T == LoadedFrom(records)
           qs == [i \in DOMAIN RecipesFound |-> RecipeEnvironments(RecipesFound[i], records)]
<1>1. CASE path = None
  <2>1. LoadRecipes(records) = <<>> /\ ToSet(<<>>) = {} /\ <<>> \in Seq(T)
    BY <1>1 DEF LoadRecipes, ToSet
  <2> QED  BY <1>1, <2>1
<1>2. CASE path # None
  <2>1. LoadRecipes(records) = FlattenSeq(qs)
    BY <1>2 DEF LoadRecipes
  <2>2. \A recipe \in Recipes : RecipeEnvironments(recipe, records) \in Seq(T)
    <3> SUFFICES ASSUME NEW recipe \in Recipes  PROVE RecipeEnvironments(recipe, records) \in Seq(T)
      OBVIOUS
    <3> DEFINE envs == RecipeEnvironments(recipe, records)
               S == ToSet(envs)
    <3>1. envs \in Seq(S)
      BY RecipeEnvironmentsAre
    <3>2. S \subseteq T
      BY DEF LoadedFrom
    <3> HIDE DEF envs, S, T
    <3>3. envs \in Seq(T)
      BY <3>1, <3>2
    <3> QED  BY <3>3 DEF envs
  <2>3. /\ qs \in Seq(Seq(T)) /\ Len(qs) = Len(RecipesFound)
        /\ \A i \in 1..Len(RecipesFound) :
              RecipesFound[i] \in Recipes /\ qs[i] = RecipeEnvironments(RecipesFound[i], records)
    <3>1. \A i \in 1..Len(RecipesFound) : RecipesFound[i] \in Recipes
      BY RecipesFoundIs
    <3> HIDE DEF T
    <3> QED  BY <2>2, <3>1, RecipesFoundIs
  <2> HIDE DEF qs, T
  <2>4. /\ FlattenSeq(qs) \in Seq(T)
        /\ \A x : x \in ToSet(FlattenSeq(qs)) <=> \E i \in 1..Len(qs) : x \in ToSet(qs[i])
    BY ONLY <2>3, FlattenIs
  <2>5. ASSUME NEW x
        PROVE  (\E i \in 1..Len(qs) : x \in ToSet(qs[i])) <=>
                  \E recipe \in Recipes : x \in ToSet(RecipeEnvironments(recipe, records))
    BY <2>3, RecipesFoundIs
  <2> QED  BY <1>2, <2>1, <2>4, <2>5 DEF T
<1> QED  BY <1>1, <1>2

\* The environments of a partition.
LEMMA EnvironsAre ==
  ASSUME NEW E, NEW es \in Seq(E), NEW p \in Partitions
  PROVE  \A x : x \in ToSet(Environs(es, p)) <=>
            \/ x \in ToSet(BaseEnvirons[p])
            \/ /\ p \in HasUenv
               /\ \E i \in 1..Len(es) : ValidOn(es[i], SystemOf[p]) /\ es[i].name = x
<1> DEFINE base == BaseEnvirons[p]
           B == {base[i] : i \in DOMAIN base}
           N == B \cup {e.name : e \in E}
           valid == ValidNames(es, SystemOf[p])
           more == IF Merged(p) THEN valid ELSE <<>>
<1>1. base \in Seq(N)
  <2>1. base \in Seq(B)
    BY SiteAssumption
  <2>2. B \subseteq N
    OBVIOUS
  <2> HIDE DEF base, B, N
  <2> QED  BY <2>1, <2>2
<1>2. /\ valid \in Seq(N)
      /\ \A x : x \in ToSet(valid) <=>
            \E i \in 1..Len(es) : ValidOn(es[i], SystemOf[p]) /\ es[i].name = x
  <2>1. NamedIn(E, N)
    BY DEF NamedIn
  <2>2. es \in Seq(E)
    OBVIOUS
  <2> DEFINE system == SystemOf[p]
  <2> HIDE DEF N, system
  <2>3. /\ ValidNames(es, system) \in Seq(N)
        /\ \A x : x \in ToSet(ValidNames(es, system)) <=>
              \E i \in 1..Len(es) : ValidOn(es[i], system) /\ es[i].name = x
    BY ONLY <2>1, <2>2, NamesIs
  <2> QED  BY <2>3 DEF system
<1>3. Environs(es, p) = base \o more
  BY DEF Environs
<1> HIDE DEF base, N, valid
<1>4. /\ more \in Seq(N)
      /\ \A x : x \in ToSet(more) <=> p \in HasUenv /\ x \in ToSet(valid)
  <2>1. <<>> \in Seq(N) /\ ToSet(<<>>) = {}
    BY DEF ToSet
  <2> QED  BY <1>2, <2>1 DEF Merged
<1> HIDE DEF more
<1>5. \A x : x \in ToSet(base \o more) <=> x \in ToSet(base) \/ x \in ToSet(more)
  BY ONLY <1>1, <1>4, ConcatSet
<1> QED  BY <1>2, <1>3, <1>4, <1>5 DEF base

\* What ReFrame lists.
LEMMA DescribedIs ==
  ASSUME TypeOK, NEW t, NEW test
  PROVE  test \in Described(t) <=>
            /\ test \in Filter(t)
            /\ \E p \in Partitions, x \in Valid[test] :
                  /\ SystemOf[p] = OnSystem(t)
                  /\ \/ x \in ToSet(BaseEnvirons[p])
                     \/ /\ p \in HasUenv /\ path # None
                        /\ \E recipe \in Recipes :
                              /\ recipe \notin overlooked /\ x \in NamesOf(recipe)
                              /\ OnSystem(t) \in RecipeTargetSystems(recipe, found.records)
<1> DEFINE records == found.records
           es == LoadRecipes(records)
           s == OnSystem(t)
           Targeted(recipe) == RecipeTargetSystems(recipe, records)
           Loaded(recipe) == recipe \notin overlooked
           Env(recipe, key) == Environment(<<recipe, key>>, recipe, Targeted(recipe))
<1>1. \A recipe : Targeted(recipe) # Everywhere
  <2>1. found.records \subseteq Records
    BY DEF TypeOK, Inventories
  <2>2. \A r \in Records : r.system \in Systems
    BY DEF Records, Record
  <2>3. \A recipe : Targeted(recipe) \subseteq Systems
    BY <2>1, <2>2 DEF RecipeTargetSystems
  <2>4. "*" \notin Systems
    BY ReporterAssumption
  <2> QED  BY <2>3, <2>4 DEF Everywhere
<1>2. \A recipe, key : /\ Env(recipe, key).name = <<recipe, key>>
                       /\ Env(recipe, key).targets = Targeted(recipe)
  BY DEF Environment
<1>3. \A x : x \in ToSet(es) <=>
         /\ path # None
         /\ \E recipe \in Recipes : /\ Loaded(recipe) /\ Targeted(recipe) # {}
                                    /\ \E key \in ToSet(RecipeEnvs[recipe]) : x = Env(recipe, key)
  <2> HIDE DEF records
  <2>1. \A x : x \in ToSet(es) <=>
           path # None /\ \E recipe \in Recipes : x \in ToSet(RecipeEnvironments(recipe, records))
    BY LoadedIs
  <2>2. ASSUME NEW recipe \in Recipes, NEW x
        PROVE  x \in ToSet(RecipeEnvironments(recipe, records)) <=>
                  /\ Loaded(recipe) /\ Targeted(recipe) # {}
                  /\ \E key \in ToSet(RecipeEnvs[recipe]) : x = Env(recipe, key)
    BY RecipeEnvironmentsAre
  <2> HIDE DEF es, Targeted, Loaded, Env
  <2> QED  BY <2>1, <2>2
<1> HIDE DEF Targeted, Loaded, Env, records
<1>4. es \in Seq(LoadedFrom(records))
  BY LoadedIs
<1> HIDE DEF es
<1>5. \A x : x \in ToSet(es) <=> \E i \in 1..Len(es) : es[i] = x
  BY <1>4, ToSetIs
<1>6. ASSUME NEW x
      PROVE  (\E i \in 1..Len(es) : ValidOn(es[i], s) /\ es[i].name = x) <=>
                /\ path # None
                /\ \E recipe \in Recipes :
                         Loaded(recipe) /\ x \in NamesOf(recipe) /\ s \in Targeted(recipe)
  <2> HIDE DEF s
  <2>1. (\E i \in 1..Len(es) : ValidOn(es[i], s) /\ es[i].name = x) <=>
           \E e \in ToSet(es) : ValidOn(e, s) /\ e.name = x
    BY <1>5
  <2>2. ASSUME NEW recipe \in Recipes, NEW key
        PROVE  /\ ValidOn(Env(recipe, key), s) <=> s \in Targeted(recipe)
               /\ Env(recipe, key).name = <<recipe, key>>
    BY <1>1, <1>2 DEF ValidOn
  <2>3. ASSUME NEW recipe
        PROVE  x \in NamesOf(recipe) <=> \E key \in ToSet(RecipeEnvs[recipe]) : x = <<recipe, key>>
    BY DEF NamesOf
  <2>4. ASSUME NEW e \in ToSet(es), ValidOn(e, s), e.name = x
        PROVE  /\ path # None
               /\ \E recipe \in Recipes :
                        Loaded(recipe) /\ x \in NamesOf(recipe) /\ s \in Targeted(recipe)
    <3>1. PICK recipe \in Recipes :
             Loaded(recipe) /\ \E key \in ToSet(RecipeEnvs[recipe]) : e = Env(recipe, key)
      BY <1>3
    <3>2. PICK key \in ToSet(RecipeEnvs[recipe]) : e = Env(recipe, key)
      BY <3>1
    <3>3. ValidOn(Env(recipe, key), s) /\ Env(recipe, key).name = x
      BY <2>4, <3>2
    <3>4. s \in Targeted(recipe) /\ x = <<recipe, key>>
      BY <2>2, <3>3
    <3> QED  BY <1>3, <2>3, <3>1, <3>4
  <2>5. ASSUME path # None, NEW recipe \in Recipes, Loaded(recipe),
               x \in NamesOf(recipe), s \in Targeted(recipe)
        PROVE  \E e \in ToSet(es) : ValidOn(e, s) /\ e.name = x
    <3>1. PICK key \in ToSet(RecipeEnvs[recipe]) : x = <<recipe, key>>
      BY <2>3, <2>5
    <3>2. Env(recipe, key) \in ToSet(es)
      BY <1>3, <2>5
    <3> QED  BY <2>2, <2>5, <3>1, <3>2
  <2> QED  BY <2>1, <2>4, <2>5
<1>7. \A p \in Partitions : SystemOf[p] = s => \A x : x \in ToSet(Environs(es, p)) <=>
         \/ x \in ToSet(BaseEnvirons[p])
         \/ /\ p \in HasUenv /\ path # None
            /\ \E recipe \in Recipes :
                     Loaded(recipe) /\ x \in NamesOf(recipe) /\ s \in Targeted(recipe)
  <2> SUFFICES ASSUME NEW p \in Partitions, SystemOf[p] = s, NEW x
               PROVE  x \in ToSet(Environs(es, p)) <=>
                         \/ x \in ToSet(BaseEnvirons[p])
                         \/ /\ p \in HasUenv /\ path # None
                            /\ \E recipe \in Recipes :

                                  Loaded(recipe) /\ x \in NamesOf(recipe) /\ s \in Targeted(recipe)
    OBVIOUS
  <2>1. x \in ToSet(Environs(es, p)) <=>
            \/ x \in ToSet(BaseEnvirons[p])
            \/ /\ p \in HasUenv
               /\ \E i \in 1..Len(es) : ValidOn(es[i], SystemOf[p]) /\ es[i].name = x
    BY <1>4, EnvironsAre
  <2> HIDE DEF s
  <2> QED  BY <1>6, <2>1
<1>8. test \in Described(t) <=>
         /\ test \in Filter(t)
         /\ \E p \in Partitions, x \in Valid[test] :
               SystemOf[p] = s /\ x \in ToSet(Environs(es, p))
  BY DEF Described, es, records
<1> QED  BY <1>7, <1>8 DEF s, Targeted, Loaded, records

-----------------------------------------------------------------------------
(* The inventories. *)

LEMMA SeenInit == Init => SeenInv /\ DueInv
<1> SUFFICES ASSUME Init  PROVE SeenInv /\ DueInv
  OBVIOUS
<1>1. HistoryInv
  BY DEF Init, HistoryInv
<1>2. Unusable.records = {} /\ Unusable.usable = FALSE
  BY DEF Unusable
<1>3. GeneratedInv
  <2>1. merged = {} /\ next = 1 /\ \A f \in Files : files[f] = Unusable
    BY DEF Init
  <2> QED  BY <1>2, <2>1 DEF GeneratedInv
<1>4. FoundInv
  BY <1>2 DEF Init, FoundInv
<1>5. DueInv
  <2>1. NotRun.status = "not run" /\ NotRun.tests = {}
    BY DEF NotRun
  <2>2. \A i \in DOMAIN targets : output[i] = NotRun
    BY DEF Init
  <2> QED  BY <2>1, <2>2 DEF DueInv, Reported
<1> QED  BY <1>1, <1>3, <1>4, <1>5 DEF SeenInv

LEMMA SeenKept ==
  ASSUME SeenInv, UNCHANGED <<registry, ever, steady, asked, next, merged, files, found,
                              overlooked>>,
         pc' # "describe" \/ UNCHANGED <<pc, targets, turn, path>>
  PROVE  SeenInv'
<1>1. HistoryInv'
  BY DEF SeenInv, HistoryInv
<1>2. GeneratedInv'
  BY DEF SeenInv, GeneratedInv
<1>3. FoundInv'
  BY DEF SeenInv, FoundInv, OnSystem
<1> QED  BY <1>1, <1>2, <1>3 DEF SeenInv

LEMMA DueKept ==
  ASSUME DueInv, UNCHANGED <<targets, output, flag, path>>,
         ever \subseteq ever', steady' \subseteq steady
  PROVE  DueInv'
<1> SUFFICES ASSUME NEW i \in DOMAIN targets
             PROVE  /\ \A t \in output[i].tests : RunsOn(t, OnSystem(targets[i]))'
                    /\ Reported(i)' =>
                          \A x \in steady', recipe \in Recipes, t \in Tests :
                             Due(i, x, recipe, t)' /\ recipe \notin output[i].overlooked
                             => t \in output[i].tests
  BY DEF DueInv
<1>1. \A t, s : RunsOn(t, s) => RunsOn(t, s)'
  BY DEF RunsOn
<1>2. (Reported(i)' <=> Reported(i)) /\ OnSystem(targets[i])' = OnSystem(targets[i])
  BY DEF Reported, OnSystem
<1>3. \A x, recipe, t : Due(i, x, recipe, t)' <=> Due(i, x, recipe, t)
  BY DEF Due, OnSystem, Filter
<1>4. \A t \in output[i].tests : RunsOn(t, OnSystem(targets[i]))'
  BY <1>1, <1>2 DEF DueInv
<1> QED  BY <1>2, <1>3, <1>4 DEF DueInv

\* An image that is deployed or removed has not been deployed all the time.
LEMMA DeploySeen ==
  ASSUME IInv, SeenInv, DueInv, NEW r \in Records, Deploy(r)
  PROVE  SeenInv' /\ DueInv'
<1>1. /\ UNCHANGED <<asked, next, merged, files, flag, targets, path, pc, turn, found,
                     overlooked, output>>
      /\ ever \subseteq ever' /\ registry' \subseteq ever'
      /\ steady' \subseteq steady /\ steady' \subseteq registry'
  BY DEF Deploy, generator, arguments, loaded
<1>2. HistoryInv'
  BY <1>1 DEF HistoryInv
<1>3. GeneratedInv'
  BY <1>1 DEF SeenInv, GeneratedInv
<1>4. FoundInv'
  BY <1>1 DEF SeenInv, FoundInv, OnSystem
<1>5. DueInv'
  BY <1>1, DueKept
<1> QED  BY <1>2, <1>3, <1>4, <1>5 DEF SeenInv

\* What a system has is found, and is all that has been there all the time.
LEMMA ImageFindIs ==
  ASSUME SeenInv, NEW s
  PROVE  /\ ImageFind(s) \subseteq ever
         /\ \A r \in steady : r.system = s => r \in ImageFind(s)
BY DEF SeenInv, HistoryInv, ImageFind

LEMMA AskSystemSeen ==
  ASSUME IInv, SeenInv, AskSystem  PROVE SeenInv'
<1> DEFINE s == asked[next]
           k == <<s>>
<1>1. /\ UNCHANGED <<registry, ever, steady, asked, found, overlooked>>
      /\ pc' # "describe" /\ next \in Nat \ {0} /\ next <= Len(asked)
      /\ files \in [Files -> Inventories]
  BY DEF AskSystem, images, loaded, IInv, TypeOK
<1>2. HistoryInv' /\ FoundInv'
  BY <1>1 DEF SeenInv, HistoryInv, FoundInv
<1>3. k \in Files /\ ToSet(k) = {s}
  <2>1. asked \in Seq(Systems)
    BY ReporterAssumption DEF IInv, TypeOK
  <2>2. s \in Systems
    BY <1>1, <2>1
  <2> QED  BY <2>2 DEF Files, ToSet
<1>4. ImageFind(s) \subseteq ever /\ \A r \in steady : r.system = s => r \in ImageFind(s)
  BY ImageFindIs
<1>5. /\ \/ merged' = merged \cup ImageFind(s) /\ next' = next + 1
         \/ UNCHANGED <<merged, next>>
      /\ \/ files' = [files EXCEPT ![k] = Inventory(ImageFind(s))]
         \/ files' = [files EXCEPT ![k] = Unusable]
         \/ files' = files
  BY DEF AskSystem
<1> HIDE DEF s, k
<1>6. /\ merged' \subseteq ever
      /\ \A j \in 1..next' - 1 : \A r \in steady : r.system = asked[j] => r \in merged'
  <2>1. CASE UNCHANGED <<merged, next>>
    BY <1>1, <2>1 DEF SeenInv, GeneratedInv
  <2>2. CASE merged' = merged \cup ImageFind(s) /\ next' = next + 1
    <3>1. \A j \in 1..next' - 1 : j \in 1..next - 1 \/ j = next
      BY <1>1, <2>2
    <3> QED  BY <1>4, <2>2, <3>1 DEF SeenInv, GeneratedInv, s
  <2> QED  BY <1>5, <2>1, <2>2
<1>7. ASSUME NEW f \in Files
      PROVE  /\ files'[f].records \subseteq ever
             /\ files'[f].usable =>
                   \A r \in steady : r.system \in ToSet(f) => r \in files'[f].records
  <2>1. CASE files'[f] = files[f]
    BY <2>1 DEF SeenInv, GeneratedInv
  <2>2. CASE f = k /\ files'[f] = Inventory(ImageFind(s))
    <3>1. files'[f].records = ImageFind(s)
      BY <2>2 DEF Inventory
    <3> QED  BY <1>3, <1>4, <2>2, <3>1
  <2>3. CASE files'[f] = Unusable
    <3>1. files'[f].records = {} /\ files'[f].usable = FALSE
      BY <2>3 DEF Unusable
    <3> QED  BY <3>1
  <2>4. files'[f] = files[f] \/ (f = k /\ files'[f] = Inventory(ImageFind(s)))
           \/ files'[f] = Unusable
    BY <1>1, <1>3, <1>5
  <2> QED  BY <2>1, <2>2, <2>3, <2>4
<1>8. GeneratedInv'
  BY <1>1, <1>6, <1>7 DEF GeneratedInv
<1> QED  BY <1>2, <1>8 DEF SeenInv

LEMMA WriteMergedSeen ==
  ASSUME IInv, SeenInv, WriteMerged  PROVE SeenInv'
<1>1. /\ UNCHANGED <<registry, ever, steady, asked, next, merged, found, overlooked>>
      /\ pc' # "describe" /\ next \in Nat \ {0} /\ next > Len(asked)
      /\ files \in [Files -> Inventories]
      /\ files' = [files EXCEPT ![asked] = Inventory(merged)]
      /\ asked \in Seq(Systems)
  BY ReporterAssumption DEF WriteMerged, MergedRecords, images, loaded, IInv, TypeOK
<1>2. HistoryInv' /\ FoundInv'
  BY <1>1 DEF SeenInv, HistoryInv, FoundInv
<1>3. ASSUME NEW f \in Files
      PROVE  /\ files'[f].records \subseteq ever
             /\ files'[f].usable =>
                   \A r \in steady : r.system \in ToSet(f) => r \in files'[f].records
  <2>1. CASE f = asked
    <3>1. files'[f].records = merged
      <4>1. files'[f] = Inventory(merged)
        BY <1>1, <2>1
      <4> QED  BY <4>1 DEF Inventory
    <3>2. ASSUME NEW r \in steady, r.system \in ToSet(f)  PROVE r \in merged
      <4>1. PICK k \in 1..Len(asked) : asked[k] = r.system
        BY <1>1, <2>1, <3>2, ToSetIs
      <4>2. k \in 1..next - 1
        BY <1>1
      <4> QED  BY <4>1, <4>2 DEF SeenInv, GeneratedInv
    <3> QED  BY <3>1, <3>2 DEF SeenInv, GeneratedInv
  <2>2. CASE f # asked
    <3>1. files'[f] = files[f]
      BY <1>1, <2>2
    <3> QED  BY <3>1 DEF SeenInv, GeneratedInv
  <2> QED  BY <2>1, <2>2
<1>4. GeneratedInv'
  BY <1>1, <1>3 DEF SeenInv, GeneratedInv
<1> QED  BY <1>2, <1>4 DEF SeenInv

LEMMA RunReframeSeen ==
  ASSUME IInv, SeenInv, RunReframe  PROVE SeenInv'
<1>1. /\ UNCHANGED <<registry, ever, steady, asked, next, merged, files, targets, turn, path>>
      /\ \/ found' \in LoadInventory(targets[turn])
         \/ found' = Inventory({}) /\ overlooked' = Recipes
  BY DEF RunReframe, Overlook, images, generator, arguments
<1>2. HistoryInv' /\ GeneratedInv'
  BY <1>1 DEF SeenInv, HistoryInv, GeneratedInv
<1> DEFINE s == OnSystem(targets[turn])
<1>3. /\ found'.records \subseteq ever
      /\ found'.usable /\ overlooked' # Recipes =>
            \A r \in steady : /\ r.system = s
                              /\ path = Live \/ (path \in Files /\ r.system \in ToSet(path))
                              => r \in found'.records
  <2> HIDE DEF s
  <2>0. ImageFind(s) \subseteq ever /\ \A r \in steady : r.system = s => r \in ImageFind(s)
    BY ImageFindIs
  <2>1. CASE path = None /\ found' = Inventory({})
    <3>1. found'.records = {}
      BY <2>1 DEF Inventory
    <3>2. None # Live /\ None \notin Files
      <4>1. None # Live /\ \A x : <<x>> # None
        BY DEF None, Live
      <4> QED  BY <4>1, ReporterAssumption DEF Files, None
    <3> QED  BY <2>1, <3>1, <3>2
  <2>2. CASE path = Live /\ found' = Inventory(ImageFind(s))
    <3>1. found'.records = ImageFind(s)
      BY <2>2 DEF Inventory
    <3> QED  BY <2>0, <3>1
  <2>3. CASE found' = Unusable
    <3>1. found'.records = {} /\ found'.usable = FALSE
      BY <2>3 DEF Unusable
    <3> QED  BY <3>1
  <2>4. CASE path \in Files /\ path # Live /\ found' = files[path]
    BY <2>4 DEF SeenInv, GeneratedInv
  <2>5. path \in Files \cup {Live, None}
    BY DEF IInv, TypeOK
  <2>6. CASE found' = Inventory({}) /\ overlooked' = Recipes
    <3>1. found'.records = {}
      BY <2>6 DEF Inventory
    <3> QED  BY <2>6, <3>1
  <2>7. \/ path = None /\ found' = Inventory({})
        \/ found' = Inventory({}) /\ overlooked' = Recipes
        \/ path = Live /\ found' = Inventory(ImageFind(s))
        \/ found' = Unusable
        \/ path \in Files /\ path # Live /\ found' = files[path]
    BY <1>1, <2>5 DEF LoadInventory, s
  <2> QED  BY <2>1, <2>2, <2>3, <2>4, <2>6, <2>7
<1>4. FoundInv'
  BY <1>1, <1>3 DEF FoundInv, OnSystem
<1> QED  BY <1>2, <1>4 DEF SeenInv

-----------------------------------------------------------------------------
(* The tests that a run lists. *)

LEMMA FirstTwo ==
  ASSUME NEW T, NEW q \in Seq(T), Len(q) >= 2
  PROVE  SubSeq(q, 1, 2) = <<q[1], q[2]>>
<1> DEFINE a == SubSeq(q, 1, 2)
           b == <<q[1], q[2]>>
<1>1. a \in Seq(T) /\ Len(a) = 2 /\ a[1] = q[1] /\ a[2] = q[2]
  OBVIOUS
<1>2. q[1] \in T /\ q[2] \in T
  OBVIOUS
<1>3. b \in Seq(T) /\ Len(b) = 2 /\ b[1] = q[1] /\ b[2] = q[2]
  BY <1>2
<1> HIDE DEF a, b
<1>4. a = b
  BY <1>1, <1>3
<1> QED  BY <1>4 DEF a, b

\* A recipe is found on the systems that have its image.
LEMMA TargetSystemsAre ==
  ASSUME NEW recipe \in Recipes, NEW records, NEW s
  PROVE  /\ s \in RecipeTargetSystems(recipe, records) =>
               \E r \in records :
                  /\ <<r.name, r.version>> = SubSeq(recipe, 1, 2) /\ r.system = s
                  /\ Len(recipe) = 3 => r.uarch = recipe[3]
         /\ \A r \in records :
               recipe \in {<<r.name, r.version>>, <<r.name, r.version, r.uarch>>} =>
                  r.system \in RecipeTargetSystems(recipe, records)
<1>1. ASSUME s \in RecipeTargetSystems(recipe, records)
      PROVE  \E r \in records :
                /\ <<r.name, r.version>> = SubSeq(recipe, 1, 2) /\ r.system = s
                /\ Len(recipe) = 3 => r.uarch = recipe[3]
  <2>1. PICK r \in records : Len(recipe) >= 2 /\ RecordMatches(recipe, r) /\ r.system = s
    BY <1>1 DEF RecipeTargetSystems
  <2>2. recipe \in Seq({recipe[i] : i \in DOMAIN recipe})
    BY ReporterAssumption
  <2>3. SubSeq(recipe, 1, 2) = <<recipe[1], recipe[2]>>
    BY <2>1, <2>2, FirstTwo
  <2> QED  BY <2>1, <2>3 DEF RecordMatches
<1>2. ASSUME NEW r \in records,
             recipe \in {<<r.name, r.version>>, <<r.name, r.version, r.uarch>>}
      PROVE  r.system \in RecipeTargetSystems(recipe, records)
  <2>1. Len(recipe) >= 2 /\ RecordMatches(recipe, r)
    BY <1>2 DEF RecordMatches
  <2> QED  BY <2>1 DEF RecipeTargetSystems
<1> QED  BY <1>1, <1>2

\* What is listed runs on the system of the target.
LEMMA DescribedRuns ==
  ASSUME TypeOK, SeenInv, NEW t, NEW test \in Described(t)
  PROVE  RunsOn(test, OnSystem(t))
<1> DEFINE s == OnSystem(t)
<1>1. PICK p \in Partitions :
         /\ SystemOf[p] = s
         /\ \E x \in Valid[test] :
               \/ x \in ToSet(BaseEnvirons[p])
               \/ \E recipe \in Recipes : /\ x \in NamesOf(recipe)
                                          /\ s \in RecipeTargetSystems(recipe, found.records)
  BY DescribedIs
<1> HIDE DEF s
<1>2. PICK x \in Valid[test] :
         \/ x \in ToSet(BaseEnvirons[p])
         \/ \E recipe \in Recipes : /\ x \in NamesOf(recipe)
                                    /\ s \in RecipeTargetSystems(recipe, found.records)
  BY <1>1
<1>3. CASE x \in ToSet(BaseEnvirons[p])
  <2>1. x \in BaseNames(s)
    BY <1>1, <1>3 DEF BaseNames
  <2> QED  BY <1>2, <2>1 DEF RunsOn, s
<1>4. ASSUME NEW recipe \in Recipes, x \in NamesOf(recipe),
             s \in RecipeTargetSystems(recipe, found.records)
      PROVE  RunsOn(test, s)
  <2>1. PICK r \in found.records :
           /\ <<r.name, r.version>> = SubSeq(recipe, 1, 2) /\ r.system = s
           /\ Len(recipe) = 3 => r.uarch = recipe[3]
    BY <1>4, TargetSystemsAre
  <2>2. r \in ever
    BY DEF SeenInv, FoundInv
  <2>3. Valid[test] \cap NamesOf(recipe) # {}
    BY <1>2, <1>4
  <2> QED  BY <2>1, <2>2, <2>3 DEF RunsOn
<1> QED  BY <1>2, <1>3, <1>4 DEF s

\* What is due is listed.
LEMMA DueDescribed ==
  ASSUME TypeOK, SeenInv, pc = "describe", found.usable,
         NEW r \in steady, NEW recipe \in Recipes, NEW t \in Tests, Due(turn, r, recipe, t),
         recipe \notin overlooked,
         path = Live \/ (path \in Files /\ OnSystem(targets[turn]) \in ToSet(path)),
         NEW p \in HasUenv, SystemOf[p] = OnSystem(targets[turn])
  PROVE  t \in Described(targets[turn])
<1> DEFINE target == targets[turn]
           s == OnSystem(target)
<1>1. /\ r.system = s /\ t \in Filter(target)
      /\ recipe \in {<<r.name, r.version>>, <<r.name, r.version, r.uarch>>}
  BY DEF Due
<1>2. PICK x \in Valid[t] : x \in NamesOf(recipe)
  BY DEF Due
<1>3. r \in found.records
  BY <1>1 DEF SeenInv, FoundInv
<1>4. s \in RecipeTargetSystems(recipe, found.records)
  BY <1>1, <1>3, TargetSystemsAre
<1>5. p \in Partitions
  BY SiteAssumption
<1>6. path # None
  <2>1. None # Live /\ \A y : <<y>> # None
    BY DEF None, Live
  <2> QED  BY <2>1, ReporterAssumption DEF Files, None
<1>7. SystemOf[p] = s
  OBVIOUS
<1> HIDE DEF target, s
<1> QED  BY <1>1, <1>2, <1>4, <1>5, <1>6, <1>7, DescribedIs DEF target, s

\* The outputs of the runs before stay as they are.
LEMMA RanDue ==
  ASSUME DueInv, UNCHANGED <<images, generator, arguments>>,
                             output \in [DOMAIN targets -> Outputs],
         NEW out, output' = [output EXCEPT ![turn] = out], turn \in DOMAIN targets,
         \A t \in out.tests : RunsOn(t, OnSystem(targets[turn])),
         /\ out.status = "listed"
         /\ path = Live \/ (path \in Files /\ OnSystem(targets[turn]) \in ToSet(path))
         /\ \E p \in HasUenv : SystemOf[p] = OnSystem(targets[turn])
         => \A r \in steady, recipe \in Recipes, t \in Tests :
               Due(turn, r, recipe, t) /\ recipe \notin out.overlooked => t \in out.tests
  PROVE  DueInv'
<1>0. UNCHANGED <<ever, steady, targets, flag, path>>
  BY DEF images, arguments, loaded
<1> SUFFICES ASSUME NEW i \in DOMAIN targets
             PROVE  /\ \A t \in output'[i].tests : RunsOn(t, OnSystem(targets[i]))'
                    /\ Reported(i)' =>
                          \A x \in steady, recipe \in Recipes, t \in Tests :
                             Due(i, x, recipe, t)' /\ recipe \notin output'[i].overlooked
                             => t \in output'[i].tests
  BY <1>0 DEF DueInv
<1>1. \A t, s : RunsOn(t, s)' <=> RunsOn(t, s)
  BY <1>0 DEF RunsOn
<1>2. OnSystem(targets[i])' = OnSystem(targets[i])
  BY <1>0 DEF OnSystem
<1>3. \A x, recipe, t : Due(i, x, recipe, t)' <=> Due(i, x, recipe, t)
  BY <1>0 DEF Due, OnSystem, Filter
<1>4. CASE i = turn
  <2>1. output'[i] = out
    BY <1>4
  <2>2. Reported(i)' => /\ out.status = "listed"
                        /\ path = Live \/ (path \in Files /\ OnSystem(targets[i]) \in ToSet(path))
                        /\ \E p \in HasUenv : SystemOf[p] = OnSystem(targets[i])
    BY <1>0, <2>1 DEF Reported, OnSystem
  <2> QED  BY <1>1, <1>2, <1>3, <1>4, <2>1, <2>2
<1>5. CASE i # turn
  <2>1. output'[i] = output[i]
    BY <1>5
  <2>2. Reported(i)' <=> Reported(i)
    BY <1>0, <2>1 DEF Reported, OnSystem
  <2> QED  BY <1>1, <1>2, <1>3, <2>1, <2>2 DEF DueInv
<1> QED  BY <1>4, <1>5

LEMMA FailedDue ==
  ASSUME IInv, DueInv, Failed  PROVE DueInv'
<1> DEFINE out == Output("failed", {})
<1>1. /\ UNCHANGED <<images, generator, arguments>>
      /\ output' = [output EXCEPT ![turn] = out] /\ pc = "describe"
  BY DEF Failed
<1>2. turn \in DOMAIN targets /\ output \in [DOMAIN targets -> Outputs]
  BY <1>1, TargetsAre DEF IInv, TypeOK, RunInv
<1>3. out.status = "failed" /\ out.tests = {}
  BY DEF Output
<1> HIDE DEF out
<1> QED  BY <1>1, <1>2, <1>3, RanDue

LEMMA ListedDue ==
  ASSUME IInv, SeenInv, DueInv, Listed  PROVE DueInv'
<1> DEFINE t == targets[turn]
           some == Output("listed", Described(t))
           none == Output("silent", {})
<1>1. UNCHANGED <<images, generator, arguments>> /\ pc = "describe" /\ found.usable
  BY DEF Listed
<1>2. turn \in DOMAIN targets /\ output \in [DOMAIN targets -> Outputs] /\ TypeOK
  BY <1>1, TargetsAre DEF IInv, TypeOK, RunInv
<1>3. PICK out \in {some, none} : output' = [output EXCEPT ![turn] = out]
  BY DEF Listed
<1>4. /\ some.status = "listed" /\ some.tests = Described(t)
      /\ none.status = "silent" /\ none.tests = {}
      /\ some.overlooked = overlooked
  BY DEF Output
<1> HIDE DEF some, none
<1>5. \A test \in out.tests : RunsOn(test, OnSystem(targets[turn]))
  BY <1>2, <1>3, <1>4, DescribedRuns
<1>6. /\ out.status = "listed"
      /\ path = Live \/ (path \in Files /\ OnSystem(targets[turn]) \in ToSet(path))
      /\ \E p \in HasUenv : SystemOf[p] = OnSystem(targets[turn])
      => \A r \in steady, recipe \in Recipes, test \in Tests :
            Due(turn, r, recipe, test) /\ recipe \notin out.overlooked => test \in out.tests
  BY <1>1, <1>2, <1>3, <1>4, DueDescribed
<1> QED  BY <1>1, <1>2, <1>3, <1>5, <1>6, RanDue

\* The inventories and the outputs.
LEMMA SeenDue == Spec => [](SeenInv /\ DueInv)
<1>1. Init => SeenInv /\ DueInv
  BY SeenInit
<1>2. IInv /\ SeenInv /\ DueInv /\ [Next]_vars => (SeenInv /\ DueInv)'
  <2> SUFFICES ASSUME IInv, SeenInv, DueInv, [Next]_vars  PROVE SeenInv' /\ DueInv'
    OBVIOUS
  <2>1. CASE AskSystem \/ WriteMerged
    <3>1. UNCHANGED <<ever, steady, targets, output, flag, path>>
      BY <2>1 DEF AskSystem, WriteMerged, images, arguments, loaded
    <3> QED  BY <2>1, <3>1, AskSystemSeen, WriteMergedSeen, DueKept
  <2>2. CASE RunReframe
    <3>1. UNCHANGED <<ever, steady, targets, output, flag, path>>
      BY <2>2 DEF RunReframe, images, arguments, loaded
    <3> QED  BY <2>2, <3>1, RunReframeSeen, DueKept
  <2>3. CASE Start \/ NoReframe \/ Garbled \/ Generate
    <3>1. /\ UNCHANGED <<registry, ever, steady, asked, next, merged, files, found,
                         overlooked, targets, output,
                         flag, path>>
          /\ pc' # "describe"
      BY <2>3 DEF Start, NoReframe, Garbled, Generate, images, generator, arguments, loaded
    <3> QED  BY <3>1, SeenKept, DueKept
  <2>4. CASE Listed \/ Failed
    <3>1. /\ UNCHANGED <<registry, ever, steady, asked, next, merged, files, found,
                         overlooked>>
          /\ pc' # "describe"
      BY <2>4 DEF Listed, Failed, images, generator, loaded
    <3> QED  BY <2>4, <3>1, SeenKept, ListedDue, FailedDue
  <2>5. CASE Registry
    BY <2>5, DeploySeen DEF Registry
  <2>6. CASE Terminating \/ UNCHANGED vars
    <3>1. UNCHANGED <<registry, ever, steady, asked, next, merged, files, found,
                      overlooked, pc, turn, targets,
                      output, flag, path>>
      BY <2>6 DEF Terminating, vars, images, generator, arguments, loaded
    <3> QED  BY <3>1, SeenKept, DueKept
  <2> QED  BY <2>1, <2>2, <2>3, <2>4, <2>5, <2>6 DEF Next, Program, Runs
<1> QED  BY <1>1, <1>2, Inductive, PTL DEF Spec

(* A tick of the table means that a test of its row is valid for the system *)
(* of a target of its column or for a recipe whose image has been deployed  *)
(* there; and when an image is deployed all the time, the tests of its      *)
(* recipe that a reported target selects have their tick, whatever else is  *)
(* deployed or removed while the reporter runs, unless the loader passes    *)
(* over the recipe in that very run (uenv.py:153-163, 244-249;              *)
(* generate_uenv_image_inventory.py:84-105, uenv.py:113-220, cscs.py:77).   *)
THEOREM Eligible == Spec => []EligibleMeansDeployed
<1>1. IInv /\ SeenInv /\ DueInv => EligibleMeansDeployed
  <2> SUFFICES ASSUME IInv, SeenInv, DueInv, report.written
               PROVE  /\ \A c \in report.yes : \E i \in HasLabel(c[2]), t \in Tests :
                            Row(t) = c[1] /\ RunsOn(t, OnSystem(targets[i]))
                      /\ \A i \in DOMAIN targets, r \in steady, recipe \in Recipes, t \in Tests :
                            /\ Reported(i) /\ Due(i, r, recipe, t)
                            /\ recipe \notin output[i].overlooked
                            => Ticked(i, t)
    BY DEF EligibleMeansDeployed, Due
  <2>1. TypeOK /\ CollectedInv /\ report = Table
    BY WrittenIs DEF IInv
  <2>2. /\ report.yes = {c \in report.rows \X ToSet(report.labels) : Cell(c[1], c[2])}
        /\ report.rows = {Row(test) : test \in UniqueTests}
        /\ report.labels = Labels(Columns)
    BY <2>1, TableIs
  <2>3. \A i \in DOMAIN targets : output[i].tests \subseteq Tests
    BY <2>1 DEF TypeOK, Outputs
  <2>4. ASSUME NEW c \in report.yes
        PROVE  \E i \in HasLabel(c[2]), t \in Tests :
                  Row(t) = c[1] /\ RunsOn(t, OnSystem(targets[i]))
    <3>1. Cell(c[1], c[2])
      BY <2>2
    <3>2. PICK i \in HasLabel(c[2]) : \E t \in output[i].tests : Row(t) = c[1]
      BY <2>1, <3>1, CellIs
    <3>3. i \in DOMAIN targets
      BY DEF HasLabel
    <3> QED  BY <2>3, <3>2, <3>3 DEF DueInv
  <2>5. ASSUME NEW i \in DOMAIN targets, NEW r \in steady, NEW recipe \in Recipes, NEW t \in Tests,
               Reported(i), Due(i, r, recipe, t), recipe \notin output[i].overlooked
        PROVE  Ticked(i, t)
    <3> DEFINE label == LabelOf(targets[i])
    <3>1. t \in output[i].tests
      BY <2>5 DEF DueInv
    <3>2. Row(t) \in report.rows
      BY <2>1, <2>2, <3>1, ExistsIs
    <3>3. Cell(Row(t), label)
      <4>1. i \in HasLabel(label)
        BY DEF HasLabel
      <4> QED  BY <2>1, <3>1, <4>1, CellIs
    <3>4. label \in ToSet(report.labels)
      <4>1. targets[i] \in ToSet(processed)
        BY <2>1, <2>5 DEF CollectedInv, Reported, Returned
      <4>2. processed \in Seq(Targets)
        BY <2>1 DEF TypeOK
      <4>3. PICK k \in 1..Len(processed) : processed[k] = targets[i]
        BY <4>1, <4>2, ToSetIs
      <4>4. Columns = processed
        BY <4>2, <4>3 DEF Columns
      <4>5. report.labels = [j \in 1..Len(processed) |-> LabelOf(processed[j])]
        BY <2>1, <2>2, <4>4, ColumnsAre
      <4> QED  BY <4>3, <4>5 DEF ToSet
    <3> HIDE DEF label
    <3>5. <<Row(t), label>> \in report.yes
      BY <2>2, <3>2, <3>3, <3>4
    <3> QED  BY <3>5 DEF Ticked, label
  <2> QED  BY <2>4, <2>5
<1> QED  BY <1>1, Inductive, SeenDue, PTL
===============================================================================
