------------------------------- MODULE Reporter -------------------------------
(***************************************************************************)
(* The test reporter: an inventory of the uenv images of the systems is    *)
(* written (generate_uenv_image_inventory.py), then reframe --describe is  *)
(* run for each target of a matrix (cli.py, orchestrator.py, executor.py), *)
(* where the loader makes environments of the uenv recipes (uenv.py,       *)
(* cscs.py), and the tests listed become one table (renderers.py).         *)
(*                                                                         *)
(* Images are deployed and removed on the systems all the while.           *)
(***************************************************************************)
EXTENDS SiteConfig, FiniteSets, SequencesExt

CONSTANTS
    Systems,
    Host,        \* the system of the machine the reporter runs on
    Images,      \* records [name, version, uarch]
    Deployed,    \* the sets of images that may be deployed at first
    Recipes,     \* sequences <<name, version>>, <<name, version, uarch>>...
    Unreadable,  \* the sets of recipes whose extra/reframe.yaml a run may fail to read
    RecipeEnvs,  \* recipe -> the environments of its extra/reframe.yaml
    Tests,       \* records [prefix, base, params, dir, file]
    Valid,       \* test -> the names of the environments it is valid for
    Selected,    \* <<flag, value>> -> the tests a --mode or a --tag selects
    AskLists,    \* the values of --system of the generator
    Matrices,    \* the values of --matrix-mode and --matrix-tag
    MaxChanges   \* bound on the changes of the deployed images

ASSUME ReporterAssumption ==
    /\ \A p \in Partitions : SystemOf[p] \in Systems
    /\ Host \in Systems /\ "*" \notin Systems
    /\ UNION Deployed \subseteq Images \X Systems
    /\ IsFiniteSet(Tests) /\ IsFiniteSet(Recipes) /\ UNION Unreadable \subseteq Recipes
    /\ DOMAIN RecipeEnvs = Recipes /\ DOMAIN Valid = Tests
    /\ \A r \in Recipes :
          /\ r \in Seq({r[i] : i \in DOMAIN r})
          /\ RecipeEnvs[r] \in Seq({RecipeEnvs[r][i] : i \in DOMAIN RecipeEnvs[r]})
    /\ \A f \in DOMAIN Selected : Selected[f] \subseteq Tests
    /\ \A m \in Matrices :
          /\ m \in Seq({m[i] : i \in DOMAIN m})
          /\ \A i \in DOMAIN m : Len(m[i]) = 3 /\ m[i][3] # "" =>
                {"--mode", "--tag"} \X {m[i][3]} \subseteq DOMAIN Selected
    /\ AskLists \subseteq Seq(Systems) \ {<<>>}
    /\ MaxChanges \in Nat

VARIABLES
    registry,   \* the images deployed, with their systems
    changes,    \* number of changes of it
    ever,       \* the images that have been deployed (history)
    steady,     \* the images that have always been (history)
    asked,      \* the systems the generator was given
    next,       \* the one it asks next
    merged,     \* merged_records
    files,      \* inventory file -> its content
    flag,       \* "--mode" or "--tag"
    targets,    \* the entries of the matrix
    path,       \* the inventory given to the reporter: a file, or Live or None
    pc,
    turn,       \* the target that is run
    found,      \* the content of the inventory the loader of ReFrame reads
    overlooked, \* the recipes it passes over without a word to the reporter
    all_results,   \* pairs of a test and a target
    processed,     \* processed_targets_ordered
    any_failures,
    raw,        \* the target whose command is in reframe_raw.reframe.out
    output,     \* per target: what the run gave (history)
    report      \* the table, or NoReport

images == <<registry, changes, ever, steady>>
generator == <<asked, next, merged, files>>
arguments == <<flag, targets, path>>
loaded == <<found, overlooked>>
collected == <<all_results, processed, any_failures>>
vars == <<images, generator, arguments, pc, turn, loaded, collected, raw, output, report>>

-----------------------------------------------------------------------------
Record(image, system) ==
    [name |-> image.name, version |-> image.version, uarch |-> image.uarch,
     system |-> system]

Records == {Record(i, s) : i \in Images, s \in Systems}

\* uenv image find --json @system
ImageFind(system) == {r \in registry : r.system = system}

\* An inventory that cannot be loaded: no file, or no list of records.
Unusable == [usable |-> FALSE, records |-> {}]
Inventory(records) == [usable |-> TRUE, records |-> records]

\* The files of the generator are named after the systems they are about.
Files == {<<s>> : s \in Systems} \cup AskLists

\* No inventory but recipes: uenv is asked; no recipes either: no uenvs.
Live == <<"live">>
None == <<>>

NoReport == [written |-> FALSE]

NotRun == [status |-> "not run", tests |-> {}, overlooked |-> {}]

Init ==
    /\ registry \in {{Record(d[1], d[2]) : d \in D} : D \in Deployed}
    /\ changes = 0 /\ ever = registry /\ steady = registry
    /\ asked \in AskLists /\ next = 1 /\ merged = {}
    /\ files = [f \in Files |-> Unusable]
    /\ flag \in {"--mode", "--tag"}
    /\ targets \in Matrices
    /\ path \in Files \cup {Live, None}
    /\ pc = "generate" /\ turn = 1
    /\ found = Unusable /\ overlooked = {}
    /\ all_results = {} /\ processed = <<>> /\ any_failures = FALSE
    /\ raw = 0
    /\ output = [i \in DOMAIN targets |-> NotRun]
    /\ report = NoReport

-----------------------------------------------------------------------------
(* An image is deployed on a system, or removed. *)
Deploy(r) ==
    /\ changes < MaxChanges
    /\ changes' = changes + 1
    /\ registry' = IF r \in registry THEN registry \ {r} ELSE registry \cup {r}
    /\ ever' = ever \cup registry'
    /\ steady' = steady \cap registry'
    /\ UNCHANGED <<generator, arguments, pc, turn, loaded, collected, raw, output, report>>

-----------------------------------------------------------------------------
(* generate_uenv_image_inventory.py *)

\* The system's own file is written before its records are looked for.
AskSystem ==
    /\ pc = "generate" /\ next <= Len(asked)
    /\ LET s == asked[next] IN
       \/ /\ files' = [files EXCEPT ![<<s>>] = Inventory(ImageFind(s))]
          /\ merged' = merged \cup ImageFind(s)
          /\ next' = next + 1
          /\ UNCHANGED pc
       \/ /\ files' = [files EXCEPT ![<<s>>] = Unusable]
          /\ pc' = "start"
          /\ UNCHANGED <<next, merged>>
       \/ /\ pc' = "start"
          /\ UNCHANGED <<next, merged, files>>
    /\ UNCHANGED <<images, asked, arguments, turn, loaded, collected, raw, output, report>>

MergedRecords == merged

WriteMerged ==
    /\ pc = "generate" /\ next > Len(asked)
    /\ files' = [files EXCEPT ![asked] = Inventory(MergedRecords)]
    /\ pc' = "start"
    /\ UNCHANGED <<images, asked, next, merged, arguments, turn, loaded,
                   collected, raw, output, report>>

-----------------------------------------------------------------------------
(* cli.py: every target is validated before the first is run. *)

WellFormed(t) == Len(t) = 3

Start ==
    /\ pc = "start"
    /\ pc' = IF \A i \in DOMAIN targets : WellFormed(targets[i]) THEN "target" ELSE "raised"
    /\ UNCHANGED <<images, generator, arguments, turn, loaded, collected, raw, output, report>>

-----------------------------------------------------------------------------
(* orchestrator.py *)

LabelOf(t) == t[1]

\* Without --system, ReFrame is on the system of the host, and so is uenv.
OnSystem(t) == IF t[2] = "" THEN Host ELSE t[2]

\* The words that name the modes of the reporter are not passed to ReFrame.
Unfiltered == {"", "single", "matrix", "tag"}

Filter(t) ==
    IF t[3] = "" \/ (flag = "--mode" /\ t[3] \in Unfiltered) THEN Tests
    ELSE Selected[<<flag, t[3]>>]

\* _load_uenv_image_inventory: CSCS_RFM_UENV_TARGET_SYSTEMS counts only if
\* there is no file.
LoadInventory(t) ==
    IF path = None THEN {Inventory({})}
    ELSE IF path = Live THEN {Inventory(ImageFind(OnSystem(t))), Unusable}
    ELSE {files[path]}

\* An answer of uenv without a list of records is no images when the command
\* names a system; a recipe whose reframe.yaml cannot be read is skipped.
Overlook(t) ==
    \/ found' \in LoadInventory(t) /\ overlooked' \in Unreadable
    \/ path = Live /\ t[2] # "" /\ found' = Inventory({}) /\ overlooked' = Recipes

\* run_matrix_mode, run_matrix_tag_mode: the command, and ReFrame starts.
RunReframe ==
    /\ pc = "target" /\ turn <= Len(targets)
    /\ Overlook(targets[turn])
    /\ pc' = "describe"
    /\ UNCHANGED <<images, generator, arguments, turn, collected, raw, output, report>>

\* There is no reframe command.
NoReframe ==
    /\ pc = "target" /\ turn <= Len(targets)
    /\ pc' = "raised"
    /\ UNCHANGED <<images, generator, arguments, turn, loaded, collected, raw, output, report>>

-----------------------------------------------------------------------------
(* uenv.py: the recipes that have an image somewhere, and where. *)

\* Mutated RecordMatches: of a recipe without uarch only.
RecordMatchesNoUarch(recipe, r) == r.name = recipe[1] /\ r.version = recipe[2]

RecordMatches(recipe, r) ==
    /\ r.name = recipe[1] /\ r.version = recipe[2]
    /\ Len(recipe) > 2 => r.uarch = recipe[3]

\* _recipe_target_systems: a recipe is <name>/<version> at least.
RecipeTargetSystems(recipe, records) ==
    {r.system : r \in {x \in records : Len(recipe) >= 2 /\ RecordMatches(recipe, x)}}

\* The environments of one recipe, none if it is skipped or no system has its
\* image.
RecipeEnvironments(recipe, records) ==
    LET systems == RecipeTargetSystems(recipe, records)
        keys == RecipeEnvs[recipe]
    IN  IF recipe \in overlooked \/ systems = {} THEN <<>>
        ELSE [k \in DOMAIN keys |-> Environment(<<recipe, keys[k]>>, recipe, systems)]

\* The order in which rglob finds them.
RecipesFound == SetToSeq(Recipes)

\* _load_uenvs_from_recipes
LoadRecipes(records) ==
    IF path = None THEN <<>>
    ELSE FlattenSeq([i \in DOMAIN RecipesFound |->
                        RecipeEnvironments(RecipesFound[i], records)])

\* What ReFrame lists: the selected tests that are valid for an environment
\* of a partition of the system.
Described(t) ==
    LET envs == LoadRecipes(found.records)
        here == {p \in Partitions : SystemOf[p] = OnSystem(t)}
        names == UNION {ToSet(Environs(envs, p)) : p \in here}
    IN  {test \in Filter(t) : Valid[test] \cap names # {}}

-----------------------------------------------------------------------------
(* The loop over the targets goes on, whatever a run gives. *)

Collect(t, tests) ==
    /\ all_results' = all_results \cup (tests \X {t})
    /\ processed' = IF t \in ToSet(processed) THEN processed ELSE Append(processed, t)

NextTarget == turn' = turn + 1

Output(status, tests) == [status |-> status, tests |-> tests, overlooked |-> overlooked]

\* The return code is zero: the array of the output, or nothing printed.
Listed ==
    /\ pc = "describe" /\ found.usable
    /\ \E out \in {Output("listed", Described(targets[turn])), Output("silent", {})} :
          /\ Collect(targets[turn], out.tests)
          /\ output' = [output EXCEPT ![turn] = out]
    /\ raw' = turn
    /\ NextTarget
    /\ pc' = "target"
    /\ UNCHANGED <<images, generator, arguments, loaded, any_failures, report>>

\* Another return code, or an output without an array.
Failed ==
    /\ pc = "describe"
    /\ any_failures' = TRUE
    /\ output' = [output EXCEPT ![turn] = Output("failed", {})]
    /\ raw' = turn
    /\ NextTarget
    /\ pc' = "target"
    /\ UNCHANGED <<images, generator, arguments, loaded, all_results, processed, report>>

\* The array is one of something else: item.get is not caught.
Garbled ==
    /\ pc = "describe"
    /\ raw' = turn
    /\ pc' = "raised"
    /\ UNCHANGED <<images, generator, arguments, turn, loaded, collected, output, report>>

-----------------------------------------------------------------------------
(* renderers.py *)

Labels(ts) == [i \in DOMAIN ts |-> LabelOf(ts[i])]

\* existence_lookup
Exists(test, label) == \E r \in all_results : r[1] = test /\ LabelOf(r[2]) = label

UniqueTests == {r[1] : r \in all_results}

\* Tests of one directory are variants of one row when their names differ in
\* parameters, or in the prefix CPE_ or Uenv_.
Row(test) == <<test.dir, test.base>>

Variants(row) == {test \in UniqueTests : Row(test) = row}

\* Mutated Cell: the first variant stands for the row.
CellOfFirst(row, label) == Exists(CHOOSE test \in Variants(row) : TRUE, label)

Cell(row, label) == \E test \in Variants(row) : Exists(test, label)

\* Mutated Counted: one for each variant.
CountedVariants(row, label) == {test \in Variants(row) : Exists(test, label)}

\* What a row adds to the total of a column.
Counted(row, label) == IF Cell(row, label) THEN {row} ELSE {}

\* target_counts: every column adds to the count of its label.
TargetCount(rows, labels, label) ==
    Cardinality(UNION {Counted(row, label) \X {i} :
                          row \in rows, i \in {j \in DOMAIN labels : labels[j] = label}})

RawCount(label) == Cardinality({test \in UniqueTests : Exists(test, label)})

\* The columns of a matrix in which no target could be run are all of them.
Columns == IF processed # <<>> THEN processed ELSE targets

Table ==
    LET labels == Labels(Columns)
        rows == {Row(test) : test \in UniqueTests}
    IN  [written |-> TRUE,
         labels |-> labels,
         rows |-> rows,
         yes |-> {c \in rows \X ToSet(labels) : Cell(c[1], c[2])},
         grouped |-> [l \in ToSet(labels) |-> TargetCount(rows, labels, l)],
         raw |-> [l \in ToSet(labels) |-> RawCount(l)]]

\* Without targets nothing is written; success is reported nevertheless.
Generate ==
    /\ pc = "target" /\ turn > Len(targets)
    /\ report' = IF Columns = <<>> THEN report ELSE Table
    /\ pc' = "success"
    /\ UNCHANGED <<images, generator, arguments, turn, loaded, collected, raw, output>>

Stopped == pc \in {"success", "raised"}

Runs == RunReframe \/ NoReframe \/ Listed \/ Failed \/ Garbled

Program == AskSystem \/ WriteMerged \/ Start \/ Runs \/ Generate

Registry == \E r \in Records : Deploy(r)

Terminating == Stopped /\ UNCHANGED vars

Next == Program \/ Registry \/ Terminating

Spec == Init /\ [][Next]_vars

-----------------------------------------------------------------------------
Returned(i) == output[i].status \in {"listed", "silent"}

HasLabel(l) == {i \in DOMAIN targets : LabelOf(targets[i]) = l}

(* A cell of the table is a tick if and only if a run of a target with the *)
(* label of its column has listed a test of its row; a cross is never due  *)
(* to runs that have all failed (orchestrator.py:97-110,                   *)
(* renderers.py:271-283).                                                  *)
CellsTrue ==
    report.written =>
        \A row \in report.rows, l \in ToSet(report.labels) :
            /\ <<row, l>> \in report.yes <=>
                  \E i \in HasLabel(l) : \E t \in output[i].tests : Row(t) = row
            /\ \E i \in HasLabel(l) : Returned(i)

(* The totals of the table are those of its ticks and of the tests that    *)
(* ReFrame listed, when no two columns have one label                      *)
(* (renderers.py:158-162, 280-281).                                        *)
TotalsRight ==
    report.written /\ IsInjective(report.labels) =>
        \A l \in ToSet(report.labels) :
            /\ report.grouped[l] = Cardinality({c \in report.yes : c[2] = l})
            /\ report.raw[l] = Cardinality(UNION {output[i].tests : i \in HasLabel(l)})
            /\ report.grouped[l] <= report.raw[l]

\* The names of the environments of a recipe.
NamesOf(recipe) == {<<recipe, k>> : k \in ToSet(RecipeEnvs[recipe])}

BaseNames(s) == UNION {ToSet(BaseEnvirons[p]) : p \in {q \in Partitions : SystemOf[q] = s}}

Ticked(i, t) == <<Row(t), LabelOf(targets[i])>> \in report.yes

\* The test runs in an environment of the system itself, or in one of a recipe
\* deployed on it, with the version and the microarchitecture of the recipe.
RunsOn(t, s) ==
    \/ Valid[t] \cap BaseNames(s) # {}
    \/ \E recipe \in Recipes, r \in ever :
          /\ Valid[t] \cap NamesOf(recipe) # {}
          /\ <<r.name, r.version>> = SubSeq(recipe, 1, 2) /\ r.system = s
          /\ Len(recipe) = 3 => r.uarch = recipe[3]

\* A target of a system the inventory is about, ReFrame having listed its tests.
Reported(i) ==
    LET s == OnSystem(targets[i])
    IN  /\ output[i].status = "listed"
        /\ path = Live \/ (path \in Files /\ s \in ToSet(path))
        /\ \E p \in HasUenv : SystemOf[p] = s

(* A tick means that a test of its row is valid for the system, or for a    *)
(* recipe whose image has been deployed there.  The other way round, when   *)
(* an image is deployed all the time the tests of its recipe that a         *)
(* reported target selects have a tick in the column of the target, unless  *)
(* the loader passes over the recipe in that run, which lists the other     *)
(* tests and exits with zero (uenv.py:153-163, 244-249;                     *)
(* generate_uenv_image_inventory.py:84-105, uenv.py:113-220, cscs.py:77).   *)
EligibleMeansDeployed ==
    report.written =>
        /\ \A c \in report.yes : \E i \in HasLabel(c[2]), t \in Tests :
              Row(t) = c[1] /\ RunsOn(t, OnSystem(targets[i]))
        /\ \A i \in DOMAIN targets, r \in steady, recipe \in Recipes, t \in Tests :
              /\ Reported(i) /\ r.system = OnSystem(targets[i])
              /\ recipe \notin output[i].overlooked
              /\ recipe \in {<<r.name, r.version>>, <<r.name, r.version, r.uarch>>}
              /\ Valid[t] \cap NamesOf(recipe) # {} /\ t \in Filter(targets[i])
              => Ticked(i, t)
=============================================================================
