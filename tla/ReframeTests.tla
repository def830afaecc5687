----------------------------- MODULE ReframeTests -----------------------------
(***************************************************************************)
(* The tests of checks/ as ReFrame runs them.  A test is a class with      *)
(* hooks: methods that are attached before or after a stage of the         *)
(* pipeline.  ReFrame makes a case of the test for each partition and      *)
(* environment the test is valid on, and takes all the cases through the   *)
(* stages, each at its own pace, but for a case that uses others - its     *)
(* fixtures and the tests it depends on - which waits for them.            *)
(*                                                                         *)
(* Of a test the model keeps, hook by hook in the order they run: what the *)
(* hook reads (an attribute of the test, a fact of its partition or        *)
(* environment, an attribute of a test it uses), the table it looks its    *)
(* microarchitecture up in, what it sets, what it adds to a list of        *)
(* options and which of these lists it assigns anew, and when it skips.    *)
(* ReFrame itself is external: here, what the tests rely on.               *)
(***************************************************************************)
EXTENDS Sequences, FiniteSets, SequencesExt

-----------------------------------------------------------------------------
(* A hook, by default one that does nothing. *)

\* Every row of a table, or no table.
AnyRow == {"any"}

NoEffect ==
    [reads |-> {},      \* attributes and facts that must be there
     parents |-> {},    \* <<test, attribute>> read of a test in use
     rows |-> AnyRow,   \* the microarchitectures of the table it looks up
     skipIf |-> {},     \* skips when one of these facts is there
     skipUnless |-> {}, \* skips unless all of these are there
     sets |-> {},       \* attributes it sets
     adds |-> {},       \* <<list, item>>: an item it adds to a list of options
     assigns |-> {},    \* lists it assigns anew, before it adds
     writes |-> {}]     \* lists it writes to a file

On(point, name, what) == what @@ [at |-> point, name |-> name] @@ NoEffect

AfterInit(name, what) == On("after init", name, what)
After(name, what) == On("after setup", name, what)
Compile(name, what) == On("before compile", name, what)
Run(name, what) == On("before run", name, what)
Sanity(name, what) == On("sanity", name, what)
Perf(name, what) == On("before performance", name, what)

\* The attributes of the body of a class.
Body(class, attributes) == On("body", class, [sets |-> attributes])

\* A constraint of valid_systems or valid_prog_environs: +a +b -c.
With(a) == [with |-> a, without |-> {}]
But(a, b) == [with |-> a, without |-> b]
Everything == {With({})}

\* A mutated Inherit: the hooks of the class run before the inherited ones.
InheritOwnFirst(hooks, own) == own \o hooks

\* Hooks run in the reverse order of the classes; one that is overridden
\* keeps its place.
Inherit(hooks, own) ==
    LET named(s, n) == {i \in DOMAIN s : s[i].name = n}
        kept == [i \in DOMAIN hooks |->
                   IF named(own, hooks[i].name) = {} THEN hooks[i]
                   ELSE own[CHOOSE j \in named(own, hooks[i].name) : TRUE]]
    IN  kept \o SelectSeq(own, LAMBDA h : named(hooks, h.name) = {})

\* A regression test: it compiles, runs, or does both; "uses" has its fixtures
\* and dependencies with the scope they have, "refs" the microarchitectures
\* it has performance references for.
Test(kind, systems, environs, hooks) ==
    [kind |-> kind, systems |-> systems, environs |-> environs,
     uses |-> {}, refs |-> {}, hooks |-> hooks]

Compiled(systems, environs, hooks) == Test("compile", systems, environs, hooks)
RunOnly(systems, environs, hooks) == Test("run", systems, environs, hooks)
Regression(systems, environs, hooks) == Test("both", systems, environs, hooks)

Extend(base, own) == [base EXCEPT !.hooks = Inherit(@, own)]
Derive(base, what, own) == what @@ Extend(base, own)

\* A class with a plugin: the hooks of the plugin come first.
Mixed(base, plugin) == [base EXCEPT !.hooks = Inherit(plugin, @)]

Using(class, uses) == [class EXCEPT !.uses = uses]

Fixture(class, scope) == [test |-> class, scope |-> scope]
DependsFully(class) == [test |-> class, scope |-> "fully"]

-----------------------------------------------------------------------------
(* Partitions and environments are sets of facts: names, features, what is *)
(* known of the devices and of the processor.                              *)

\* uenv.py: by the first device, without devices by the processor.
Uarch(devices, processor) ==
    IF devices # "none"
    THEN CASE devices = "sm_90"  -> {"gh200"}
           [] devices = "sm_80"  -> {"a100"}
           [] devices = "gfx90a" -> {"mi200"}
           [] devices = "gfx942" -> {"mi300"}
           [] OTHER -> {}
    ELSE processor \cap {"zen2", "zen3"}

\* select_devices('gpu')[0] and its attributes.
Devices(arch) == IF arch = "none" THEN {} ELSE {"devices", arch}

\* A partition of a system, with the processors it may have.
Part(names, features, arch, processors) ==
    [facts |-> names \cup features, arch |-> arch, processors |-> processors]

Meets(constraint, facts) ==
    constraint.with \subseteq facts /\ constraint.without \cap facts = {}

Valid(constraints, facts) == \E k \in constraints : Meets(k, facts)

-----------------------------------------------------------------------------
(* The pipeline *)

Points ==
    <<"body", "after init", "before setup", "setup", "after setup",
      "before compile", "compile", "after compile", "before run", "run",
      "after run", "before sanity", "sanity", "before performance", "performance">>

\* The scripts of the build and of the job are written when it is submitted.
WrittenBy(stage) ==
    CASE stage = "compile" -> {"prebuild_cmds", "postbuild_cmds"}
      [] stage = "run" -> {"job.options", "launcher.options", "env_vars",
                           "executable_opts", "prerun_cmds", "postrun_cmds"}
      [] OTHER -> {}

LoadPoints == {"body", "after init"}
Stages == {"setup", "compile", "run", "performance"}

\* A test that only compiles has no run stage, one that only runs no compile.
NotIn(kind) ==
    CASE kind = "run" -> {"before compile", "compile", "after compile"}
      [] kind = "compile" -> {"before run", "run", "after run"}
      [] OTHER -> {}

\* The hooks of a test and the stages, in the order of the pipeline.
Program(class) ==
    LET at(p) == IF p \in NotIn(class.kind) THEN <<>>
                 ELSE IF p \in Stages THEN <<On(p, p, [writes |-> WrittenBy(p)])>>
                 ELSE SelectSeq(class.hooks, LAMBDA h : h.at = p)
    IN  FlattenSeq([i \in DOMAIN Points |-> at(Points[i])])

\* A test of the catalogue: its class, and what it goes through.
Load(class) == class @@ [program |-> Program(class)]

-----------------------------------------------------------------------------
CONSTANTS
    Class,      \* test -> its class, loaded
    Roots,      \* the tests that are selected, one at a time
    Parts,      \* partition -> its description
    Environs,   \* test, partition -> the environments, sets of facts
    MaxEnvirons \* bound on the environments of one session

VARIABLES
    session, \* the cases of the session: their test, partition and environment
    next,    \* case -> the position in its program
    held,    \* case -> the facts and attributes it holds
    put,     \* case -> the options it has collected, <<list, item>>
    lost,    \* case -> options assigned away, or added too late (history)
    end,     \* case -> how it ended, "running" before
    blame    \* the facts and attributes that were missing when a hook raised

testVars == <<session, next, held, put, lost, end, blame>>

-----------------------------------------------------------------------------
\* What a case holds once it is set up.
Facts(c) ==
    Parts[c.part].facts \cup Devices(Parts[c.part].arch) \cup c.env \cup c.proc
      \cup Uarch(Parts[c.part].arch, c.proc)
      \cup {"current_partition", "current_environ", "stagedir", "job"}

\* The tests in use, directly or not: a build and its sources at most.
InUse(tests) == tests \cup {u.test : u \in UNION {Class[t].uses : t \in tests}}
Closure(t) == InUse(InUse(InUse({t})))

\* A fixture of the session runs once, in one of the environments.
OncePerSession(tests, t) ==
    \E u \in UNION {Class[s].uses : s \in tests} : u.test = t /\ u.scope = "session"

CasesOf(t, p, proc, envs) ==
    {[test |-> t, part |-> p, env |-> e, proc |-> proc] : e \in envs}

\* The cases of the root t on the partition p: a fixture of the session in the
\* environment e, the others in all of envs.
SessionOf(t, p, proc, envs, e) ==
    UNION {CasesOf(u, p, proc, IF OncePerSession(Closure(t), u) THEN {e} ELSE envs) :
             u \in Closure(t)}

\* The cases of the tests in use that case c waits for: those of a dependency
\* (udeps.fully) in all the environments, a fixture in its own or in the one of
\* the session.
Used(c) ==
    {d \in session : \E u \in Class[c.test].uses :
        d.test = u.test /\ (u.scope \notin {"session", "fully"} => d.env = c.env)}

\* The cases it takes from: getdep gives the one of its own environment.
Sources(c) ==
    {d \in session : \E u \in Class[c.test].uses :
        d.test = u.test /\ (u.scope # "session" => d.env = c.env)}

\* What a session knows of its shell and of its command line before a case has
\* an environment.
Ambient == {"CSCS_RFM_UENV", "-S container_image"}

TestsInit ==
    \E t \in Roots, p \in DOMAIN Parts :
    \E proc \in Parts[p].processors, envs \in SUBSET Environs[t, p] :
    \E e \in envs :
        /\ Valid(Class[t].systems, Parts[p].facts)
        /\ Cardinality(envs) <= MaxEnvirons
        /\ session = SessionOf(t, p, proc, envs, e)
        /\ next = [c \in session |-> 1]
        /\ held = [c \in session |-> c.env \cap Ambient]
        /\ put = [c \in session |-> {}]
        /\ lost = [c \in session |-> {}]
        /\ end = [c \in session |-> "running"]
        /\ blame = {}

-----------------------------------------------------------------------------
Hook(c) == Class[c.test].program[next[c]]

IsLoading(c) ==
    /\ end[c] = "running" /\ next[c] <= Len(Class[c.test].program)
    /\ Hook(c).at \in LoadPoints

Loaded == \A c \in session : ~IsLoading(c)

\* The case that is being loaded: they are loaded one after the other.
Loading == CHOOSE c \in session : IsLoading(c)

\* All the tests are loaded before one runs; a case starts when those it uses
\* have passed.
MayRun(c) ==
    /\ end[c] = "running" /\ next[c] <= Len(Class[c.test].program)
    /\ IF Loaded THEN \A d \in Used(c) : end[d] = "passed" ELSE c = Loading

IsHook(c) == MayRun(c) /\ Hook(c).at \notin Stages

Skips(c) ==
    \/ Hook(c).skipIf \cap held[c] # {}
    \/ ~(Hook(c).skipUnless \subseteq held[c])

\* What a hook reads and is not there: an AttributeError, a KeyError, ...
Missing(c) ==
    (Hook(c).reads \ held[c])
      \cup {a \in Hook(c).parents : \A d \in Sources(c) :
              d.test # a[1] \/ a[2] \notin held[d]}
      \cup (IF Hook(c).rows = AnyRow \/ Hook(c).rows \cap held[c] # {}
            THEN {} ELSE {"row"})

Ends(c, how) ==
    /\ end' = [end EXCEPT ![c] = how]
    /\ UNCHANGED <<session, next, held, put, lost>>

SkipCase(c) == IsHook(c) /\ Skips(c) /\ Ends(c, "skipped") /\ UNCHANGED blame

HookRaises(c) ==
    /\ IsHook(c) /\ ~Skips(c) /\ Missing(c) # {}
    /\ Ends(c, "raised")
    /\ blame' = blame \cup Missing(c)

\* A hook raises for what it looks for outside of the tests: a file the job was
\* to write, a variable of the shell, the version of an image.  (A sanity function
\* that raises fails the test.)
OutsideRaises(c) ==
    /\ IsHook(c) /\ Hook(c).at \notin {"body", "sanity"} /\ ~Skips(c) /\ Missing(c) = {}
    /\ Ends(c, "raised")
    /\ UNCHANGED blame

\* The options a hook leaves: those of the lists it assigns are its own.
PutBy(h, options) == {o \in options : o[1] \notin h.assigns} \cup h.adds

\* Added to a list that was written before.
Late(c) == {o \in Hook(c).adds : o[1] \in held[c]}

RunHook(c) ==
    LET h == Hook(c) IN
    /\ IsHook(c) /\ ~Skips(c) /\ Missing(c) = {}
    /\ held' = [held EXCEPT ![c] = @ \cup h.sets \cup h.writes]
    /\ put' = [put EXCEPT ![c] = PutBy(h, @)]
    /\ lost' = [lost EXCEPT ![c] = @ \cup (put[c] \ PutBy(h, put[c])) \cup Late(c)]
    /\ next' = [next EXCEPT ![c] = @ + 1]
    /\ UNCHANGED <<session, end, blame>>

\* setup makes the job and gives the test its partition and environment.
RunStage(c) ==
    /\ MayRun(c) /\ Hook(c).at \in Stages
    /\ held' = [held EXCEPT ![c] = @ \cup Hook(c).writes
                                    \cup IF Hook(c).at = "setup" THEN Facts(c) ELSE {}]
    /\ next' = [next EXCEPT ![c] = @ + 1]
    /\ UNCHANGED <<session, put, lost, end, blame>>

\* The build or the job fails, or its output is not what the test expects.
FailCase(c) ==
    /\ MayRun(c) /\ Hook(c).at \in {"compile", "run", "sanity", "performance"}
    /\ Ends(c, "failed")
    /\ UNCHANGED blame

PassCase(c) ==
    /\ end[c] = "running" /\ next[c] > Len(Class[c.test].program)
    /\ Ends(c, "passed")
    /\ UNCHANGED blame

\* A case that uses one that did not pass never starts.
BlockCase(c) ==
    /\ end[c] = "running" /\ Loaded
    /\ \E d \in Used(c) : end[d] \notin {"running", "passed"}
    /\ Ends(c, IF \E d \in Used(c) : end[d] = "skipped" THEN "skipped" ELSE "blocked")
    /\ UNCHANGED blame

CaseStep(c) ==
    \/ RunHook(c) \/ HookRaises(c) \/ OutsideRaises(c) \/ SkipCase(c)
    \/ RunStage(c) \/ FailCase(c) \/ PassCase(c) \/ BlockCase(c)

\* The session is over.
SessionOver ==
    /\ session # {} /\ \A c \in session : end[c] # "running"
    /\ UNCHANGED testVars

TestsNext == SessionOver \/ \E c \in session : CaseStep(c)

-----------------------------------------------------------------------------
(* Properties *)

\* What no test is to leave: the row of the microarchitecture of the machine,
\* what is known of its nodes, an image only the user can name.
FromOutside == {"row", "devices", "procinfo", "cn_memory", "-S container_image"}

\* A hook finds all the attributes and options that the hooks before it, its
\* plugins and the tests in use are to leave, whatever classes the test is put
\* together from and however the cases interleave.  Of what lies outside of the
\* tests - the machine, the user, the files of a job - it may find nothing, and
\* raise (e.g. mixins/container_engine.py:55, and every run_after, run_before).
NothingUnset == blame \subseteq FromOutside

\* A test with a performance reference for a microarchitecture is not ended
\* there by a table without a row for it (cp2k_uenv.py:17 and 41, and the other
\* pairs of tables), provided the processor is known.
ReferencedRuns ==
    \A c \in session :
        (end[c] = "raised" /\ "procinfo" \in held[c]
            /\ Class[c.test].refs \cap held[c] # {}) => "row" \notin Missing(c)

\* The classes that lose an option of theirs: the variable of the class is
\* assigned away by an inherited hook (osu_tests.py:342 and 271), or by the
\* class those of a plugin (sphexa.py:60, slurm_mpi_pmix.py:21).
LosesItsOwn == {"osu_pt2pt_cuda", "SphExa_CE", "SphExa_Skybox"}

\* No option that a class, a base class or a plugin has added is assigned away
\* by another hook, or added after the script was written.
NothingLost ==
    \A c \in session : c.test \notin LosesItsOwn => lost[c] = {}
=============================================================================
