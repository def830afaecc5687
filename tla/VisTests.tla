-------------------------------- MODULE VisTests --------------------------------
(***************************************************************************)
(* The in situ visualisation tests: ascent, dummysph and paraview; and     *)
(* icon4py, which installs what it runs.                                   *)
(***************************************************************************)
EXTENDS ReframeTests

Ascent == {[with |-> {"ascent", "uenv"}, without |-> {"cpe"}]}
OnUenv == {With({"uenv"})}

Added(list) == [adds |-> {<<list, "own">>}]
Assigned(lists) == [assigns |-> lists, adds |-> lists \X {"own"}]

-----------------------------------------------------------------------------
(* ascent.  The C++ examples ask for the architecture of the first gpu when *)
(* they are built, though they are valid where there is none.               *)

CudaBuild(sets) == Compile("set_build",
    Added("prebuild_cmds") @@ [reads |-> {"devices"}, sets |-> sets])
RunScript(lists) == Run("set_run",
    Assigned(lists) @@ [sets |-> {"executable", "num_tasks", "num_tasks_per_node"}])
Images(reads) == Sanity("validate_test", [reads |-> reads])

uenv_ascent_intro_cpp_build == Compiled(OnUenv, Ascent, <<
    Compile("set_build", Added("prebuild_cmds"))>>)

\* The executable of the build is linked into the stage directory.
uenv_ascent_intro_cpp == Using(RunOnly(OnUenv, Ascent, <<
    After("set_executable", [parents |-> {<<"uenv_ascent_intro_cpp_build", "stagedir">>},
        sets |-> {"executable", "png"}, assigns |-> {"prerun_cmds"},
        adds |-> {"prerun_cmds", "postrun_cmds"} \X {"own"}]),
    Images({"png"})>>), {Fixture("uenv_ascent_intro_cpp_build", "environment")})

\* set_run adds to what set_code has added.
uenv_ascent_doublegyre_python == RunOnly(OnUenv, Ascent, <<
    Run("set_code", [adds |-> {<<"prerun_cmds", "unzip">>}]),
    Run("set_run", [assigns |-> {"postrun_cmds"}, sets |-> {"num_tasks"},
        adds |-> {"prerun_cmds", "postrun_cmds"} \X {"own"}]),
    Images({"stagedir"})>>)

uenv_ascent_doublegyre_cpp == Regression(OnUenv, Ascent, <<
    CudaBuild({}),
    Run("set_run", [assigns |-> {"postrun_cmds"}, sets |-> {"num_tasks"},
        adds |-> {"prerun_cmds", "postrun_cmds"} \X {"own"}]),
    Images({"stagedir"})>>)

uenv_ascent_heatdiffusion_python == RunOnly(OnUenv, Ascent, <<
    Run("set_code", [adds |-> {<<"prerun_cmds", "unzip">>}]),
    RunScript({"postrun_cmds"}), Images({"num_tasks"})>>)

uenv_ascent_heatdiffusion_cpp == Regression(OnUenv, Ascent, <<
    CudaBuild({}), RunScript({"postrun_cmds"}), Images({"stagedir"})>>)

uenv_ascent_noise == Regression(OnUenv, Ascent, <<
    CudaBuild({"srcdir"}), RunScript({"prerun_cmds", "postrun_cmds"}), Images({"stagedir"})>>)

uenv_ascent_kripke == Regression(OnUenv, Ascent, <<
    CudaBuild({"srcdir"}), RunScript({"prerun_cmds", "postrun_cmds"}), Images({"stagedir"})>>)

\* Built with make, and for gpus only.
uenv_ascent_cloverleaf3d == Regression({With({"uenv", "nvgpu"})}, Ascent, <<
    Compile("set_build", Added("prebuild_cmds")),
    Run("set_run", Assigned({"prerun_cmds", "postrun_cmds"}) @@ [sets |-> {"reports"}]),
    Images({"reports"})>>)

-----------------------------------------------------------------------------
(* dummysph *)

\* What has to be skipped is known from the parameters.
SphSkipped == {"unsupported", "expected failure"}

dummysph_uenv_ascent_single(parameters) == Regression(OnUenv, Ascent, <<
    Body("dummysph_uenv_ascent_single", parameters),
    AfterInit("skip_test", [skipIf |-> SphSkipped]),
    Compile("set_input_dir", [sets |-> {"input_dir"}]),
    Compile("set_build_system", Added("prebuild_cmds")
        @@ [reads |-> {"input_dir", "current_partition"}]),
    Run("set_executable_tests", Assigned({"job.options"})
        @@ [reads |-> {"input_dir", "job"}, sets |-> {"executable_opts"}])>>)

-----------------------------------------------------------------------------
(* icon4py *)

IconEnviron(gpus) == [with |-> {"uenv", gpus}, without |-> {"qe", "qe-dev", "q-e-sirius"}]

ICON4PyBenchmarks == RunOnly({With({"uenv", "amdgpu"}), With({"uenv", "nvgpu"})},
    {IconEnviron("rocm"), IconEnviron("cuda")}, <<
    On("body", "ICON4PyBenchmarks", [adds |-> {<<"env_vars", "CC">>}]),
    Run("prepare_env", Added("env_vars") @@ [reads |-> {"devices", "current_environ"}]),
    Run("install_deps", Assigned({"prerun_cmds"})),
    Perf("set_perf_vars", [sets |-> {"perf_variables"}])>>)

-----------------------------------------------------------------------------
(* paraview *)

ParaView_coloredSphere == RunOnly(OnUenv, {With({"paraview-python"})}, <<
    Run("output_file_info", Assigned({"postrun_cmds"})),
    Sanity("assert_vendor_renderer", [reads |-> {"current_partition"}])>>)

ParaView_catalystClipping == Regression({With({"uenv", "remote"})}, {With({"paraview-python"})}, <<
    On("body", "ParaView_catalystClipping", [adds |-> {<<"env_vars", "CATALYST">>}]),
    Compile("prepare_build", Assigned({"prebuild_cmds"})),
    Run("prepare_runtime", Assigned({"postrun_cmds"}) @@ [sets |-> {"executable_opts"}])>>)
=============================================================================
