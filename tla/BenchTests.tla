------------------------------ MODULE BenchTests ------------------------------
(***************************************************************************)
(* The microbenchmarks, checks/microbenchmarks and hpctestlib: communica-  *)
(* tion (OSU, NCCL and RCCL), node burn, HPL, GEMM, GPU algorithms, memory *)
(* and the GPU burn benchmark of GpuBurn as a test.                        *)
(***************************************************************************)
EXTENDS AppTests, MLTests

\* self.uarch = uarch(self.current_partition): references, if there are any.
References(hook) == Perf(hook, [reads |-> {"current_partition"}, sets |-> {"uarch"}])

-----------------------------------------------------------------------------
(* The OSU benchmarks, of a uenv *)

\* The processor is asked for the cpus of a socket.
OSUBase == Mixed(RunOnly({With({"remote"})}, {Uenv({"osu-micro-benchmarks"})}, <<
    Body("BaseCheck", {"executable"}),
    After("prepare_test", [skipUnless |-> {"procinfo"}, reads |-> {"current_partition"}])>>),
    UenvSlurmMpiOptionsMixin)

OSULatency == Extend(OSUBase, <<Perf("set_perf", [sets |-> {"perf_patterns"}])>>)
OSUBandwidth == OSULatency

\* A plugin: what it sets after init replaces what the class has.
OSUCuda(class) == Derive(class,
    [systems |-> {With({"remote", "nvgpu"})},
     environs |-> {Uenv({"osu-micro-benchmarks", "cuda"})}], <<
    AfterInit("setup_test", [assigns |-> {"env_vars", "executable_opts"},
        adds |-> {<<"env_vars", "MPICH_GPU_SUPPORT_ENABLED">>, <<"executable_opts", "cuda">>}])>>)

-----------------------------------------------------------------------------
(* The OSU benchmarks, built: fetched once per session, built per          *)
(* environment, for the cpu or for cuda.                                   *)

CPEMixin ==
    <<After("set_container_mounts", [reads |-> {"current_environ", "stagedir"}])>>

fetch_osu_benchmarks == Download({"version"})

CudaOnly(type, what) == IF type = "cuda" THEN what ELSE {}

build_osu_benchmarks(type) == Using(Mixed(Compiled(Everything, Everything, <<
    After("skip_incompatible_envs_cuda", [skipIf |-> CudaOnly(type, {"PrgEnv-cray"}),
        reads |-> {"current_environ"}]),
    After("setup_compilers", [reads |-> CudaOnly(type, {"devices", "current_environ"})]),
    Compile("prepare_build", [reads |-> {"stagedir"}, sets |-> {"build_prefix"},
        parents |-> {"fetch_osu_benchmarks"} \X {"version", "stagedir"},
        adds |-> {<<"prebuild_cmds", "tar">>}])>>), CPEMixin),
    {Fixture("fetch_osu_benchmarks", "session")})

\* The bench and its options, from the parameter and the buffers.
osu_benchmark(systems, environs) == Mixed(RunOnly(systems, environs, <<
    On("before setup", "setup_per_benchmark", [assigns |-> {"executable_opts"},
        adds |-> {<<"executable_opts", "-m">>}, sets |-> {"executable", "message_size"}]),
    Sanity("validate_test", [reads |-> {"message_size"}])>>),
    ExtraLauncherOptionsMixin \o CPEMixin)

\* It assigns the environment of the job.
osu_build_run(type, build) == Using(
    Extend(osu_benchmark({With({"remote"} \cup CudaOnly(type, {"nvgpu"}))},
                         {With({"mpi"} \cup CudaOnly(type, {"cuda"}))}), <<
        Run("set_environment", [assigns |-> {"env_vars"},
            adds |-> {<<"env_vars", "MPICH_GPU_SUPPORT_ENABLED">>},
            reads |-> CudaOnly(type, {"devices", "current_environ"})]),
        Run("prepend_build_prefix", [parents |-> {build} \X {"stagedir", "build_prefix"},
            sets |-> {"executable"}])>>),
    {Fixture(build, "environment")})

\* The variable it adds for cuda is assigned away by set_environment.
osu_pt2pt_check(type, build) == Extend(osu_build_run(type, build), <<
    AfterInit("setup_per_build_type",
        [adds |-> CudaOnly(type, {<<"env_vars", "MPICH_RDMA_ENABLED_CUDA">>})])>>)

osu_collective_check(type, build) == Extend(osu_build_run(type, build), <<
    AfterInit("setup_by_scale", [sets |-> {"num_tasks"}])>>)

-----------------------------------------------------------------------------
(* NCCL and RCCL, in a container or in a uenv *)

XCCLTestsBase(systems, environs) == RunOnly(systems, environs, <<
    After("set_executable", [sets |-> {"executable"}]),
    After("set_num_gpus_per_node", [reads |-> {"devices"}, sets |-> {"num_gpus_per_node"}]),
    After("set_nchannels_per_net_peer", [adds |-> {<<"env_vars", "NCCL_NCHANNELS_PER_NET_PEER">>}]),
    After("set_executable_opts", [assigns |-> {"executable_opts"},
        adds |-> {<<"executable_opts", "--minbytes">>}]),
    References("set_reference"), Perf("set_perf", [sets |-> {"perf_patterns"}])>>)

XCCLTestsBaseCE(where) == Extend(
    Mixed(XCCLTestsBase({With({"ce", where})}, Builtin), ContainerEngineMixin \o SlurmMpiPmixMixin),
    <<Body("container_env_table", {"container_env_table:hooks"})>>)

XCCLTestsBaseUENV(where, environ) ==
    Mixed(XCCLTestsBase({With({where})}, {Uenv({environ})}), UenvSlurmMpiOptionsMixin)

\* A hook of the container, in the table of the class.
ContainerHook(hook, item) ==
    AfterInit(hook, [reads |-> {"container_env_table:hooks"},
                     adds |-> {<<"container_env_table", item>>}])

_set_xccl_uenv_env_vars == {<<"env_vars", "NCCL_CROSS_NIC">>}
_set_rccl_uenv_env_vars == {<<"env_vars", "NCCL_GDRCOPY_ENABLE">>}
_set_rccl_min_nchannels == {<<"env_vars", "NCCL_MIN_NCHANNELS">>}

NCCLTestsCE == Extend(XCCLTestsBaseCE("nvgpu"), <<
    Body("container_image", {"container_image"}), ContainerHook("setup_ce", "aws_ofi_nccl")>>)
NCCLTestsCEHost == Extend(NCCLTestsCE, <<ContainerHook("setup_netstack_source", "netstack.source")>>)
NCCLTestsSkybox == Extend(NCCLTestsCE, <<ContainerHook("setup_hooks", "cxi.enabled")>>)
NCCLTestsUENV == Extend(XCCLTestsBaseUENV("nvgpu", "nccl-tests"), <<
    After("set_env_vars", [adds |-> _set_xccl_uenv_env_vars])>>)

RCCLTestsCE == Extend(XCCLTestsBaseCE("amdgpu"), <<
    AfterInit("setup_ce", [reads |-> {"container_env_table:hooks"}, sets |-> {"container_image"},
        adds |-> {<<"container_env_table", "aws_ofi_nccl">>}]),
    After("set_env_vars", [reads |-> {"devices"}, adds |-> _set_rccl_min_nchannels])>>)
RCCLTestsUENV == Extend(XCCLTestsBaseUENV("amdgpu", "rccl-tests"), <<
    After("set_env_vars", [reads |-> {"devices"}, adds |-> _set_rccl_min_nchannels
        \cup _set_xccl_uenv_env_vars \cup _set_rccl_uenv_env_vars])>>)

-----------------------------------------------------------------------------
(* Node burn, in a container and built on the node *)

NodeBurnCE(systems) == Mixed(RunOnly({With(systems)}, Builtin, <<
    Body("NodeBurnCE", {"container_image", "test_hw"}),
    References("validate_perf")>>), ContainerEngineMixin)

\* One task per GPU; GEMM and Stream differ in the options.
CudaNodeBurnCE == Extend(NodeBurnCE({"ce", "nvgpu"}), <<
    Run("setup_job", [skipUnless |-> {"procinfo"}, reads |-> {"devices", "job"},
        assigns |-> {"job.options", "executable_opts"},
        adds |-> {<<"job.options", "--gpus-per-task">>}, sets |-> {"num_tasks"}]),
    Sanity("validate_test", [reads |-> {"num_tasks", "test_hw"}])>>)

\* A task per socket on gh200, one otherwise.
CPUNodeBurnCE == Extend(NodeBurnCE({"ce"}), <<
    Run("setup_job", [skipUnless |-> {"procinfo"}, reads |-> {"current_partition"},
        adds |-> {<<"env_vars", "OMP_NUM_THREADS">>}, sets |-> {"num_tasks"}]),
    Sanity("validate_test", [reads |-> {"num_tasks", "test_hw"}])>>)

\* The processor is asked in the build, before the test is skipped.
baremetal_cuda_node_burn == Regression({With({"nvgpu", "remote"})}, Builtin, <<
    Compile("set_compilation_env", [reads |-> {"procinfo"}, assigns |-> {"env_vars"},
        adds |-> {<<"prebuild_cmds", "git clone">>, <<"env_vars", "PATH">>}]),
    Compile("set_build_system_attrs", [reads |-> {"current_partition"}]),
    Run("set_executable", [skipUnless |-> {"procinfo"}, reads |-> {"devices"},
        assigns |-> {"executable_opts"}]),
    References("validate_perf")>>)

-----------------------------------------------------------------------------
(* HPL, GEMM, GPU algorithms, FFT *)

AmdUenv == {Uenv({"amdgpu"})}
RocmPrgEnv == {Uenv({"prgenv", "rocm"})}
GpuPrgEnv == RocmPrgEnv \cup {Uenv({"prgenv", "cuda"})}

rochpl_rows == {"mi200", "mi300"}

RocHPL == [Mixed(Regression(AmdUenv, RocmPrgEnv, <<
    Compile("set_build_options", [reads |-> {"devices"}]),
    Run("set_executable", [reads |-> {"current_partition", "job", "stagedir"}, rows |-> rochpl_rows,
        assigns |-> {"job.options"}, sets |-> {"uarch", "executable", "num_tasks"},
        adds |-> Nodes \cup {<<"launcher.options", "--cpu-bind">>, <<"executable_opts", "-p">>,
                             <<"env_vars", "OMP_NUM_THREADS">>}]),
    Sanity("assert_results", [reads |-> {"stagedir"}, sets |-> {"perf_"}]),
    Perf("set_perf_vars", [reads |-> {"perf_"}])>>), UenvSlurmMpiOptionsMixin)
    EXCEPT !.refs = rochpl_rows]

CoralGemm == Regression(AmdUenv, RocmPrgEnv, <<
    Compile("set_build_options", [reads |-> {"devices", "current_environ"}]),
    After("set_num_gpus", [reads |-> {"devices"}, sets |-> {"num_gpus"}]),
    Run("set_executable", [assigns |-> {"executable_opts"}, sets |-> {"executable"}]),
    Sanity("assert_results", [reads |-> {"num_gpus"}]),
    Perf("set_perf_vars", [reads |-> {"num_gpus"}, sets |-> {"perf_variables"}]),
    References("set_references")>>)

\* Valid with a uenv, GPU or not.
ParallelAlgos == Regression({Uenv({})}, GpuPrgEnv, <<
    Compile("prepare_build", [reads |-> {"devices", "current_environ"}, sets |-> {"_srcdir"},
        adds |-> {<<"prebuild_cmds", "cd">>}]),
    Run("set_executable", [reads |-> {"_srcdir"}, assigns |-> {"executable_opts"},
        sets |-> {"executable"}]),
    On("before sanity", "set_sanity", [sets |-> {"sanity_patterns"}]),
    Perf("set_perf_vars", [sets |-> {"perf_variables"}]), References("set_references")>>)

FFTBenchBuild == Compiled(GpuUenv, GpuPrgEnv, <<
    Compile("prepare_build", [reads |-> {"current_environ", "stagedir"}, sets |-> {"executable"},
        adds |-> {<<"prebuild_cmds", "cd">>}]),
    Sanity("validate_test", [reads |-> {"executable"}])>>)

FFTCheck == Using(RunOnly(GpuUenv, GpuPrgEnv, <<
    Run("set_executable", Built("FFTBenchBuild", "executable")),
    Perf("set_perf_vars", [sets |-> {"perf_variables"}]), References("set_references")>>),
    {DependsFully("FFTBenchBuild")})

-----------------------------------------------------------------------------
(* Memory: STREAM and the speed of allocation *)

\* The size of the arrays is four times the caches.
StreamTest == Mixed(Regression({With({"remote"})}, {With({"openmp"})}, <<
    After("prepare_test", [skipUnless |-> {"procinfo"}, reads |-> {"current_partition", "current_environ"},
        adds |-> {<<"env_vars", "OMP_NUM_THREADS">>}, sets |-> {"num_tasks"}]),
    Perf("set_reference", [reads |-> {"procinfo"}])>>), CPEMixin)

\* Without a module for the hugepages it is skipped.
AllocSpeedTest(hugepages) == Regression({With({"remote"})}, {Uenv({"prgenv"})}, <<
    After("set_modules", [reads |-> {"current_environ"},
        skipUnless |-> IF hugepages = "no" THEN {} ELSE {"hugepages2M"}]),
    Perf("set_reference", [sets |-> {"reference"}])>>)

-----------------------------------------------------------------------------
(* The GPU burn benchmark: built per environment, with its features and    *)
(* the devices of the partition, if there are any.                         *)

\* For neither cuda nor hip there is no makefile: it raises.
gpu_burn_build(feature) == Compiled(Everything, Everything, <<
    Compile("setup_build", [reads |-> {"current_partition", "current_environ", feature}]),
    Sanity("valid_build", [reads |-> {"job"}])>>)

gpu_burn_check(build, feature) == Using(RunOnly({With({"gpu"})}, {With({feature})}, <<
    Body("gpu_burn_check", {"executable"}),
    Run("set_exec_opts", [adds |-> {<<"executable_opts", "-d">>}]),
    Run("add_exec_prefix", [reads |-> {"executable"}, parents |-> {<<build, "stagedir">>}]),
    Run("set_num_gpus_per_node", [reads |-> {"current_partition"}])>>),
    {Fixture(build, "environment")})
=============================================================================
