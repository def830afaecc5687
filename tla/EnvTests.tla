------------------------------- MODULE EnvTests -------------------------------
(***************************************************************************)
(* The tests of the programming environments and of the containers,        *)
(* checks/prgenv, checks/containers and checks/system/ce.                 *)
(***************************************************************************)
EXTENDS BenchTests

\* What most of these tests are valid on.
Remote == {With({"remote"})}
Nvidia == {With({"nvgpu"})}
RemoteNvidia == {With({"remote", "nvgpu"})}
ContainerNode == {With({"ce"})}
NvidiaContainer == {With({"ce", "nvgpu"})}
UenvOf(features) == {Uenv(features)}
NotUenv(features) == {But(features, {"uenv"})}
UenvNotCpe(features) == {But(features \cup {"uenv"}, {"cpe"})}

ReadsOutput(name) == Sanity(name, [reads |-> {"job"}])
PerEnviron(class) == Fixture(class, "environment")

-----------------------------------------------------------------------------
(* prgenv: MPI *)

\* The options of the tests with an MPI of their own: launcher_options.
LauncherOptions(name) == Run(name, [reads |-> {"current_environ", "job"},
    adds |-> {<<"launcher.options", "launcher_options">>}])

SkipMi200 == After("skip_mi200", [reads |-> {"current_partition"}])

\* The launcher's command is taken as it is then; the commands are assigned.
MpiInitTest == Mixed(Regression(Remote, {With({"mpi", "prgenv"})}, <<
    SkipMi200, LauncherOptions("set_job_parameters"),
    Run("pre_launch", [reads |-> {"job"}, writes |-> {"launcher.options"},
        assigns |-> {"prerun_cmds", "postrun_cmds"}, adds |-> {<<"prerun_cmds", "srun">>}]),
    On("before sanity", "set_sanity", [reads |-> {"stagedir"}, sets |-> {"sanity_patterns"}])>>),
    CPEMixin \o UenvSlurmMpiOptionsMixin)

\* The flags of the compiler, by the architecture: sm_80 is not there.
MpiGpuDirectOOM == Mixed(Regression({With({"remote", "nvgpu"}), With({"remote", "amdgpu"})},
    {But({"mpi", "cuda", "prgenv"}, {"cpe"}), But({"mpi", "rocm", "prgenv"}, {"cpe"})}, <<
    SkipMi200,
    Compile("set_gpu_flags", [reads |-> {"devices"}, rows |-> {"sm_90", "gfx942", "gfx90a"}]),
    Run("use_hpe_workaround", [adds |-> {<<"env_vars", "MPICH_GPU_IPC_ENABLED">>,
                                         <<"prerun_cmds", "echo">>}])>>),
    CPEMixin \o UenvSlurmMpiOptionsMixin)

HelloWorldBaseTest(environs) == Mixed(Regression(Remote, environs, <<
    AfterInit("set_description", [sets |-> {"descr"}]),
    Compile("prepare_build", [adds |-> {<<"env_vars", "CRAYPE_LINK_TYPE">>}]),
    Sanity("assert_hello_world", [reads |-> {"num_cpus_per_task"}])>>),
    ExtraLauncherOptionsMixin \o CPEMixin \o UenvSlurmMpiOptionsMixin)

\* The description of the base is extended.
HelloWorld(environs, own) == Extend(HelloWorldBaseTest({With(environs \cup {"prgenv"})}), <<
    Body("HelloWorld", {"num_cpus_per_task"}),
    AfterInit("update_description", [reads |-> {"descr"}]),
    Compile("update_sourcepath", [sets |-> {"sourcepath"}])>> \o own)

OpenMPHooks == <<
    Compile("set_openmp_flags", [reads |-> {"current_environ"}]),
    Run("set_omp_env_variable", [reads |-> {"num_cpus_per_task"},
        adds |-> {<<"env_vars", "OMP_NUM_THREADS">>}])>>

HelloWorldTestSerial == HelloWorld({"serial"}, <<>>)
HelloWorldTestOpenMP == HelloWorld({"openmp"}, OpenMPHooks)
HelloWorldTestMPI == HelloWorld({"mpi"}, <<>>)
HelloWorldTestMPIOpenMP == HelloWorld({"mpi", "openmp"}, OpenMPHooks)

cpi_build_test == Regression(Remote, {But({"mpi", "prgenv"}, {"cpe"})}, <<
    Run("setup_job", [sets |-> {"num_tasks"}])>>)

-----------------------------------------------------------------------------
(* prgenv: CUDA, OpenACC, OpenMP, OpenCL *)

CudaPrgEnv == UenvOf({"prgenv", "cuda"})

\* One dependency for both tests; the executable is made when it is set up.
cuda_aware_mpi_build == Compiled(Nvidia, CudaPrgEnv, <<
    Compile("set_compilers", [reads |-> {"devices"}, assigns |-> {"env_vars"}])>>)
cuda_aware_mpi_run == Using(RunOnly(Nvidia, CudaPrgEnv, <<
    After("set_executable", [parents |-> {<<"cuda_aware_mpi_build", "stagedir">>},
        sets |-> {"executable"}])>>), {DependsFully("cuda_aware_mpi_build")})
cuda_aware_mpi_one_node_check == Extend(cuda_aware_mpi_run, <<
    Run("set_num_tasks", [reads |-> {"executable", "devices"}, sets |-> {"num_tasks"},
        assigns |-> {"executable_opts"}])>>)
cuda_aware_mpi_two_nodes_check == Extend(cuda_aware_mpi_run, <<
    Run("set_num_tasks", [reads |-> {"devices"}, sets |-> {"num_tasks"},
        assigns |-> {"executable_opts"}])>>)

MPIIntranodePinned == Mixed(Regression(RemoteNvidia, {But({"uenv", "prgenv"}, {"ce"})}, <<
    After("setup_job", [reads |-> {"job"}, sets |-> {"num_tasks"},
        adds |-> {<<"launcher.options", "--cpu-bind">>, <<"env_vars", "MPICH">>}]),
    Run("set_exe_opts", [assigns |-> {"executable_opts"}]),
    After("set_reference", [reads |-> {"current_environ"}, sets |-> {"reference"}])>>),
    UenvSlurmMpiOptionsMixin)

\* The number of devices is asked when the output is read.
CudaNvmlBase(environs) == Regression(Nvidia, environs, <<
    Sanity("set_sanity", [reads |-> {"devices"}])>>)
UENV_NVML == Extend(CudaNvmlBase(UenvNotCpe({"prgenv", "cuda"})), <<
    After("setup_src", [assigns |-> {"prebuild_cmds"}])>>)
CPE_NVML == Mixed(Extend(CudaNvmlBase({But({"cuda", "cpe"}, {"uenv", "containerized_cpe"})}), <<
    After("setup_modules", [reads |-> {"devices", "current_environ"}]),
    Compile("set_build_flags", [assigns |-> {"prebuild_cmds"}])>>), CPEMixin)

CudaSamplesBase(environs) == Regression(Nvidia, environs, <<
    AfterInit("set_descr", [sets |-> {"keep_files_d"}]),
    Compile("set_gpu_arch", [reads |-> {"devices", "keep_files_d"}, sets |-> {"srcdir"}]),
    Compile("set_branch", [reads |-> {"srcdir", "keep_files_d"},
        adds |-> {<<"prebuild_cmds", "git clone">>}]),
    Run("set_executable", [sets |-> {"executable"}])>>)
UENV_CudaSamples == Extend(CudaSamplesBase(UenvNotCpe({"prgenv", "cuda"})), <<
    Compile("set_build_flags", [adds |-> {<<"prebuild_cmds", "echo">>}])>>)

OpenACCFortranBase(environs) == Mixed(Regression(RemoteNvidia, environs, <<
    Run("set_debug", [adds |-> {<<"env_vars", "NVCOMPILER_ACC_NOTIFY">>}]),
    Run("set_single_gpu_per_node", [sets |-> {"num_gpus_per_node"}]),
    After("set_compilers", [reads |-> {"devices", "current_environ"}])>>),
    CudaVisibleDevicesAllMixin \o ExtraLauncherOptionsMixin)
CPE_OpenACCFortranCheck == OpenACCFortranBase(NotUenv({"openacc", "mpi"}))
UENV_OpenACCFortranCheck == OpenACCFortranBase(UenvOf({"openacc", "mpi"}))

\* Without devices it raises an error of its own.
_openmp_offload_base(environ, own) == Regression(Nvidia, {With({"openmp", environ})},
    own \o <<Sanity("validate", [reads |-> {"devices"}])>>)
openmp_offload_gfortran_test == _openmp_offload_base("offload_gnu", <<>>)
openmp_offload_nvfortran_test == _openmp_offload_base("offload_nvhpc",
    <<Compile("set_fflags", [reads |-> {"devices"}])>>)

OpenCLBase(environs, own) == Regression(Nvidia, environs,
    own \o <<Compile("setflags", [sets |-> {"cflags"}])>>)
CPE_OpenCLCheck == OpenCLBase(NotUenv({"cuda", "opencl"}),
    <<After("setup_modules", [reads |-> {"devices"}])>>)
UENV_OpenCLCheck == OpenCLBase(UenvOf({"cuda", "opencl"}), <<>>)

-----------------------------------------------------------------------------
(* Containers *)

HooksTable == {"container_image", "container_env_table:hooks"}

\* The annotations are in the table of the class.
OMB_Base_CE(mpi) == Mixed(RunOnly(NvidiaContainer, Builtin, <<
    Body("OMB_Base_CE", HooksTable \cup {"reference_per_test"}),
    AfterInit("skip_xfail_test", [skipIf |-> {"collective"}]),
    After("set_executable", [sets |-> {"executable"}]),
    After("set_num_gpus_per_node", [reads |-> {"devices"}, sets |-> {"num_tasks"}]),
    Perf("set_reference", [reads |-> {"reference_per_test"}, sets |-> {"reference"}])>>),
    ContainerEngineMixin \o mpi)
OMB_MPICH_CE == OMB_Base_CE(SlurmMpiPmi2Mixin)
OMB_OMPI_CE == OMB_Base_CE(SlurmMpiPmixMixin)
OMB_CE_Host(class) == Extend(class, <<ContainerHook("setup_netstack_source", "netstack.source")>>)
OMB_Skybox(class) == class

\* The environment is assigned: what the plugin for PMIx has set is lost.
SphExa_CE == Mixed(RunOnly(NvidiaContainer, Builtin, <<
    Body("SphExa_CE", {"container_image"}),
    Run("set_executable", [reads |-> {"job"}, sets |-> {"num_tasks", "executable"},
        assigns |-> {"job.options", "env_vars", "executable_opts"},
        adds |-> Nodes \cup {<<"env_vars", "OMP_NUM_THREADS">>}]),
    References("set_perf_reference")>>), ContainerEngineMixin \o SlurmMpiPmixMixin)

\* The hooks of a class that has none.
CxiHook == AfterInit("setup_hooks", [sets |-> {"container_env_table:hooks"},
    adds |-> {<<"container_env_table", "cxi.enabled">>}])
SphExa_Skybox == Extend(SphExa_CE, <<CxiHook>>)

PyFR_CE == Mixed(RunOnly(NvidiaContainer, Builtin, <<
    Body("PyFR_CE", {"container_image"}),
    After("set_executable", [assigns |-> {"executable_opts"}, sets |-> {"executable"}]),
    References("set_perf_reference")>>), ContainerEngineMixin \o SlurmMpiPmixMixin)
PyFR_Skybox == Extend(PyFR_CE, <<CxiHook>>)

ContainerCheck(systems) == Mixed(RunOnly(systems, Builtin, <<
    Body("ContainerCheck", HooksTable), ReadsOutput("assert_sanity")>>), ContainerEngineMixin)
SSH_CE == ContainerCheck(ContainerNode)
CUDA_MPS_CE == ContainerCheck(NvidiaContainer)

\* The image, empty in the class, is imported once: the file in the stage
\* directory of the import is run.
enroot_import_image == RunOnly(ContainerNode, Builtin, <<
    Body("enroot_import_image", {"image", "archive_name"}),
    Run("set_executable_opts", [reads |-> {"image"}, assigns |-> {"executable_opts"}]),
    Sanity("assert_image_imported", [reads |-> {"stagedir", "archive_name"}])>>)
RunJobCE(systems, import, own) == Using(Mixed(RunOnly(systems, Builtin, <<
    After("set_image_path", [parents |-> {import} \X {"stagedir", "archive_name"},
        sets |-> {"container_image"}])>> \o own), ContainerEngineMixin),
    {Fixture(import, "session")})
RunNVGPUJobCE(systems, import) == RunJobCE(systems, import, <<
    Run("set_num_gpus", [skipUnless |-> {"devices"}, sets |-> {"num_gpus_per_node"}]),
    Run("set_executable_opts", [assigns |-> {"executable_opts"}])>>)
=============================================================================
