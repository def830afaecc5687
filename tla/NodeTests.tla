------------------------------- MODULE NodeTests -------------------------------
(***************************************************************************)
(* The tests of Slurm, of the nodes, of the network and the file systems,  *)
(* of the libraries and of the tools.                                      *)
(***************************************************************************)
EXTENDS EnvTests

-----------------------------------------------------------------------------
(* Slurm *)

NotRemote == {But({}, {"remote"})}
RemoteSlurm == {With({"remote", "scontrol"})}
PrgEnv == {With({"prgenv"})}

\* One task on a node, of a tool of the node.
SlurmSimpleBaseCheck(systems) == RunOnly(systems, Builtin, <<
    Body("SlurmSimpleBaseCheck", {"num_tasks", "num_tasks_per_node"})>>)
SlurmCompiledBaseCheck(environs) == Regression(Remote, environs, <<
    Compile("oneapi_compilers", [reads |-> {"current_environ"}])>>)

HostnameCheck == Extend(SlurmSimpleBaseCheck(Remote), <<
    On("before sanity", "set_sanity_patterns", [reads |-> {"num_tasks"}, sets |-> {"sanity_patterns"}])>>)
EnvironmentVariableCheck == Extend(SlurmSimpleBaseCheck(Remote), <<
    Sanity("assert_num_tasks", [reads |-> {"num_tasks"}])>>)
NvidiaSmiDriverVersion == SlurmSimpleBaseCheck(Nvidia)
DefaultRequestGPUSetsGRES == Extend(SlurmSimpleBaseCheck({With({"gpu"})}), <<
    Sanity("assert_found_resources", [reads |-> {"current_partition"}, sets |-> {"uarch"}])>>)
SlurmGPUGresTest == Extend(SlurmSimpleBaseCheck({With({"scontrol", "gpu"})}), <<
    Sanity("assert_gres_valid", [reads |-> {"devices"}])>>)

MemoryOverconsumptionCheck == Extend(SlurmCompiledBaseCheck(UenvNotCpe({"prgenv"})), <<
    Run("set_memory_limit", [reads |-> {"job"}, assigns |-> {"job.options"},
        adds |-> {<<"job.options", "--mem">>}])>>)

\* As much memory as the configuration of the partition says, if it does.
MemoryOomMpiCheck == Mixed(Extend(SlurmCompiledBaseCheck(UenvNotCpe({"prgenv", "mpi"})), <<
    Run("set_num_tasks", [skipUnless |-> {"procinfo"}, reads |-> {"cn_memory", "job"},
        sets |-> {"num_tasks"},
        adds |-> {<<"launcher.options", "-u">>, <<"job.options", "--mem">>}]),
    Perf("set_reference_from_config_systems_file", [reads |-> {"cn_memory"}])>>),
    UenvSlurmMpiOptionsMixin)

slurm_response_check == RunOnly(NotRemote, Builtin, <<
    Body("slurm_response_check", {"command"}),
    Run("set_exec_opts", [reads |-> {"command"}, assigns |-> {"executable_opts"}]),
    ReadsOutput("assert_exitcode_zero")>>)

\* The partitions of Slurm that are looked at: a parameter, by the system.
get_system_partitions(where) ==
    {"debug", "normal*"} \cup IF where \in {"eiger", "pilatus"} THEN {"prepost", "low"} ELSE {}

\* The nodes are counted by the sanity function, for the performance.
SlurmQueueStatusCheck(partitions) == RunOnly(NotRemote, Builtin, <<
    Body("slurm_partition", partitions),
    AfterInit("xfer_queue_correction", [sets |-> {"ratio_minavail_nodes"}]),
    Sanity("assert_partition_sanity", [reads |-> partitions \cup {"current_partition"},
        sets |-> {"num_matches", "num_all_matches"}]),
    Perf("all_nodes", [reads |-> {"num_matches", "num_all_matches"}])>>)

\* Of the scripts found where the test is loaded: without, valid nowhere.
SlurmPrologEpilogCheck(test_files) == RunOnly(IF test_files = {} THEN {} ELSE Everything, Builtin, <<
    Body("test_file", test_files),
    After("set_executable", [reads |-> test_files, sets |-> {"executable"}]),
    ReadsOutput("validate")>>)

SlurmTransparentHugepagesCheck == RunOnly({With({"hugepages_slurm"})}, Builtin, <<
    Body("hugepages_options", {"hugepages_options"}),
    After("set_executable", [reads |-> {"hugepages_options", "job"},
        adds |-> {<<"job.options", "-C">>}]),
    Sanity("validate", [reads |-> {"hugepages_options"}])>>)

\* The output of a file of the node.
NodeFile(systems) == RunOnly(systems, Builtin, <<ReadsOutput("validate")>>)
SlurmParanoidCheck == NodeFile(RemoteSlurm)
SlurmNoIsolCpus == NodeFile(RemoteSlurm)
SlurmUvmPerfAccessCounterMigration == NodeFile({With({"remote", "scontrol", "nvgpu"})})
NVreg_RestrictProfilingToAdminUsers == Extend(NodeFile(RemoteNvidia), <<
    Run("test_settings", [assigns |-> {"postrun_cmds"}, adds |-> {<<"postrun_cmds", "cat">>}])>>)

InvalidAccount == RunOnly(NotRemote, Builtin, <<
    On("before setup", "skip_on_uenv", [skipIf |-> {"CSCS_RFM_UENV"}]), ReadsOutput("validate")>>)
uenv_status == NodeFile(Everything)

-----------------------------------------------------------------------------
(* Nodes, network, file systems *)

\* Built in an environment, counted on the GPUs of a node.
BuildDeviceCountBase(environs, own) == Compiled(Everything, environs, <<
    Body("BuildDeviceCountBase", {"executable"}),
    Compile("setup_compilers", [sets |-> {"ldflags"}])>> \o own)
UENV_BuildDeviceCount == BuildDeviceCountBase(UenvOf({"prgenv", "cuda"}), <<>>)
CPE_BuildDeviceCount == Mixed(BuildDeviceCountBase(NotUenv({"cuda"}), <<
    After("skip_incompatible_envs_cuda", [skipIf |-> {"PrgEnv-cray", "PrgEnv-gnu"}]),
    Compile("setup_modules", [reads |-> {"devices", "current_environ"}])>>), CPEMixin)

NvidiaDeviceCountBase(environs, build, own) == Using(
    Mixed(RunOnly(Nvidia, environs, <<
        Run("set_executable", [parents |-> {build} \X {"stagedir", "executable"},
            sets |-> {"executable"}])>> \o own), CudaVisibleDevicesAllMixin),
    {PerEnviron(build)})
UENV_NvidiaDeviceCount ==
    NvidiaDeviceCountBase(UenvOf({"prgenv", "cuda"}), "UENV_BuildDeviceCount", <<>>)
CPE_NvidiaDeviceCount == Mixed(
    NvidiaDeviceCountBase(NotUenv({"cuda"}), "CPE_BuildDeviceCount", <<
        After("setup_modules", [reads |-> {"devices", "current_environ"}])>>), CPEMixin)

CXIGPULoopbackBW == NodeFile(Nvidia)
CXIStatHSN == NodeFile(Nvidia)
CXIGPU2GPULoopbackBW == RunOnly(Nvidia, {With({"cuda"})}, <<
    After("set_modules", [reads |-> {"current_environ"}]),
    After("set_executable_opts", [reads |-> {"devices"}, sets |-> {"gpu_combinations"},
        adds |-> {<<"executable_opts", "loopback">>}]),
    Sanity("assert_run_count", [reads |-> {"gpu_combinations"}])>>)

DcgmRpmCheck == NodeFile(Nvidia)
GssrCeHookCheck == Mixed(RunOnly(NvidiaContainer, Builtin, <<
    AfterInit("setup_ce", [sets |-> {"container_image"}]), ReadsOutput("assert_dcgm_hook")>>),
    ContainerEngineMixin)

\* The processor is asked for its cores, known or not; the commands it
\* assigns are added to.
fio_compile_test == Regression(Remote, Builtin, <<
    Body("fio_compile_test", {"executable"}),
    After("set_num_procs", [reads |-> {"procinfo"}, sets |-> {"num_cpus_per_task"}]),
    Compile("set_download_fio_cmds", [reads |-> {"stagedir"}, assigns |-> {"prebuild_cmds"},
        adds |-> {<<"prebuild_cmds", "curl">>}]),
    Compile("set_build_opts", [adds |-> {"prebuild_cmds", "postbuild_cmds"} \X {"time"}])>>)
stuck_gpu_mem_test == Using(RunOnly(RemoteNvidia, Builtin, <<
    Run("set_executable_and_opts", [parents |-> {"fio_compile_test"} \X {"stagedir", "executable"},
        sets |-> {"executable"}, adds |-> {<<"executable_opts", "--name">>}]),
    Run("set_experiment_opts", [adds |-> {"prerun_cmds", "postrun_cmds"} \X {"nvidia-smi"}]),
    ReadsOutput("assert_passed")>>), {PerEnviron("fio_compile_test")})

ddBlockSizeTest == RunOnly(Everything, Builtin, <<
    Body("ddBlockSizeTest", {"count", "test_path"}),
    Run("set_commands", [reads |-> {"count", "test_path"}, assigns |-> {"executable_opts"},
        sets |-> {"executable"}])>>)

-----------------------------------------------------------------------------
(* Libraries *)

H5PyTest == RunOnly(Remote, UenvOf({"h5py", "mpi"}), <<
    Body("H5PyTest", {"num_tasks"}), Sanity("assert_success", [reads |-> {"num_tasks"}])>>)

\* The source and the patterns are those of the language, a parameter.
LibraryBase(environs, own) == Regression(Remote, environs, <<
    Body("LibraryBase", {"lang"}),
    Compile("set_source", [reads |-> {"lang"}, sets |-> {"sourcepath"}])>> \o own \o <<
    On("before sanity", "set_sanity", [reads |-> {"lang"}, sets |-> {"sanity_patterns"}])>>)
HDF5TestBase(environs, own) == Extend(LibraryBase(environs, own), <<
    Body("HDF5TestBase", {"num_tasks"})>>)
CPE_HDF5Test == HDF5TestBase(NotUenv({"cpe"}),
    <<AfterInit("skip_uenv_tests", [skipIf |-> {"CSCS_RFM_UENV"}])>>)
Uenv_HDF5Test == HDF5TestBase(UenvNotCpe({"prgenv"}),
    <<Compile("set_build_flags", [reads |-> {"lang"}])>>)

\* The command that reads the file starts with the first option of srun.
netCDFBase(environs) == LibraryBase(environs, <<
    Run("set_serial_cpp_test", [reads |-> {"lang"}, sets |-> {"num_tasks"}]),
    Run("set_job_parameters", [reads |-> {"current_environ", "job", "lang"},
        assigns |-> {"postrun_cmds"}, adds |-> {<<"launcher.options", "launcher_options">>,
                                               <<"postrun_cmds", "rd.exe">>}])>>)
CPE_NetcdfTest == netCDFBase(NotUenv({"mpi", "netcdf-hdf5parallel"}))
UENV_NetcdfTest == netCDFBase(UenvOf({"mpi", "netcdf-hdf5parallel"}))

PnetCDFTest == Mixed(LibraryBase({With({"mpi", "pnetcdf"})}, <<
    Compile("setflags", [reads |-> {"lang", "current_environ"}])>>), ExtraLauncherOptionsMixin)

-----------------------------------------------------------------------------
(* Tools *)

\* The input is copied before it runs; the options name the file.
ToolTest(environ, own) == RunOnly(Remote, {With({environ})},
    <<Body("ToolTest", {"needs_input"}),
      Run("get_inputfile", [reads |-> {"needs_input"}, adds |-> {<<"prerun_cmds", "cp">>}])>> \o own)
WithFile == <<
    Body("test_filename", {"test_filename"}),
    Run("set_executable_opts", [reads |-> {"test_filename"}, assigns |-> {"executable_opts"}]),
    Sanity("assert_output", [reads |-> {"test_filename"}])>>
CDO_base == ToolTest("cdo", <<>>)
CDO_file_test == ToolTest("cdo", WithFile)
NCO_base == ToolTest("nco", <<>>)
NCO_file_test == ToolTest("nco", WithFile)

HPCToolkit == Regression({With({"nvgpu", "uenv"})}, UenvOf({"hpctoolkit", "py-hatchet"}), <<
    Compile("build_step", [reads |-> {"devices"}, assigns |-> {"prebuild_cmds"},
        adds |-> {<<"prebuild_cmds", "wget">>}, sets |-> {"builddir"}]),
    Run("set_executable", [reads |-> {"builddir"}, sets |-> {"executable", "num_tasks"},
        assigns |-> {"prerun_cmds", "postrun_cmds"},
        adds |-> {"prerun_cmds", "postrun_cmds"} \X {"hpcstruct"}])>>)

linaro_ddt == RunOnly(Everything, {With({"ddt", "map"})}, <<
    Body("linaro_ddt", {"executable", "rpt"}),
    Run("setup_ddt_flags", [reads |-> {"executable"}, assigns |-> {"prerun_cmds", "postrun_cmds"},
        adds |-> {"prerun_cmds", "postrun_cmds"} \X {"ddt"}]),
    Sanity("validate_solution", [reads |-> {"rpt"}])>>)
=============================================================================
