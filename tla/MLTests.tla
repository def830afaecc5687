-------------------------------- MODULE MLTests --------------------------------
(***************************************************************************)
(* The machine learning tests, checks/apps/pytorch, and the container      *)
(* engine they run in: a file describes the container, and it is written   *)
(* before the job, from attributes that the hooks of a test have set.      *)
(***************************************************************************)
EXTENDS ReframeTests

Builtin == {With({"builtin"})}

\* The container engine: its file is an option of srun.
ContainerEngineMixin ==
    <<Run("create_env_file", [reads |-> {"container_image", "stagedir"},
          sets |-> {"env_file"}, writes |-> {"container_mounts", "container_env_table"}]),
      Run("set_container_engine_env_launcher_options", [reads |-> {"env_file", "job"},
          adds |-> {<<"launcher.options", "--environment">>}])>>

SlurmMpiPmi2Mixin ==
    <<After("set_slurm_mpi_pmi2", [reads |-> {"job"}, adds |-> {<<"launcher.options", "--mpi">>}])>>
SlurmMpiPmixMixin ==
    <<After("set_slurm_mpi_pmix", [reads |-> {"job"},
        adds |-> {<<"launcher.options", "--mpi">>, <<"env_vars", "PMIX_MCA">>}])>>

\* The annotations that switch the network plugin of the container on.
OfiHook == {<<"container_env_table", "aws_ofi_nccl">>}
ContainerConfig ==
    After("set_container_config", [assigns |-> {"container_env_table"}, adds |-> OfiHook])

\* The directories of the project, mounted where they are.
ContainerMounts ==
    After("set_container_mounts", [reads |-> {"stagedir"}, assigns |-> {"container_mounts"},
        adds |-> {"container_mounts"} \X {"stagedir", "hf_home"}])

-----------------------------------------------------------------------------
(* Data parallel training *)

PyTorchTestBase(systems) == RunOnly(systems, Builtin, <<
    After("setup_test", [reads |-> {"devices", "job"}, sets |-> {"num_gpus_per_node"},
        adds |-> {<<"launcher.options", "--gpus-per-task">>}])>>)

test_image_tag_retrieval == RunOnly({With({"nvgpu"})}, Builtin, <<
    Run("set_container_variables", [sets |-> {"executable_opts"}])>>)

PyTorchDdpCeNv == Extend(
    Mixed(PyTorchTestBase({With({"ce", "nvgpu"})}), ContainerEngineMixin), <<
    Body("PyTorchDdpCeNv", {"image"}),
    AfterInit("set_image", [reads |-> {"image"}, sets |-> {"container_image"},
        assigns |-> {"container_env_table"}, adds |-> OfiHook])>>)

\* A container, though valid without the container engine.
AllReduce(where, tuning) == Mixed(RunOnly({With({where})}, Builtin, <<
    Body("AllReduce", {"image", "num_nodes"}),
    AfterInit("set_image", [reads |-> {"image"}, sets |-> {"container_image"},
        assigns |-> {"container_env_table"}, adds |-> OfiHook]),
    After("setup_test", [reads |-> {"devices", "procinfo", "num_nodes", "job"},
        sets |-> {"num_gpus_per_node"}, assigns |-> {"job.options"},
        adds |-> {<<"job.options", "--gpus-per-task">>, <<"env_vars", "OMP_NUM_THREADS">>}]),
    After("set_executable_opts", [reads |-> {"num_gpus_per_node"}, assigns |-> {"prerun_cmds"},
        adds |-> {<<"prerun_cmds", "wget">>}])>> \o tuning), ContainerEngineMixin)

PyTorchNCCLAllReduce == AllReduce("nvgpu", <<>>)
PyTorchRCCLAllReduce == AllReduce("amdgpu", <<
    After("set_nccl_min_nchannels", [reads |-> {"devices"},
        adds |-> {<<"env_vars", "NCCL_MIN_NCHANNELS">>}])>>)

TorchHammerBase(systems) == RunOnly(systems, Builtin, <<
    After("setup_code", [assigns |-> {"prerun_cmds"}, adds |-> {<<"prerun_cmds", "wget">>}]),
    Run("set_executable", [sets |-> {"executable_opts"}])>>)

\* Rewrites the options that the base has set.
TorchHammerCEMultiGPU == Extend(
    Mixed(TorchHammerBase({With({"ce", "nvgpu"})}), ContainerEngineMixin), <<
    AfterInit("set_container_image", [sets |-> {"container_image"},
        assigns |-> {"container_env_table"}, adds |-> OfiHook]),
    Run("set_multigpu_test", [reads |-> {"executable_opts", "devices"}, sets |-> {"num_gpus"}]),
    Sanity("validate_test", [reads |-> {"num_gpus"}])>>)

-----------------------------------------------------------------------------
(* Megatron: the model is a parameter, looked up in a table. *)

MegatronConfigurations == {"apertus3-70b", "llama3-70b", "llama3-8b"}
MegatronConfigurations_AMD == {"llama2-7b"}
MegatronConfigurations_AMD_Optimized == {"llama3-8b"}

\* The processor is asked even where the table has the number of cpus.
MegatronSetup(models, arch) ==
    After("setup_test", [reads |-> {"devices", "procinfo"}, skipUnless |-> arch, rows |-> models,
        sets |-> {"num_nodes", "num_tasks", "num_gpus_per_node", "num_cpus_per_task"}])

\* Environment and commands are assigned.
MegatronOptions(models, list) ==
    After("set_executable_opts", [rows |-> models,
        reads |-> {"num_cpus_per_task", "num_gpus_per_node"},
        assigns |-> list, adds |-> list \X {"own"}])

JobScript == {"env_vars", "prerun_cmds", "postrun_cmds"}

PyTorchMegatronLM(model, where) == RunOnly({With({"nvgpu", where})}, Builtin, <<
    Body("PyTorchMegatronLM", {model}),
    MegatronSetup(MegatronConfigurations, {}), MegatronOptions(MegatronConfigurations, JobScript)>>)

MegatronContainer(class, image) ==
    Extend(Mixed(class, ContainerEngineMixin),
           <<Body("container_image", image), ContainerConfig, ContainerMounts>>)

PyTorchMegatronLM_CE(model) ==
    MegatronContainer(PyTorchMegatronLM(model, "ce"), {"container_image"})

\* Adds to what the hooks of the base have assigned.
PyTorchMegatronLM_UENV(model) == Derive(PyTorchMegatronLM(model, "uenv"),
    [environs |-> {With({"pytorch"})}], <<
    After("patch_numpy", [adds |-> {<<"prerun_cmds", "patch">>}]),
    After("set_env_vars", [adds |-> {<<"env_vars", "NCCL_NET">>}])>>)

PyTorchMegatronLM_AMD == RunOnly({With({"amdgpu", "ce"})}, Builtin, <<
    Body("PyTorchMegatronLM_AMD", MegatronConfigurations_AMD),
    MegatronSetup(MegatronConfigurations_AMD, {"gfx942"}),
    MegatronOptions(MegatronConfigurations_AMD, JobScript)>>)

PyTorchMegatronLM_AMD_CE == MegatronContainer(PyTorchMegatronLM_AMD, {"container_image"})

PyTorchMegatronLM_AMD_Optimized == RunOnly({With({"amdgpu", "ce"})}, Builtin, <<
    Body("PyTorchMegatronLM_AMD_Optimized", MegatronConfigurations_AMD_Optimized),
    MegatronSetup(MegatronConfigurations_AMD_Optimized, {"gfx942"}),
    MegatronOptions(MegatronConfigurations_AMD_Optimized, JobScript)>>)

\* enroot, in a job of its own.
pytorch_image_import == RunOnly({With({"ce"})}, Builtin, <<
    Run("set_job_options", [reads |-> {"job"}, assigns |-> {"job.options"},
        adds |-> {<<"job.options", "--mem">>}]),
    Run("set_executable_opts", [sets |-> {"executable_opts"}]),
    Sanity("assert_image_imported", [reads |-> {"stagedir"}])>>)

\* The image is a file in the stage directory of the import.
PyTorchMegatronLM_AMD_Optimized_CE == Using(
    Extend(Mixed(PyTorchMegatronLM_AMD_Optimized, ContainerEngineMixin), <<
        After("set_container_config", [parents |-> {<<"pytorch_image_import", "stagedir">>},
            sets |-> {"container_image"}, assigns |-> {"container_env_table"}, adds |-> OfiHook]),
        ContainerMounts>>),
    {Fixture("pytorch_image_import", "session")})

\* containers/container_engine: another Megatron, of its own.
ContainerMegatron == RunOnly({With({"nvgpu", "ce"})}, Builtin, <<
    Body("PyTorchMegatronLM", {"llama3-8b"}),
    MegatronSetup({"llama3-8b"}, {"sm_90"}), MegatronOptions({"llama3-8b"}, {"env_vars"})>>)

PyTorchMegatronLM_CE_Dev ==
    Extend(Mixed(ContainerMegatron, ContainerEngineMixin),
           <<Body("container_image", {"container_image"}), ContainerConfig>>)

\* Always skipped, after the hooks it inherits.
PyTorchMegatronLM_Skybox == Extend(PyTorchMegatronLM_CE_Dev,
    <<After("skip_test", [skipIf |-> {"stagedir"}])>>)

-----------------------------------------------------------------------------
(* MLPerf storage: the data are generated, read, and removed at the end by *)
(* a test of its own, in a directory that outlives the session.            *)

StorageMounts == {"container_mounts"} \X {"unet3d.yaml", "storage"}

Pmi2 == Run("set_pmi2", [reads |-> {"job"}, adds |-> {<<"launcher.options", "--mpi">>}])

mlperf_storage_datagen_ce ==
    Mixed(RunOnly({With({"nvgpu", "ce"})}, Builtin, <<
        Body("mlperf_storage_datagen_ce", {"container_image"}),
        After("setup_test", [reads |-> {"procinfo", "stagedir"},
            sets |-> {"storage", "num_files", "num_tasks"},
            assigns |-> {"container_mounts"}, adds |-> StorageMounts]), Pmi2>>),
        ContainerEngineMixin)

MLperfStorageCE == Using(
    Mixed(RunOnly({With({"nvgpu", "ce"})}, Builtin, <<
        Body("MLperfStorageCE", {"container_image", "mlperf_data"}),
        After("setup_test", [reads |-> {"stagedir"},
            parents |-> {"mlperf_storage_datagen_ce"} \X {"num_tasks", "num_files", "storage"},
            assigns |-> {"container_mounts", "env_vars"}, adds |-> StorageMounts]), Pmi2>>),
        ContainerEngineMixin),
    {Fixture("mlperf_storage_datagen_ce", "environment")})

MLperfStorageCECleanup == Using(
    RunOnly({With({"nvgpu", "ce"})}, Builtin, <<
        After("setup_exec_opts", [parents |-> {<<"MLperfStorageCE", "mlperf_data">>},
            sets |-> {"storage"}]),
        Sanity("assert_successful_cleanup", [reads |-> {"storage"}])>>),
    {Fixture("MLperfStorageCE", "environment")})

\* With sarus the options of srun are assigned.
SarusRun(setup, platform) == RunOnly({With({"sarus"})}, Builtin, <<
    After("setup_test", setup),
    Run("set_container_variables", [reads |-> {"job", "executable"}, parents |-> platform,
        assigns |-> {"launcher.options"}, adds |-> {<<"launcher.options", "--mpi">>}])>>)

mlperf_storage_datagen_sarus ==
    SarusRun([sets |-> {"num_gpus_per_node", "num_tasks", "executable"}], {})

MLperfStorageSarus == Using(
    SarusRun([parents |-> {<<"mlperf_storage_datagen_sarus", "num_gpus_per_node">>},
              assigns |-> {"env_vars"}, sets |-> {"num_tasks", "executable"}],
             {<<"mlperf_storage_datagen_sarus", "stagedir">>}),
    {Fixture("mlperf_storage_datagen_sarus", "environment")})
=============================================================================
