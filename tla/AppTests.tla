------------------------------- MODULE AppTests -------------------------------
(***************************************************************************)
(* The tests of the scientific applications, checks/apps and dlaf: the     *)
(* hooks of each class, in the terms of ReframeTests.  Classes, hooks and  *)
(* attributes keep their names; of a table the model keeps its rows.       *)
(***************************************************************************)
EXTENDS ReframeTests

Uenv(features) == With({"uenv"} \cup features)
GpuUenv == {Uenv({"amdgpu"}), Uenv({"nvgpu"})}

\* self.uarch = uarch(self.current_partition), and the row of the table.
Row(rows, what) ==
    what @@ [reads |-> {"current_partition"}, rows |-> rows,
             sets |-> {"uarch", "num_tasks", "num_cpus_per_task"}]

\* The options of sbatch are assigned: --nodes.
Nodes == {<<"job.options", "--nodes">>}

\* A download: curl or wget of a file whose name has the version.
Download(version) == RunOnly(Everything, Everything, <<
    Body("download", version), Sanity("validate_download", [reads |-> {"job"}])>>)

\* A build on a node, skipped where nothing is known of the processor.
BuildHook(sources) ==
    Compile("prepare_build", [skipUnless |-> {"procinfo"},
        reads |-> {"current_partition", "stagedir"}, assigns |-> {"prebuild_cmds"},
        adds |-> {<<"prebuild_cmds", "tar">>},
        parents |-> {<<sources, "version">>}, sets |-> {"uarch"}])

\* The executable is the one the build has left.
Built(build, executable) ==
    [parents |-> {<<build, executable>>}, sets |-> {"executable"}]

-----------------------------------------------------------------------------
(* cp2k *)

\* A mutated cp2k_rows: a table has no row for zen2.
cp2k_rows_gh200 == [md |-> {"gh200"}, pbe |-> {"gh200", "zen2"}, rpa |-> {"gh200"}]

cp2k_rows == [md |-> {"gh200", "zen2"}, pbe |-> {"gh200", "zen2"}, rpa |-> {"gh200"}]
cp2k_references == [md |-> {"gh200", "zen2"}, pbe |-> {"gh200", "zen2"}, rpa |-> {"gh200"}]

\* The version of the environment.  Without one it is that of the first uenv in
\* CSCS_RFM_UENV that has one, whatever the environment, or None; and the hook
\* raises if the variable is not set.
cp2k_download == Extend(Download({}), <<
    Run("set_version", [reads |-> {"current_environ"}, sets |-> {"version"}])>>)

Cp2kBuildTestUENV == Using(
    Compiled({Uenv({})}, {But({"cp2k-dev"}, {"dlaf"})}, <<
        BuildHook("cp2k_download"),
        Sanity("validate_test", [reads |-> {"stagedir"}, sets |-> {"cp2k_executable"}])>>),
    {Fixture("cp2k_download", "test")})

\* prepare_run assigns the options of srun, too.
Cp2kCheck_UENV(test_name) == [
    RunOnly({Uenv({})}, {But({"cp2k"}, {"dlaf"})}, <<
        After("setup_wrapper", [reads |-> {"current_partition"}, sets |-> {"uarch", "wrapper"}]),
        Run("prepare_run", Row(cp2k_rows[test_name], [
            reads |-> {"job", "uarch", "current_partition"},
            assigns |-> {"job.options", "launcher.options"},
            adds |-> Nodes \cup {<<"launcher.options", "--cpu-bind">>,
                                 <<"env_vars", "OMP_NUM_THREADS">>}])),
        Run("setup_executable", [reads |-> {"wrapper"}, sets |-> {"executable"}]),
        Sanity("assert_energy_diff", [reads |-> {"energy_reference"}]),
        Body("Cp2kCheck", {"energy_reference"})>>)
    EXCEPT !.refs = cp2k_references[test_name]]

CustomExec(class) == Derive(class,
    [environs |-> {But({"cp2k-dev"}, {"dlaf"})},
     uses |-> {DependsFully("Cp2kBuildTestUENV")}],
    <<Run("setup_executable", Built("Cp2kBuildTestUENV", "cp2k_executable")
          @@ [reads |-> {"wrapper"}])>>)

\* It is skipped off gh200, but after the hooks it inherits.
Workaround(class) == Derive(class, [refs |-> {"gh200"}], <<
    Run("ld_preload", [reads |-> {"current_partition"}, adds |-> {<<"env_vars", "LD_PRELOAD">>}]),
    Run("prepare_run_workaround", [skipUnless |-> {"gh200"}, reads |-> {"uarch"}])>>)

Cp2kCheckMD_UENV == Cp2kCheck_UENV("md")
Cp2kCheckMD_UENVExec_Workaround == Workaround(Cp2kCheckMD_UENV)
Cp2kCheckMD_UENVCustomExec == CustomExec(Cp2kCheckMD_UENV)

\* Raises, too, for a version that is None or cannot be parsed.
Cp2kCheckPBE_UENV == Extend(Cp2kCheck_UENV("pbe"), <<
    Run("setup_input_and_wf", [reads |-> {"current_environ"}, sets |-> {"wfn_file"}])>>)
Cp2kCheckPBE_UENVExec_Workaround == Workaround(Cp2kCheckPBE_UENV)
Cp2kCheckPBE_UENVCustomExec == CustomExec(Cp2kCheckPBE_UENV)

\* Copies the wave function the PBE test has left in its stage directory.
Cp2kCheckRPA_UENVExec == Derive(Cp2kCheck_UENV("rpa"),
    [systems |-> {With({"nvgpu"})}, uses |-> {DependsFully("Cp2kCheckPBE_UENVExec")}],
    <<After("copy_wnf", [reads |-> {"stagedir"}, parents |->
          {"Cp2kCheckPBE_UENVExec"} \X {"wfn_file", "stagedir"}])>>)

-----------------------------------------------------------------------------
(* namd: the sources and the input are fetched once per session. *)

namd_rows == {"gh200", "zen2"}

namd_download == Download({"version"})
namd_input_download == Download({})

NamdBuildTestUENV == Using(
    Compiled({Uenv({"nvgpu"})}, {With({"namd-single-node-dev"})}, <<
        BuildHook("namd_download"),
        Sanity("validate_test", [reads |-> {"stagedir"}, sets |-> {"namd_executable"}])>>),
    {Fixture("namd_download", "session")})

NamdCheckUENV == [
    RunOnly({Uenv({})}, {With({"namd-single-node"}), With({"namd"})}, <<
        Run("prepare_run", Row(namd_rows, [
            reads |-> {"current_partition", "stagedir"},
            parents |-> {<<"namd_input_download", "stagedir">>},
            assigns |-> {"prerun_cmds"}, adds |-> {<<"prerun_cmds", "tar">>}]))>>)
    EXCEPT !.uses = {Fixture("namd_input_download", "session")}, !.refs = namd_rows]

NamdCheckUENVCustomExec == Derive(NamdCheckUENV,
    [environs |-> {With({"namd-single-node-dev"})},
     uses |-> NamdCheckUENV.uses \cup {DependsFully("NamdBuildTestUENV")}],
    <<After("setup_executable", Built("NamdBuildTestUENV", "namd_executable"))>>)

-----------------------------------------------------------------------------
(* Quantum ESPRESSO *)

qe_rows == {"gh200", "zen2"}

\* The version is found as in cp2k_download.
qe_download == Extend(Download({}), <<
    Run("set_version", [reads |-> {"current_environ"}, sets |-> {"version"}])>>)

QeBuildTestUENV == Using(
    Compiled(Everything, {With({"qe-dev"})}, <<
        BuildHook("qe_download"),
        Sanity("validate_test", [reads |-> {"stagedir"}, sets |-> {"pwx_executable"}])>>),
    {Fixture("qe_download", "environment")})

QeCheckUENV == [
    RunOnly(Everything, {With({"qe"})}, <<
        Run("prepare_run", Row(qe_rows, [
            reads |-> {"current_partition", "job"},
            assigns |-> {"job.options", "launcher.options"},
            adds |-> Nodes \cup {<<"launcher.options", "--cpu-bind">>}])),
        Sanity("assert_energy_diff", [reads |-> {"energy_reference"}]),
        Body("QeCheckAuSurfUENV", {"energy_reference"})>>)
    EXCEPT !.refs = qe_rows]

QeCheckAuSurfUENVExec == Extend(QeCheckUENV,
    <<After("setup_executable", [reads |-> {"current_partition"}])>>)

QeCheckAuSurfCustomExecUENV == Derive(QeCheckUENV,
    [environs |-> {With({"qe-dev"})}, uses |-> {DependsFully("QeBuildTestUENV")}],
    <<After("setup_executable", Built("QeBuildTestUENV", "pwx_executable")
          @@ [reads |-> {"current_partition"}])>>)

-----------------------------------------------------------------------------
(* lammps, gromacs, vasp *)

lammps_rows == [lj_gpu |-> {"gh200"}, lj_kokkos |-> {"gh200", "zen2"}]

lammps_download == Download({"version"})

lammps_build_test == Using(
    Compiled({With({"gpu"})}, {With({"lammps-kokkos-dev"})}, <<
        Compile("prepare_build", [assigns |-> {"prebuild_cmds"},
            parents |-> {"lammps_download"} \X {"version", "stagedir"}]),
        Sanity("validate_test", [reads |-> {"stagedir"}, sets |-> {"lammps_executable"}])>>),
    {Fixture("lammps_download", "environment")})

LammpsRun(environ, test_name, options) == [
    RunOnly({Uenv({})}, {With({environ})}, <<
        Run("prepare_run", Row(lammps_rows[test_name], [
            reads |-> {"current_partition", "job"}, assigns |-> {"job.options"},
            adds |-> Nodes \cup options])),
        Run("prepare_reference", [reads |-> {"current_partition"}]),
        Sanity("assert_energy_diff", [reads |-> {"job"}])>>)
    EXCEPT !.refs = lammps_rows[test_name]]

lammps_gpu_test == LammpsRun("lammps-gpu-prod", "lj_gpu",
    {<<"launcher.options", "--gpus-per-task">>, <<"env_vars", "MPICH_GPU_SUPPORT_ENABLED">>})
lammps_kokkos_test == LammpsRun("lammps-kokkos-prod", "lj_kokkos",
    {<<"launcher.options", "--gpus-per-task">>, <<"env_vars", "OMP_NUM_THREADS">>})

gromacs_rows == {"gh200", "zen2"}

gromacs_download == Download({"version"})

gromacs_build_test == Using(
    Compiled({Uenv({})}, {With({"gromacs-dev"})}, <<
        BuildHook("gromacs_download"),
        Sanity("validate_test", [sets |-> {"gromacs_executable"}])>>),
    {Fixture("gromacs_download", "session")})

gromacs_run_test == [
    RunOnly(Everything, {With({"gromacs"})}, <<
        Run("prepare_run", Row(gromacs_rows, [
            reads |-> {"current_partition", "job"},
            assigns |-> {"job.options", "prerun_cmds"},
            adds |-> Nodes \cup {<<"prerun_cmds", "wget">>, <<"env_vars", "OMP_NUM_THREADS">>}])),
        After("postproc_run", [assigns |-> {"postrun_cmds"}, adds |-> {<<"postrun_cmds", "energy">>}])>>)
    EXCEPT !.refs = gromacs_rows]

\* The references of gh200 are lost: the table has its key twice.
vasp_references == {"zen2"}
vasp_rows == {"gh200", "zen2"}

VaspCheckUENV == [
    RunOnly(Everything, {With({"vasp"})}, <<
        Run("prepare_run", Row(vasp_rows, [
            reads |-> {"current_partition", "job"},
            assigns |-> {"job.options", "launcher.options"},
            adds |-> Nodes \cup {<<"launcher.options", "--cpu-bind">>}]))>>)
    EXCEPT !.refs = vasp_references]

\* There is a makefile for gh200 only.
VaspBuildTestUENV == Compiled(Everything, {With({"vasp-dev"})}, <<
    Compile("prepare_build", [skipUnless |-> {"procinfo", "gh200"},
        reads |-> {"current_partition", "stagedir"}, assigns |-> {"prebuild_cmds"},
        sets |-> {"uarch", "vasp_std_executable"}]),
    Sanity("validate_test", [reads |-> {"vasp_std_executable"}])>>)

VaspBuildCheckUENV == Derive(VaspCheckUENV,
    [environs |-> {With({"vasp-dev"})}, uses |-> {DependsFully("VaspBuildTestUENV")}],
    <<After("setup_executable", Built("VaspBuildTestUENV", "vasp_std_executable")
          @@ [adds |-> {<<"env_vars", "PMPI_GPU_AWARE">>}])>>)

-----------------------------------------------------------------------------
(* sphexa, arbor, q-e-sirius, sirius *)

SphExa == [
    Regression(GpuUenv, {Uenv({"prgenv", "rocm"}), Uenv({"prgenv", "cuda"})}, <<
        Compile("build_step", [reads |-> {"devices", "current_environ"},
            assigns |-> {"prebuild_cmds"}]),
        Run("set_executable", [skipUnless |-> {"procinfo"}, reads |-> {"devices", "job"},
            assigns |-> {"job.options", "env_vars", "prerun_cmds"},
            adds |-> Nodes \cup {<<"env_vars", "OMP_NUM_THREADS">>, <<"prerun_cmds", "wget">>}]),
        Perf("set_perf_reference", [reads |-> {"current_partition"}, sets |-> {"uarch"}])>>)
    EXCEPT !.refs = {"mi200", "mi300", "gh200"}]

arbor_download == Download({"version"})

arbor_build == Using(Compiled(Everything, {With({"arbor-dev"})}, <<
    Compile("prepare_build", [reads |-> {"current_partition", "stagedir"},
        parents |-> {"arbor_download"} \X {"version", "stagedir"},
        assigns |-> {"prebuild_cmds"}, sets |-> {"uarch"}])>>),
    {Fixture("arbor_download", "session")})

ArborRun(what) == Using(RunOnly(Everything, {With({"arbor-dev"})}, <<
    Run("prepare_run", what @@ [parents |-> {<<"arbor_build", "stagedir">>},
        reads |-> {"current_partition"}, sets |-> {"executable"}])>>),
    {Fixture("arbor_build", "environment")})

arbor_unit == ArborRun([reads |-> {}])
arbor_busyring == [ArborRun([sets |-> {"executable", "uarch"}]) EXCEPT !.refs = {"gh200"}]

\* Overrides prepare_run: a table of its own, for the resources.
arbor_busyring_mpi == Extend(arbor_busyring, <<
    Run("prepare_run", [parents |-> {<<"arbor_build", "stagedir">>},
        reads |-> {"current_partition", "job"}, rows |-> {"gh200", "zen2"},
        assigns |-> {"job.options"}, sets |-> {"executable", "uarch", "num_tasks"}])>>)

qe_sirius_rows == {"gh200", "mi200", "mi300", "zen2"}

\* The uenv of the environment, made for one microarchitecture.
QeSiriusCheckUENV == [
    RunOnly(GpuUenv, {Uenv({"q-e-sirius"})}, <<
        After("skip_unsupported_uenv", [skipIf |-> {"another uarch"}, reads |-> {"current_partition"}]),
        Run("prepare_run", Row(qe_sirius_rows, [
            reads |-> {"current_partition", "job"}, assigns |-> {"job.options"},
            adds |-> Nodes \cup {<<"env_vars", "OMP_NUM_THREADS">>}])),
        Sanity("assert_energy_diff", [reads |-> {"energy_reference"}]),
        Body("QeSiriusCheckAuSurfUENV", {"energy_reference"})>>)
    EXCEPT !.refs = {"gh200", "mi300", "mi200"}]

QeSiriusCheckAuSurfUENVExec == Extend(QeSiriusCheckUENV,
    <<After("setup_executable", [reads |-> {"current_partition"}])>>)

\* The rows are labels of a node: zen2 without devices, zen3 with 4 sm_80.
\* load_json_data raises if the job has left no output.json.
SIRIUSBase(systems, environs) == RunOnly(systems, environs, <<
    Run("set_parallel_resources", [skipUnless |-> {"procinfo"},
        reads |-> {"current_partition"}, rows |-> {"zen2", "a100"},
        adds |-> {<<"env_vars", "OMP_NUM_THREADS">>}, sets |-> {"ref_dict", "num_tasks"}]),
    After("set_test_dir", [sets |-> {"sourcesdir"}]),
    On("before sanity", "load_json_data", [reads |-> {"stagedir"},
        sets |-> {"output_data", "reference_data"}]),
    Sanity("assert_success", [reads |-> {"output_data", "reference_data"}])>>)

CudaVisibleDevicesAllMixin ==
    <<After("set_cuda_visible_devices", [reads |-> {"current_partition"},
        adds |-> {<<"env_vars", "CUDA_VISIBLE_DEVICES">>}])>>
ExtraLauncherOptionsMixin ==
    <<Run("set_launcher_options", [reads |-> {"current_environ", "job"},
        adds |-> {<<"launcher.options", "launcher_options">>}])>>

UENV_sirius_scf_check == Mixed(
    SIRIUSBase({But({}, {"amdgpu"})}, {Uenv({"sirius", "mpi", "openmp"})}),
    CudaVisibleDevicesAllMixin \o ExtraLauncherOptionsMixin)

\* Assigns the options of srun on hohgant, for which there is no configuration.
SarusExtraLauncherOptionsMixin == <<Run("set_launcher_options", [reads |-> {}])>>

\* container_image is None unless the user sets it on the command line.
SARUS_sirius_scf_check == Extend(
    Mixed(SIRIUSBase({With({"sarus"})}, {With({"builtin"})}),
          CudaVisibleDevicesAllMixin \o SarusExtraLauncherOptionsMixin),
    <<After("setup_container_platform", [reads |-> {"-S container_image"}])>>)

-----------------------------------------------------------------------------
(* dlaf *)

dlaf_rows == {"gh200", "mi300", "mi200", "zen2"}
dlaf_references == {"gh200", "mi300", "mi200", "zen2"}

\* --mpi of srun, by the MPI library of the uenv.
UenvSlurmMpiOptionsMixin ==
    <<After("set_uenv_slurm_mpi_options", [reads |-> {"current_environ", "job"},
        adds |-> {<<"launcher.options", "--mpi">>, <<"env_vars", "PMIX_MCA">>}])>>

\* Mutated DlafAssigned: the options of srun are assigned.
DlafLauncherAssigned == {"job.options", "launcher.options"}

DlafAssigned == {"job.options"}

dlaf_base == [
    Mixed(RunOnly({Uenv({})}, {But({"dlaf"}, {"cp2k", "cp2k-dev"})}, <<
        Run("prepare_run", Row(dlaf_rows, [
            reads |-> {"current_partition", "job"}, assigns |-> DlafAssigned,
            adds |-> Nodes \cup {<<"launcher.options", "--cpu-bind">>,
                <<"env_vars", "PIKA_THREADS">>, <<"executable_opts", "--grid-cols">>}])),
        Run("set_perf_reference", [reads |-> {"uarch"}]),
        Run("set_executable", [reads |-> {"current_partition"},
            adds |-> {<<"prerun_cmds", "version">>}, sets |-> {"executable"}])>>),
        UenvSlurmMpiOptionsMixin)
    EXCEPT !.refs = dlaf_references]

\* valid_systems += +nvgpu: +uenv alone is still enough.
dlaf_check_uenv_cupointergetattribute_workaround == Derive(dlaf_base,
    [refs |-> {"gh200"}, systems |-> dlaf_base.systems \cup {With({"nvgpu"})}], <<
    Run("ld_preload", [reads |-> {"current_partition"}, adds |-> {<<"env_vars", "LD_PRELOAD">>}]),
    Run("set_perf_reference", [skipUnless |-> {"gh200"}, reads |-> {"uarch"}])>>)
=============================================================================
