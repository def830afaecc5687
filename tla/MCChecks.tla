------------------------------- MODULE MCChecks -------------------------------
(***************************************************************************)
(* The tests of checks/, all in one run: a session is one of the affinity  *)
(* tests, one of the integration checks, or a test of the catalogue with   *)
(* the tests it uses.  The other two are idle.                             *)
(***************************************************************************)
EXTENDS MCAffinityCheck, VisTests, NodeTests, Systems, CaseByCase, IntegrationChecks, TLC

-----------------------------------------------------------------------------
(* The catalogue: the classes, and the instances of those with parameters. *)

MCApps == [
  cp2k_download |-> cp2k_download, Cp2kBuildTestUENV |-> Cp2kBuildTestUENV,
  Cp2kCheckMD_UENVExec |-> Cp2kCheckMD_UENV,
  Cp2kCheckMD_UENVExec_Workaround |-> Cp2kCheckMD_UENVExec_Workaround,
  Cp2kCheckMD_UENVCustomExec |-> Cp2kCheckMD_UENVCustomExec,
  Cp2kCheckPBE_UENVExec |-> Cp2kCheckPBE_UENV,
  Cp2kCheckPBE_UENVExec_Workaround |-> Cp2kCheckPBE_UENVExec_Workaround,
  Cp2kCheckPBE_UENVCustomExec |-> Cp2kCheckPBE_UENVCustomExec,
  Cp2kCheckRPA_UENVExec |-> Cp2kCheckRPA_UENVExec,
  namd_download |-> namd_download, namd_input_download |-> namd_input_download,
  NamdBuildTestUENV |-> NamdBuildTestUENV, NamdCheckUENVExec |-> NamdCheckUENV,
  NamdCheckUENVCustomExec |-> NamdCheckUENVCustomExec,
  qe_download |-> qe_download, QeBuildTestUENV |-> QeBuildTestUENV,
  QeCheckAuSurfUENVExec |-> QeCheckAuSurfUENVExec,
  QeCheckAuSurfCustomExecUENV |-> QeCheckAuSurfCustomExecUENV,
  lammps_download |-> lammps_download, lammps_build_test |-> lammps_build_test,
  lammps_gpu_test |-> lammps_gpu_test, lammps_kokkos_test |-> lammps_kokkos_test,
  gromacs_download |-> gromacs_download, gromacs_build_test |-> gromacs_build_test,
  gromacs_run_test |-> gromacs_run_test,
  VaspCheckUENV |-> VaspCheckUENV, VaspBuildTestUENV |-> VaspBuildTestUENV,
  VaspBuildCheckUENV |-> VaspBuildCheckUENV,
  SphExa |-> SphExa, arbor_download |-> arbor_download, arbor_build |-> arbor_build,
  arbor_unit |-> arbor_unit, arbor_busyring |-> arbor_busyring,
  arbor_busyring_mpi |-> arbor_busyring_mpi,
  QeSiriusCheckAuSurfUENVExec |-> QeSiriusCheckAuSurfUENVExec,
  UENV_sirius_scf_check |-> UENV_sirius_scf_check,
  SARUS_sirius_scf_check |-> SARUS_sirius_scf_check,
  dlaf_check_uenv |-> dlaf_base,
  dlaf_check_uenv_workaround |-> dlaf_check_uenv_cupointergetattribute_workaround]

MCVis == [
  uenv_ascent_intro_cpp_build |-> uenv_ascent_intro_cpp_build,
  uenv_ascent_intro_cpp |-> uenv_ascent_intro_cpp,
  uenv_ascent_doublegyre_python |-> uenv_ascent_doublegyre_python,
  uenv_ascent_doublegyre_cpp |-> uenv_ascent_doublegyre_cpp,
  uenv_ascent_heatdiffusion_python |-> uenv_ascent_heatdiffusion_python,
  uenv_ascent_heatdiffusion_cpp |-> uenv_ascent_heatdiffusion_cpp,
  uenv_ascent_noise |-> uenv_ascent_noise, uenv_ascent_kripke |-> uenv_ascent_kripke,
  uenv_ascent_cloverleaf3d |-> uenv_ascent_cloverleaf3d,
  dummysph |-> dummysph_uenv_ascent_single({}),
  dummysph_tipsy_h5part |-> dummysph_uenv_ascent_single({"unsupported"}),
  ICON4PyBenchmarks |-> ICON4PyBenchmarks,
  ParaView_coloredSphere |-> ParaView_coloredSphere,
  ParaView_catalystClipping |-> ParaView_catalystClipping]

MCML == [
  test_image_tag_retrieval |-> test_image_tag_retrieval, PyTorchDdpCeNv |-> PyTorchDdpCeNv,
  PyTorchNCCLAllReduce |-> PyTorchNCCLAllReduce, PyTorchRCCLAllReduce |-> PyTorchRCCLAllReduce,
  TorchHammerCEMultiGPU |-> TorchHammerCEMultiGPU,
  PyTorchMegatronLM_CE |-> PyTorchMegatronLM_CE("apertus3-70b"),
  PyTorchMegatronLM_UENV |-> PyTorchMegatronLM_UENV("llama3-8b"),
  PyTorchMegatronLM_AMD_CE |-> PyTorchMegatronLM_AMD_CE,
  pytorch_image_import |-> pytorch_image_import,
  PyTorchMegatronLM_AMD_Optimized_CE |-> PyTorchMegatronLM_AMD_Optimized_CE,
  PyTorchMegatronLM_CE_Dev |-> PyTorchMegatronLM_CE_Dev,
  PyTorchMegatronLM_Skybox |-> PyTorchMegatronLM_Skybox,
  mlperf_storage_datagen_ce |-> mlperf_storage_datagen_ce,
  MLperfStorageCE |-> MLperfStorageCE, MLperfStorageCECleanup |-> MLperfStorageCECleanup,
  mlperf_storage_datagen_sarus |-> mlperf_storage_datagen_sarus,
  MLperfStorageSarus |-> MLperfStorageSarus]

MCBench == [
  OSULatency |-> OSULatency, OSUBandwidth |-> OSUBandwidth,
  OSULatencyCuda |-> OSUCuda(OSULatency),
  fetch_osu_benchmarks |-> fetch_osu_benchmarks,
  build_osu_cpu |-> build_osu_benchmarks("cpu"), build_osu_cuda |-> build_osu_benchmarks("cuda"),
  osu_pt2pt_cpu |-> osu_pt2pt_check("cpu", "build_osu_cpu"),
  osu_pt2pt_cuda |-> osu_pt2pt_check("cuda", "build_osu_cuda"),
  osu_collective_cpu |-> osu_collective_check("cpu", "build_osu_cpu"),
  osu_collective_cuda |-> osu_collective_check("cuda", "build_osu_cuda"),
  NCCLTestsCE |-> NCCLTestsCE, NCCLTestsCEHost |-> NCCLTestsCEHost,
  NCCLTestsSkybox |-> NCCLTestsSkybox, NCCLTestsUENV |-> NCCLTestsUENV,
  RCCLTestsCE |-> RCCLTestsCE, RCCLTestsUENV |-> RCCLTestsUENV,
  CudaNodeBurnCE |-> CudaNodeBurnCE, CPUNodeBurnCE |-> CPUNodeBurnCE,
  baremetal_cuda_node_burn |-> baremetal_cuda_node_burn,
  RocHPL |-> RocHPL, CoralGemm |-> CoralGemm, ParallelAlgos |-> ParallelAlgos,
  FFTBenchBuild |-> FFTBenchBuild, FFTCheck |-> FFTCheck, StreamTest |-> StreamTest,
  AllocSpeedTest |-> AllocSpeedTest("no"), AllocSpeedTest_2M |-> AllocSpeedTest("2M"),
  gpu_burn_build_cuda |-> gpu_burn_build("cuda"), gpu_burn_build_hip |-> gpu_burn_build("hip"),
  gpu_burn_cuda |-> gpu_burn_check("gpu_burn_build_cuda", "cuda"),
  gpu_burn_hip |-> gpu_burn_check("gpu_burn_build_hip", "hip")]

MCEnv == [
  MpiInitTest |-> MpiInitTest, MpiGpuDirectOOM |-> MpiGpuDirectOOM,
  HelloWorldTestSerial |-> HelloWorldTestSerial, HelloWorldTestOpenMP |-> HelloWorldTestOpenMP,
  HelloWorldTestMPI |-> HelloWorldTestMPI, HelloWorldTestMPIOpenMP |-> HelloWorldTestMPIOpenMP,
  cpi_build_test |-> cpi_build_test, cuda_aware_mpi_build |-> cuda_aware_mpi_build,
  cuda_aware_mpi_one_node_check |-> cuda_aware_mpi_one_node_check,
  cuda_aware_mpi_two_nodes_check |-> cuda_aware_mpi_two_nodes_check,
  MPIIntranodePinned |-> MPIIntranodePinned, UENV_NVML |-> UENV_NVML, CPE_NVML |-> CPE_NVML,
  UENV_CudaSamples |-> UENV_CudaSamples, CPE_OpenACCFortranCheck |-> CPE_OpenACCFortranCheck,
  UENV_OpenACCFortranCheck |-> UENV_OpenACCFortranCheck,
  openmp_offload_gfortran_test |-> openmp_offload_gfortran_test,
  openmp_offload_nvfortran_test |-> openmp_offload_nvfortran_test,
  CPE_OpenCLCheck |-> CPE_OpenCLCheck, UENV_OpenCLCheck |-> UENV_OpenCLCheck,
  OMB_MPICH_CE |-> OMB_MPICH_CE, OMB_OMPI_CE |-> OMB_OMPI_CE,
  OMB_OMPI_CE_collective |->
      Extend(OMB_OMPI_CE, <<Body("test_name", {"collective"})>>),
  OMB_MPICH_CE_Host |-> OMB_CE_Host(OMB_MPICH_CE), OMB_OMPI_Skybox |-> OMB_Skybox(OMB_OMPI_CE),
  SphExa_CE |-> SphExa_CE, SphExa_Skybox |-> SphExa_Skybox, PyFR_CE |-> PyFR_CE,
  PyFR_Skybox |-> PyFR_Skybox, SSH_CE |-> SSH_CE, CUDA_MPS_CE |-> CUDA_MPS_CE,
  enroot_import_image |-> enroot_import_image,
  RunJobCE |-> RunJobCE(ContainerNode, "enroot_import_image", <<>>),
  RunNVGPUJobCE |-> RunNVGPUJobCE(NvidiaContainer, "enroot_import_image")]

MCNode == [
  HostnameCheck |-> HostnameCheck, EnvironmentVariableCheck |-> EnvironmentVariableCheck,
  NvidiaSmiDriverVersion |-> NvidiaSmiDriverVersion,
  DefaultRequestGPUSetsGRES |-> DefaultRequestGPUSetsGRES, SlurmGPUGresTest |-> SlurmGPUGresTest,
  MemoryOverconsumptionCheck |-> MemoryOverconsumptionCheck, MemoryOomMpiCheck |-> MemoryOomMpiCheck,
  slurm_response_check |-> slurm_response_check,
  SlurmQueueStatusCheck |-> SlurmQueueStatusCheck(get_system_partitions("eiger")),
  SlurmPrologEpilogCheck |-> SlurmPrologEpilogCheck({"prolog.sh"}),
  SlurmPrologEpilogCheck_none |-> SlurmPrologEpilogCheck({}),
  SlurmTransparentHugepagesCheck |-> SlurmTransparentHugepagesCheck,
  SlurmParanoidCheck |-> SlurmParanoidCheck, SlurmNoIsolCpus |-> SlurmNoIsolCpus,
  SlurmUvmPerfAccessCounterMigration |-> SlurmUvmPerfAccessCounterMigration,
  NVreg_RestrictProfilingToAdminUsers |-> NVreg_RestrictProfilingToAdminUsers,
  InvalidAccount |-> InvalidAccount, uenv_status |-> uenv_status,
  UENV_BuildDeviceCount |-> UENV_BuildDeviceCount, CPE_BuildDeviceCount |-> CPE_BuildDeviceCount,
  UENV_NvidiaDeviceCount |-> UENV_NvidiaDeviceCount, CPE_NvidiaDeviceCount |-> CPE_NvidiaDeviceCount,
  CXIGPULoopbackBW |-> CXIGPULoopbackBW, CXIStatHSN |-> CXIStatHSN,
  CXIGPU2GPULoopbackBW |-> CXIGPU2GPULoopbackBW, DcgmRpmCheck |-> DcgmRpmCheck,
  GssrCeHookCheck |-> GssrCeHookCheck, fio_compile_test |-> fio_compile_test,
  stuck_gpu_mem_test |-> stuck_gpu_mem_test, ddBlockSizeTest |-> ddBlockSizeTest,
  H5PyTest |-> H5PyTest, CPE_HDF5Test |-> CPE_HDF5Test, Uenv_HDF5Test |-> Uenv_HDF5Test,
  CPE_NetcdfTest |-> CPE_NetcdfTest, UENV_NetcdfTest |-> UENV_NetcdfTest,
  PnetCDFTest |-> PnetCDFTest, CDO_base |-> CDO_base, CDO_file_test |-> CDO_file_test,
  NCO_base |-> NCO_base, NCO_file_test |-> NCO_file_test, HPCToolkit |-> HPCToolkit,
  linaro_ddt |-> linaro_ddt]

MCClasses == MCApps @@ MCVis @@ MCML @@ MCBench @@ MCEnv @@ MCNode
\* TLC evaluates @@ and what LET names once.
MCCatalogue ==
  LET classes == MCClasses
  IN  [t \in DOMAIN classes |-> Load(classes[t])] @@ <<>>

\* A fixture runs with the test that uses it.
Selection ==
  LET classes  == MCClasses
      uses     == UNION {classes[t].uses : t \in DOMAIN classes}
      fixtures == {u.test : u \in {u \in uses : u.scope # "fully"}}
  IN  DOMAIN classes \ fixtures

-----------------------------------------------------------------------------
(* Partitions: of each system one of each kind it has, of the login nodes   *)
(* those that are unlike daint's, of ault those the tests tell apart.      *)

MCPartitions ==
  ("daint:normal" :> daint.normal) @@ ("daint:login" :> daint.login)
  @@ ("clariden:normal" :> clariden.normal) @@ ("bristen:normal" :> bristen.normal)
  @@ ("beverin:mi300" :> beverin.mi300) @@ ("beverin:mi200" :> beverin.mi200)
  @@ ("eiger:normal" :> eiger.normal) @@ ("wildhorn:normal" :> wildhorn.normal)
  @@ ("balfrin:login" :> balfrin.login) @@ ("balfrin:nvgpu" :> balfrin.nvgpu)
  @@ ("balfrin:cpu" :> balfrin.cpu) @@ ("santis:normal" :> santis.normal)
  @@ ("starlex:normal" :> starlex.normal) @@ ("lys:normal" :> lys.normal)
  @@ ("pilatus:normal" :> pilatus.normal) @@ ("tasna:nvgpu" :> tasna.nvgpu)
  @@ ("tasna:cpu" :> tasna.cpu) @@ ("ault:a64fx" :> ault.a64fx)
  @@ ("ault:amda100" :> ault.amda100) @@ ("ault:amdvega" :> ault.amdvega)

\* What ReFrame has found out of the processor, if it has.
Processors(p) ==
  {{}, {"procinfo"} \cup CASE p \in {"eiger:normal", "pilatus:normal", "wildhorn:normal"} -> {"zen2"}
                           [] p \in {"balfrin:cpu", "tasna:cpu"} -> {"zen3"}
                           [] OTHER -> {}}

PartTable ==
  LET parts == MCPartitions
  IN  [p \in DOMAIN parts |-> Part({p}, parts[p].features, parts[p].arch, Processors(p))] @@ <<>>

\* Facts of an environment, of its version, of the shell or of the command line
\* that a test asks for.
Optional == {"another uarch", "hugepages2M", "PrgEnv-cray", "PrgEnv-gnu"} \cup Ambient
AskedFor(class) == Optional \cap UNION {
  LET h == class.hooks[i] IN h.skipIf \cup h.skipUnless \cup h.reads : i \in DOMAIN class.hooks}

\* Those of a partition the test is valid on, each with what the test asks for;
\* of uenvs, two with the features it asks for, or one if it uses no other test.
EnvironsOf(class, part) ==
  LET uenvs == IF "uenv" \notin part.features THEN {}
               ELSE {k.with \cup {"uenv", e} : k \in class.environs,
                       e \in IF class.uses = {} THEN {"1"} ELSE {"1", "2"}}
      known == part.environs \cup {e \in uenvs : e \cap {"builtin", "cpe"} = {}}
      all   == known \cup {e \cup {x} : e \in known, x \in AskedFor(class)}
  IN  {e \in all : Valid(class.environs, e)}

EnvironTable ==
  LET classes == MCClasses
      parts   == MCPartitions
  IN  [t \in DOMAIN classes, p \in DOMAIN parts |-> EnvironsOf(classes[t], parts[p])] @@ <<>>

\* TLC evaluates each table once, and leaves what it names by LET out of its
\* coverage report.
MCClass == LET table == MCCatalogue IN table
MCRoots == LET table == Selection IN table
MCParts == LET table == PartTable IN table
MCEnvirons == LET table == EnvironTable IN table
MCSystems == DESC \cup {"bristen"}

-----------------------------------------------------------------------------
(* What the theorems on the tests ask of the classes, asked of the sessions *)
(* of the catalogue.                                                        *)

OfEverySession(P(_)) ==
  \A t \in Roots, p \in DOMAIN Parts :
  \A proc \in Parts[p].processors, envs \in SUBSET Environs[t, p] :
  \A e \in envs :
    Valid(Class[t].systems, Parts[p].facts) /\ Cardinality(envs) <= MaxEnvirons
      => P(SessionOf(t, p, proc, envs, e))

CatalogueCaseByCase ==
  /\ OfEverySession(Described) /\ OfEverySession(Informed) /\ OfEverySession(HasRows)
  /\ OfEverySession(KeepsAll)

-----------------------------------------------------------------------------
(* The three models *)

AffinityIdle ==
  /\ topo = Smt /\ test = "none" /\ pc = "idle" /\ job = NoJob /\ aff_cpus = <<>>
  /\ cpu_set = {} /\ sockets = <<>> /\ result = "none"

TestsIdle ==
  /\ session = {} /\ next = <<>> /\ held = <<>> /\ put = <<>> /\ lost = <<>>
  /\ end = <<>> /\ blame = {}

ChecksIdle ==
  /\ check = Idle /\ system = "none" /\ machine = [there |-> TRUE, tool |-> "works"]
  /\ phase = "idle" /\ output = {} /\ verdict = "none"

MCInit ==
  \/ Init /\ TestsIdle /\ ChecksIdle
  \/ TestsInit /\ AffinityIdle /\ ChecksIdle
  \/ ChecksInit /\ AffinityIdle /\ TestsIdle

MCNext ==
  \/ Next /\ UNCHANGED <<testVars, checkVars>>
  \/ TestsNext /\ UNCHANGED <<vars, checkVars>>
  \/ ChecksNext /\ UNCHANGED <<vars, testVars>>

MCSpec == MCInit /\ [][MCNext]_<<vars, testVars, checkVars>>
=============================================================================
