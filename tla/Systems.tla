------------------------------- MODULE Systems -------------------------------
(***************************************************************************)
(* The systems of config/systems: the partitions of each, with what the    *)
(* tests ask of one - its features and extras, the architecture of its     *)
(* devices and its environments.  The resources, accounts and limits of a  *)
(* partition are handed to Slurm and are left out.                         *)
(***************************************************************************)

\* Environments, by their features.
builtin == {"builtin"}
cpe(features) == {"PrgEnv-ce", "cpe", "prgenv", "serial", "openmp", "mpi", "containerized_cpe"}
                   \cup features

Partition(features, arch, environs) ==
    [features |-> features, arch |-> arch, environs |-> environs]

Login == Partition({}, "none", {builtin})

OnSlurm == {"remote", "scontrol", "uenv"}
NvidiaNode == OnSlurm \cup {"ce", "gpu", "nvgpu"}
Gh200Node == NvidiaNode \cup {"hugepages_slurm", "cn_memory"}
AmdNode == OnSlurm \cup {"ce", "gpu", "amdgpu"}

\* The containerised programming environment is there when its image is given.
daint == [login |-> Login,
    normal |-> Partition(Gh200Node, "sm_90", {builtin, cpe({"cuda"})})]

clariden == [login |-> Login, normal |-> Partition(Gh200Node, "sm_90", {builtin})]
santis == clariden
starlex == clariden
lys == [normal |-> clariden.normal]

bristen == [login |-> Login,
    normal |-> Partition(NvidiaNode \cup {"cn_memory"}, "sm_80", {builtin})]

beverin == [login |-> Login,
    mi300 |-> Partition(AmdNode \cup {"cn_memory"}, "gfx942", {builtin}),
    mi200 |-> Partition(AmdNode \cup {"cn_memory"}, "gfx90a", {builtin})]

eiger == [login |-> Login,
    normal |-> Partition(OnSlurm \cup {"ce", "cn_memory"}, "none", {builtin, cpe({})})]
pilatus == eiger

wildhorn == [login |-> Login,
    normal |-> Partition({"remote", "ce", "cn_memory"}, "none", {builtin})]

\* No memory limit is given; the login nodes are remote, too.
balfrin == [login |-> Partition({"remote", "uenv"}, "none", {builtin}),
    nvgpu |-> Partition(OnSlurm \cup {"gpu", "nvgpu", "sarus"}, "sm_80", {builtin}),
    cpu |-> Partition(OnSlurm \cup {"sarus"}, "none", {builtin})]
tasna == balfrin

gnu == {"gnu"}
cuda == {"cuda"}
rocm == {"hip"}

ault == [login |-> Partition({}, "none", {gnu}),
    a64fx |-> Partition({"remote"}, "none", {gnu}),
    amda100 |-> Partition({"gpu", "nvgpu", "remote"}, "sm_80", {gnu, cuda}),
    amdv100 |-> Partition({"gpu", "nvgpu", "remote"}, "sm_70", {gnu, cuda}),
    amdvega |-> Partition({"gpu", "amdgpu", "remote"}, "gfx900", {gnu, rocm}),
    intelv100 |-> Partition({"gpu", "nvgpu", "remote"}, "sm_70", {gnu, cuda}),
    intel |-> Partition({"remote"}, "none", {gnu})]
=============================================================================
