# Verification of cscs-reframe-tests

`cscs-reframe-tests` is the ReFrame test suite of CSCS together with the programs around it: a generator of ReFrame
configurations, a scheduler backend that reaches Slurm through FirecREST, a loader of uenv images, a reporter, CI scripts,
and benchmark programs that the tests compile and run. This project models two kinds of code in it: the programs that run
concurrently, keep state or compute something (`config/`, `hpctestlib/`, `reframe_reporter/`, a few files under `checks/`),
each in a module of its own; and the tests of `checks/`, some 180 classes whose hooks the ReFrame framework calls, which are
put together from base classes, plugins, fixtures and tables and are run here, class by class, on the partitions of
`config/systems/`. Paths below are relative to the repository; `PROJECT.json` maps every definition to its lines.

## 1. Inventory

| Component | State | Operations | Interacts with | Hard behaviours | What makes it correct |
|---|---|---|---|---|---|
| Autodetection of remote partitions: `config/utilities/job_util.py` | `node_types`, `default_nodes`, `partitions`, `_p_n`, `_job_poll`, `_keep_tmp_dir`; the files in `TMP_DIR`; the working directory of the process | `search_node_types`, `create_partitions` (gathers one `create_remote_partition` per node type), `JobRemoteDetect.job_submission` / `_submit_job` / `_extract_info` | `scontrol`, `sbatch`, `scancel`, the jobs, the user, `asyncio` | coroutines interleave at three `await`s while they share directory, counter, files; two attempts per partition; timeout against completion; exceptions through `gather` | one partition per type, with its own name and its own job's results; the directory and the queue are left clean |
| `build_config`, `generate.py`, module system and user input: `config/generate.py`, `config/utilities/{config,io,modules}.py` | `SystemConfig` fields, the `Scheduler` and `Launcher` detectors, the list of modules being edited | a fixed sequence of detectors, the dialogue about modules, the reservation loop, rendering of the template | the component above, the environment, the template | what a failing detector leaves behind; a list edited by index over several rounds | no module is lost that was not given up; each requested reservation that exists is served |
| FirecREST scheduler: `config/utilities/firecrest_slurm.py` | `_cleaned_remotedirs`, per job `_remotedir`, `_jobid`, `_state`, `_exitcode`, `_is_cancelling` | `submit`, `poll`, `wait`, `cancel`, `cancel_many`, push and pull of artefacts | the REST service, the remote file system, Slurm, the framework's policies | lost replies, retries without bound, 404 for a young job, one failing call among several jobs | a test's result comes from its own run in a directory of its own; no job is run twice |
| uenv loader and site configuration: `config/utilities/uenv.py`, `config/{cscs,common}.py`, the list of images of `ci/alps_uenv.yml` and `ci/scripts/alps.sh` | the list of images, environment and partition records | pull images, build `CSCS_RFM_UENV`, read metadata, extend partitions | the image repository, which other jobs share; ReFrame's loader | a file looked at three times; records shared between partitions; an image that is skipped | an environment reaches exactly the partitions that can run it, and each one is backed by a complete image |
| Reporter: `reframe_reporter/` | an inventory file, an execution list, a report | inventory, run ReFrame per target, build the report, render | `reframe` subprocesses, files, the deployed images | a failing run among several; duplicate labels; a stale inventory | a tick means that the test was listed for that target; totals equal the ticks; what is eligible is deployed |
| CI notifications and metrics: the rest of `ci/`, `utility/` | environment variables, files | run, notify, convert | HTTP services | partial failures of shell steps | a red run is never shown green |
| GPU burn: `hpctestlib/microbenchmarks/gpu/src/gpu_burn/gpu_burn.cu` | `burn`, `startUpCounter`, `cv`, `cv_m`, one `BurnTracker` per device | `startBurn` (one thread per device), `launch`, `BurnTracker::log/read` | the threads among themselves, the GPUs | lost and spurious wakeups; trackers read while they are written | no burning before all are warm; no faulty device passed; the program ends |
| MPI halo exchange: `checks/microbenchmarks/mpi/halo_exchange/src/halo_cell_exchange.c` | per rank: the line, the call, receives and sends; the reduction | post receives, post sends, wait, reduce, print | the other ranks | one tag for everything when two neighbours are one rank; sends that wait for their receives | each halo receives its neighbour's face, of this exchange; every line is printed |
| Jacobi solver: `checks/tools/profiling_and_debugging/src/C++/` | a stripe of rows per rank, two of them the neighbours' | exchange rows, sweep, reduce the residual | the other ranks | a rank one sweep ahead; rows nobody has set | it computes the sweeps of one grid, and stops everywhere after the same one |
| Affinity checks: `checks/prgenv/affinity_check.py` | the CPUs not yet consumed, per socket the CPUs seen | consume the lines of the tool one by one | the output of the tool | boundaries of the topology; an output with too few or too many lines | a pass means that threads are placed as the class says, a failure that they are not |
| System integration checks: `checks/system/integration/` | none | a factory makes a test of a command and two patterns | the node | negative checks, wrong streams, missing tools | a pass means what the description says |
| The tests of `checks/` and `hpctestlib/` | per case: its attributes and lists of options | hooks after init and setup, before compile, run, sanity and performance | base classes, plugins (`checks/mixins`), fixtures, dependencies, tables indexed by microarchitecture, the partitions of `config/systems/` | the order of hooks; lists that one hook assigns and another adds to; fixtures shared by environments | a hook finds what others are to leave; no option is lost; a test runs where it has references |
| Pointer chase and other GPU kernels | none | sequential measurements | – | none for a model checker | – |

`PROJECT.json` lists the same parts with their status, and under `hazards` what is hard to test, at the line where it bites.

## 2. What is modelled

| Module | Content |
|---|---|
| `SlurmCluster` | the node list and what `SlurmContext` derives from it: node types, default types, access partition, devices; where Slurm may place a job |
| `PartitionDetection` | abstract specification: what the detection promises to `build_config` |
| `RemoteDetect`, `MCRemoteDetect` | `create_partitions`, `create_remote_partition`, `JobRemoteDetect`, `sbatch`, Slurm; small clusters |
| `RemoteDetectProofs` | theorems: types, control and directory; names, jobs and files; the refinement of `PartitionDetection` |
| `BuildConfig`, `MCBuildConfig`, `BuildConfigProofs` | `generate.py` and `build_config`, composed with the promise `PartitionDetection`; theorems |
| `FirecrestScheduler`, `FirecrestProofs` | `submit`, `poll`, `wait` and `cancel` through the FirecREST service; Slurm and the remote directories; theorems |
| `SiteConfig` | how `cscs.py` adds environments to partitions; used by the next two |
| `UenvConfig`, `MCUenvConfig`, `UenvConfigProofs` | from a list of images to environments, in a repository other jobs change; theorems |
| `Reporter`, `MCReporter`, `ReporterProofs` | the inventory generator, the runs of the targets and the table; theorems |
| `GpuBurn` | the threads of the GPU burn benchmark and its verdict |
| `HaloExchange`, `MCHaloExchange` | the ranks of the halo exchange benchmark and MPI |
| `BenchmarkProofs` | theorems about the burn and the halo exchange |
| `JacobiSweeps` | abstract specification: sweeps of one grid, without ranks and messages |
| `Jacobi`, `JacobiProofs` | the ranks of the Jacobi solver; theorems, the refinement of `JacobiSweeps` among them |
| `AffinityCheck`, `MCAffinityCheck` | the affinity tests on every output of their tool |
| `ReframeTests` | hooks, plugins, fixtures and the pipeline: what the tests rely on of ReFrame, and the properties of tests |
| `CaseByCase` | what can be said of each case of a session before any runs: the hypotheses of the theorems on tests |
| `AppTests`, `VisTests`, `MLTests`, `BenchTests`, `EnvTests`, `NodeTests` | the test classes of `checks/`, as data of `ReframeTests` |
| `Systems` | the partitions of `config/systems/` |
| `IntegrationChecks` | the integration checks: factory, hooks and the checks it makes |
| `MCChecks` | the affinity tests, the integration checks and the catalogue of classes on the partitions of all systems, in one model |
| `ChecksProofs` | theorems about the affinity tests, the integration checks and the tests of any catalogue |

### 2.1 SlurmCluster, RemoteDetect

*State.* Per node type: `pc` (where its coroutine is suspended), `attempt`, `name`, `access` (`access_options`), `idSeen`
(`job_id` was found on the first line of `sbatch`'s output) and `job[t][a]`, the `sbatch` process and job of attempt `a`.
Shared: `pn` (`_p_n`), `keepTmp`, `tmpDir`, `cwd`, `partitions`, `jobPoll`, the files `scripts` and `outputs` (a set of
records with at most one per name), and `main`, the point `create_partitions` has reached.

*Actions.* A coroutine runs alone from one `await` to the next, so each action is one such stretch, everything the code does
in it included. `Begin`, `BeginFails` and `Decline` run `create_remote_partition` to its first `await` (the naming, the
questions, `_find_devices`, `_get_access_partition`, `_prepare_job`, the start of `sbatch`) or to its end when no job is
needed. `ReadLine` resumes after `readline()` (a first line that is empty or holds "error" ends the
attempt, also when the job was accepted: `ErrorLine`), `Communicate` after `communicate()`, `Timeout` after `wait_for` has expired
(with `scancel`). Each of the three includes what `job_submission` does next: the second attempt (`Submit`), or `_extract_info`
and the creation of the partition (`Conclude`). `SbatchAccepts`, `SbatchRejects`, `JobRuns`, `JobCancelled` belong to Slurm.
`StartStatusBar`, `Finally`, `StatusBarCancelled` are the steps of `create_partitions`; when a coroutine raises, the others go
on until the status bar has been cancelled, as in the code.

*Data.* Options of a script are elements of a set of tokens: what the properties need is which ones are there. The output file
of a job is the node it ran on. `_find_devices` and `_get_access_partition` look at the nodes in the order in which `scontrol`
prints them, which is why nodes are numbers.

*Environment.* `Eligible` says where Slurm may place a job: by the constraint and by the partition, the default one when no
`-p` is given. Slurm may refuse any submission, run or keep any job, and a job that has been told to stop may still complete.

### 2.2 PartitionDetection

Each node type is settled once – skipped by the user, created, or created with what a job found – and the detection finishes
only when all are; it fails only when a command of it can raise. `KeepsPromise` maps `partitions` and `pc` to `result` and
`main` to `phase`, so that every step of the detection is a step of the promise or a stutter.

### 2.3 GpuBurn

`startBurn` is `SignalReady`, `HoldOff` and `Block` (the two halves of `cv.wait(lk, p)`: the predicate under the lock, then
blocking, which releases it), `Repeat`, `Compute`, `Log`; `launch` is `AwaitReady`, `BlockLaunch`, `SetBurn`, `NotifyAll`,
`ResetBurn`, `ReadTracker`, `StartJoin`, `Join`. `burn` is volatile and is written without the mutex: reads and writes of it are
steps of their own, indivisible as they are on the machines this runs on. `SpuriousWakeup` is what the standard allows. `logged`
is a history variable. The arithmetic on matrices is abstracted to "this repetition found wrong elements or not", the counters
of a tracker to "not zero", and the time of a repetition to the sign of `read()`'s result.

### 2.4 FirecrestScheduler

*State.* Per test: `pc` (ready, staging, submitting, queued, done, failed), `step` (its compilation or its run, both in one stage
directory), `jobid`, `state` (`job._state`), `cancelling` (poll has cancelled the job and set its exception), the outputs in the
`local` and in the `remote` directory. Shared: `cleaned` (`_cleaned_remotedirs`) and the poll under way (`polling`, `todo`,
`info`). Slurm's side: `jobs`, and `earlier`, the jobs a previous session left in the queue. `dirty` and `lost` are history
variables: the tests that did not start in a clean directory and the jobs whose submission was answered by an error.

*Actions.* `submit` is `Clean` (the `rm`, every error of which is ignored), `Stage` (`mkdir`, `_push_artefacts`) and
`SubmitReplies` or `SubmitFails` (the resubmission loop; the job may have been created). `poll` is `StartPoll`, `JobInfo` per job
or `JobInfoFails`, and `EndPoll` (the update, then the cancellation of blocked jobs and of those that have been pending too long).
`wait` is `WaitRaises` or `Pull`. The process is single-threaded, hence the guard `~Busy`; Slurm goes on between any two calls of
the service: `Register` (a job appears in the database `job_info` asks), `Start`, `End`, `Kill`. An error that leaves `poll` ends
either the tests polled, when it comes through `wait`, or the session.

*Data.* An output file is the job that wrote it and whether it is complete. `finished`, `_cancel_if_blocked` and
`_cancel_if_pending_too_long` are ReFrame's and modelled from how `poll` and `wait` rely on them. The several calls of
`_push_artefacts` and of `_pull_artefacts` are one step: only one of them changes what the properties see, and a failure of
another ends the test. Left out: job arrays, the exit code, the files of `rfm-detect-job` downloaded one by one.

### 2.5 BuildConfig

`build_config` is one sequence: `pc` is the detector to run next, and each detector is an action that chooses what it finds on the
machine. The dialogue about modules (`io.py`) is modelled round by round, with the list it edits (`modules`), the position it is
at (`mi`) and the positions to remove (`remove`); `wanted` (what the user last gave for each request), `declined`
(the requests given up) and the `of` of a module, which request it is for, are history. The remote partitions come from
`Detection == INSTANCE PartitionDetection`: `create_partitions` may do whatever its promise allows, failure included, which is
what `RemoteDetect` is proved to implement. The reservation loop, the login and reservation partitions and the final rendering
follow, with the `grep` that raises on a cluster without reservations.

### 2.6 SiteConfig, UenvConfig, Reporter

`SiteConfig` has the step of `cscs.py` that puts environments into partitions. `UenvConfig` is the way of an image through the
pipeline: pulled by the job (`uenv_pull_meta_dir`), accepted into `CSCS_RFM_UENV`, examined and loaded by `uenv.py`, added by
`cscs.py`. An image file is absent, being pulled (an empty file) or ready, and other jobs of the pipeline may change that between
any two steps. A list may also be set by hand, with paths. `Reporter` starts from the generator of the inventory, system by
system, while images are deployed and removed; then one `reframe` per target of the matrix, which reads the configuration again
(through `SiteConfig`) and may fail; then the table, in which tests become rows by name and targets become columns by label. The
loader passes over a recipe whose `reframe.yaml` it cannot read, and takes an answer of `uenv` without a list of records for no
images when the command names a system (`overlooked`, action part `Overlook`): ReFrame then lists the other tests and exits with
zero.

### 2.7 HaloExchange

Per rank: `pc`, `line`, `call`, `step` and the receives and sends it has posted for each other rank, in order. MPI matches the
k-th receive of a pair with its k-th message, all having tag 1. A message of at most `EagerLimit` cells is buffered; a larger one
completes with its receive. `MPI_Cart_create` may renumber the grid. A receive records the side and the exchange it is for, a
message the face it carries, so that `MatchedAsMeant` can compare them. Buffers are sets of cells with the offsets of the code.

### 2.8 JacobiSweeps, Jacobi

Of a row the model knows how often it has been swept and whether it holds what the algorithm gives. Each rank has its stripe, by
the integer divisions of the code, sweeps when both neighbours' rows have arrived, takes part in the reduction of the residual and
decides whether to go on. `uold` is not initialized in the code: zero or not is a choice. `KeepsPromise` maps the stripes to one
grid; `JacobiSweeps` says what that grid must look like after each sweep, also how far an unset boundary row has spread.

### 2.9 AffinityCheck

A test is its class and a node; `job` what it asks for (tasks, CPUs per task, threads), computed as in the code from the topology.
The output is revealed line by line, any set of CPUs of `Reports` at a time, and consumed as the class does: by sets of the
topology, by socket, or task by task in the order of the sockets. `PassMeansPlaced` and `FailMeansMisplaced` compare the verdict
with a definition of the placement that does not consume anything.

### 2.10 The tests: ReframeTests and the catalogue

A test class is a record: the constraints it is valid on, the tests it uses with the scope of the fixture, the microarchitectures
it has references for, and its hooks in the order they run. A hook is what it reads (attributes, facts of the partition,
attributes of a test in use), the table it looks up, what it sets, the options it adds, the lists it assigns anew, the lists it
writes to a file, and when it skips. `Inherit`, `Mixed`, `Extend` and `Derive` put classes together as Python and ReFrame do:
hooks in the reverse order of the classes, plugins before the class, an overriding hook in the place of the overridden one. A
*session* is one selected test on one partition, with one or two environments, and all the cases of the tests it uses; after all
are loaded, the cases go through the stages in any interleaving the dependencies allow. A hook that misses something raises
(`blame` says what); any hook may raise for something outside of the tests; builds and jobs may fail anywhere. A case waits for
the cases `Used`: for those of a dependency (`udeps.fully`) in all environments, for a fixture in its own or in the session's. It
takes from its `Sources`, those of its own environment.

What is kept of a hook is its control and its interplay: values of options and references, formats and patterns are not. A branch
that adds an option only on one microarchitecture is taken to add it always. Classes that differ in values only (`CDO_info_test`
and `CDO_merge_test`, GEMM and STREAM of node burn, the three versions of NetCDF) are one definition. `num_cpus_per_task` and the
like of the pipeline are there from the start.

`Systems` describes partitions by features, extras, devices and environments. `MCChecks` makes the catalogue, partition by
partition, of every class that is valid somewhere.

### 2.11 IntegrationChecks

`Check` is the factory of `utils.py`: what is looked for and where, and `make_valid_systems`. The hooks `check_system` and
`set_command_options` skip a test; `validate` is the sanity function. The machine either has what the command asks for or not, and
the tool works, is missing or hangs; what the command writes then is external. `AsDescribed` says what the description of the
check claims of the machine, and `FaultFound` compares.


## 3. Runs

| Run | Instance | Question and result |
|---|---|---|
| `detect_auto` | 3 types on 4 nodes, `--auto`, one for each way through `job_submission`; other lines on `sbatch`'s output, failing `scontrol`/`scancel` | The inductive invariant; names, files, jobs, directory and results stay apart. All hold (1.3 M states) |
| `detect_interactive` | the same types on one node each, the user's answers, a relative `--prefix`, for one type an accepted job whose first line is taken for an error, `FairSpec` | The shared directory, termination and the promise, on the paths with exceptions and with jobs nobody waits for. All hold (1.2 M) |
| `build` | 2 remote types behind the promise, two module lists of two and three names, requests with unknown and doubled reservations | The dialogue about modules and the reservation loop lose nothing. Both hold (1.4 M) |
| `firecrest` | 2 tests, one compiled remotely in a directory an earlier session used; every call may fail, one reply of a submission is lost | Results, jobs and cancellations stay those of the test. All hold (4.0 M) |
| `firecrest_ends` | the same tests, no leftovers and no lost reply, `FairSpec` | Every job is finished or given up. Holds (0.1 M) |
| `uenv` | 4 uenvs, one without metadata, one with broken metadata, one a path; three changes by other jobs | Environments are backed, nothing is hidden, what was accepted loads. All hold (28 k) |
| `reporter` | 2 systems, 5 matrices with duplicate labels, an empty entry and a listing that cannot be read, one change of the deployment, one recipe a run may fail to read | Cells, totals and eligibility are true. All hold (1.4 M) |
| `burn` | 2 devices, spurious wakeups, `FairSpec` | Hold-off, verdict, results always printed, threads that burn are stopped. All hold (5 k) |
| `burn_join` | 2 devices, `LongSpec` | *Violated*: a thread tests `burn`, misses its notification before it blocks, and is never joined |
| `halo` | 6 ranks, six lines of grids and halos, 2 calls, sends on both sides of the eager limit | Messages of one tag are matched as meant, every line is printed. All hold (0.2 M) |
| `jacobi` | 3 ranks, 6 rows, 2 iterations, `FairSpec` | The ranks implement the sweeps of one grid; the error and the summary are of the whole grid. All hold (30 k) |
| `checks` | 4 topologies, 20 partitions of all systems, 183 classes, two environments | Verdicts mean what they say; classes, plugins, fixtures and tables fit. All hold (1.5 M) |

The violated property of `burn_join` quotes the comment it contradicts (see `findings`). Every property of a passing run has a
mutant of the code's model under which it fails; the mutated forms (`NamesByCompletion`, `InheritOwnFirst`, ...) stand next to the
definition they vary and no specification uses them.

### Properties

Detection, burn, FirecREST:

* `NamesUnique` – partitions are numbered when a coroutine starts and appended when it ends; the order of completion must not
  give two of them one name.
* `OneWriter` – of the jobs that may still run, at most one writes a given output file, the one being cancelled included.
* `ReadsOwnJob` – what a partition was filled with was written by the last, successful, job of that partition.
* `DetectedOnOwnTypeIfHomogeneous` – on a cluster where Slurm partitions do not mix node types, a partition is filled from a node
  of its type whichever attempt succeeded (without the hypothesis it is false, see section 6).
* `NoOrphanJob`, `CwdRestored`, `TmpDirKept` – at the end no job is left in the queue unless it was cancelled; the process is back
  in the directory where the template is read; `finally` never removes the directory of a live job.
* `Terminates`, `KeepsPromise` – with jobs that never leave the queue; as `PartitionDetection` says.
* `HoldOffUntilAllGo`, `VerdictHonest`, `ResultsPrinted`, `BurnersStop` – see section 2.3 and the comments in `GpuBurn`.
* `ResultIsOwn` – what a test is judged by was written by its own jobs, and all of it when they completed. Stated for tests that
  started in a clean directory: the code takes any error of `rm` for "no such directory", and without the hypothesis the property
  is false, as it is when a reply was lost.
* `OnlyCurrentJob` – the only job that may still write in a test's directory is the one the test waits for.
* `NoCancelledResult` – a job cancelled because the last answer was "pending" may be running, or have completed, by then; its test
  still gets no result.
* `SessionEnds` – each job is pulled, raises or is given up, whichever calls fail.

Configuration and reporter:

* `NoModuleLost` – positions collected in one pass are popped in another, names are replaced in between, and a count ends the
  rounds: at the end the list has what the user last gave for each request not given up, in order, and no name is unknown.
* `ReservationsServed` – in auto mode the reservation partitions are those requested that exist, in order; an unknown one does not
  take the next with it.
* `EnvironmentsBacked` – an environment is made of an image only if its file was seen complete, although the list was accepted by
  an earlier job and others change the repository.
* `NothingHidden` – an image that is skipped hides no other; the others are on the partitions with the feature, in order.
* `AcceptedLoads` – what the CI job has accepted fails to load only because of what others did since, or of its own metadata.
* `CellsTrue`, `TotalsRight` – ticks and totals against what was listed, with failing runs, rows that merge several tests and
  labels that merge several targets.
* `EligibleMeansDeployed` – from the deployment through the inventory, the environments and the listing to the tick, and back, but
  for a run in which the loader passes over the recipe.

MPI:

* `MatchedAsMeant` – with one tag for both directions, a receive takes a message of its own exchange, dimension and size, and of
  the right neighbour where there are two.
* `ReceivesApart` – receives in flight write to disjoint parts of the buffer.
* `PrintedWhenFinished`, `EveryLinePrinted` – a time is printed after all ranks are through, and every line that fits is.
* `ErrorOfTheGrid` – each row counts once in the error, whatever the division of the rows.
* `KeepsPromise` (of `Jacobi`) – ranks that run ahead never mix sweeps; an unset boundary row spreads by one row per sweep.
* `SummaryPrinted` – no cycle of ranks waits, even if no send completes before it is received.

Tests:

* `PassMeansPlaced`, `FailMeansMisplaced` – consuming CPUs line by line accepts the right outputs and nothing else.
* `FaultFound` – a check that passes has seen what its description claims. The checks that cannot fail are named in `Blind`, and
  are among the disagreements of section 6.
* `NothingUnset` – a hook never misses what another hook, plugin or test was to leave. It may miss what lies outside of the tests
  (`FromOutside`: a row for the microarchitecture, devices or topology of the nodes, the image a user names), and any hook may
  raise for it (`OutsideRaises`: a file the job has not written, a version that is None).
* `ReferencedRuns` – where a class has references, its tables have rows.
* `NothingLost` – no option is assigned away by another hook of the same test, or added after the script is written, but for the
  three classes named in `LosesItsOwn`.

### Bounds and why they are enough

*Detection.* Coroutines interact in pairs, through the directory, the counter and the files; three of them, each taking another
way through `job_submission` (no partition option and no constraint; constraint and partition; constraint alone), give every pair
of ways and a third party. Two attempts are all the code makes. There is no counter to cap: `pn` grows with the node types. Node
types differ in features, partition membership and GPUs, and in `detect_auto` one type has two nodes, so that a job has a choice.
In `detect_interactive` `ErrorLine` is the type whose coroutine has a second attempt to make; the properties that do not survive
such a line (those stated under `Follows`) are asked of `detect_auto`, where there is none.

*Burn.* Two devices give every order of {first thread, last thread, launch}; the theorems of section 5 are for any number.
Trackers and errors are Booleans, so that no repetition count needs a bound.

*FirecREST.* `MaxJobs` = 3 lets both tests submit all their jobs, or one of them submit once more after a lost reply
(`MaxLost` = 1). When no id is left, submissions can only fail, which the code must survive anyway. Two tests are what it takes
for a poll of several jobs. `firecrest_ends` has neither leftovers nor lost replies because they add states and no obstacle: no
action of the process waits for them. The safety properties are proved without these bounds.

*Build.* Two names that contain one another and one that is not available are what removes several positions in one pass, twice in
a row; the lists have a name twice and a position at each end. `MaxReservs` = 2 bounds the interactive loop, one more than it takes
to see a second round.

*Uenv, reporter.* `MaxChanges` counts what other jobs do: three are a removal, a pull and its end; in the reporter one change
before or after any step; the set `Unreadable` has one recipe, or none, for each run anew. The matrices hold one label twice, one
target twice, and an entry without names.

*MPI.* Six ranks, as the test asks for, in a dimension of one, two and three; a grid of four needs eight ranks and is the line that
is skipped. With three ranks in a dimension, both neighbours differ, as in any longer one. Two calls let a neighbour be one ahead,
which is the most it can be. Three ranks of the Jacobi solver have a first, a middle and a last; six rows leave one with two rows
and the others with one; two iterations are one exchange of swept rows.

*Checks.* Topologies with and without multithreading, of one and of two sockets, with one and with two NUMA nodes per socket.
`MaxExtra` = 1 line more than there should be. Binding to single CPUs is left out on the 8-CPU node, where the orders of the lines
alone would be 109,601 states. `MaxEnvirons` = 2: a fixture can take the wrong environment only if there is another; tests that use
no other get one uenv. Of each system one partition of each kind is there (section 2.10).

Deadlock is checked in every run: the only states without a step other than stuttering are those where the program has ended.

## 4. Fairness

`RemoteDetect`: the event loop runs every coroutine that is ready (weak fairness of the first stretch, of `ReadLine`, and of
`Communicate \/ Timeout`), an `sbatch` process answers, and create_partitions is resumed when its future is done. Weak fairness of
`Communicate \/ Timeout` means that 200 seconds pass. Nothing is assumed of `JobRuns` and `JobCancelled`: a job may stay in the
queue forever, which is the case `Terminates` is about. `readline()` has no timeout in the code; `sbatch` prints a line, or
exits, as soon as the submission is answered, hence the fairness of `Sbatch`.

`GpuBurn`: each thread runs, and a thread that keeps asking for `cv_m` gets it (strong fairness of the actions that need the
mutex). There is no fairness of `SpuriousWakeup`: no thread may count on one. Fairness alone would let `burn_join` hang by a
thread that is not scheduled once in the whole sleep, and finds the switch off again (as a thread may in a very short burn).
`LongSpec` leaves that out: the sleep ends only when no thread that holds off is left to take its turn (`SleepIsLong`). In the
counterexample the thread has tested `burn`, launch sets it and notifies, and only then the thread blocks: the notification is
lost.

`FirecrestScheduler`: the process takes its turn for each test between the calls made for others (strong fairness of the actions
that start with `~Busy`), asks for each job as long as it is not finished, and Slurm registers and runs or kills jobs. Weak
fairness of `Submit` assumes that the service does not answer with a resubmittable error forever: the loop in the code has no
bound.

`Jacobi`: each process runs and MPI delivers what is sent (weak fairness of each `Rank` and each `Deliver`). `HaloExchange`: some
rank that can go on does (weak fairness of `Next`): nothing in it is repeated.

The other modules state no liveness: they are sequential programs whose loops are over lists, or, in `ReframeTests`, ReFrame's.

## 5. Theorems

All constants are arbitrary under the assumptions `ClusterAssumption` (finitely many nodes, numbered; total functions),
`DetectAssumption` (the options are Booleans, `ErrorLine` a set of node types), `DevicesAssumption` (a number of devices),
`FirecrestAssumption` (subsets of the tests, numbers), `JacobiAssumption` (at least one interior row per rank, positive numbers),
`HaloAssumption` (lines with as many halo sizes as dimensions, no dimension 0), `SiteAssumption` and `UenvAssumption` (total
functions; lists, metadata and environments are sequences; the empty identifier is no uenv), `ReporterAssumption` (finitely many
tests and recipes; recipes, their environments and matrices are sequences; `*` is no system; the filters of a target with a tag
are among those ReFrame knows), `BuildAssumption` (finitely many node types; schedulers are among those of the dictionary; lists
are sequences; a module is found under its own name), and those of `AffinityCheck` (`TopologiesAssumption`: cores, NUMA nodes and
sockets each divide the CPUs, and no core is on two sockets; lines are sets of numbers that are finite and not empty). Theorems
about names and jobs of the detection have the hypotheses `DefaultNames` or `Follows` (or both) in their statement, for the
reasons given below.

| Theorem | Property |
|---|---|
| `RemoteDetectProofs!TypeCorrect` | `TypeOK`, with the control invariant |
| `RemoteDetectProofs!CwdSafe` | `CwdRestored` |
| `RemoteDetectProofs!TmpDirSafe` | `TmpDirKept` |
| `RemoteDetectProofs!OnePartition` | `OnePartitionPerType`: no type has two partitions nor, in auto mode, none |
| `RemoteDetectProofs!NamesSafe` | `NamesUnique` |
| `RemoteDetectProofs!OneWriterSafe` | `OneWriter` |
| `RemoteDetectProofs!NoOrphanSafe` | `NoOrphanJob` |
| `RemoteDetectProofs!ReadsSafe` | `ReadsOwnJob` |
| `RemoteDetectProofs!OwnTypeSafe` | `DetectedOnOwnTypeIfHomogeneous` |
| `RemoteDetectProofs!Implements` | `KeepsPromise`: the detection implements `PartitionDetection` |
| `RemoteDetectProofs!Inductive` | `IInv`, all the parts together |
| `BenchmarkProofs!HoldOffSafe` | `HoldOffUntilAllGo` |
| `BenchmarkProofs!VerdictSafe` | `VerdictHonest` |
| `FirecrestProofs!Inductive` | the inductive invariant of the scheduler, type correctness included |
| `FirecrestProofs!NoCancelledResultSafe` | `NoCancelledResult` |
| `FirecrestProofs!OnlyCurrentJobSafe` | `OnlyCurrentJob` |
| `FirecrestProofs!ResultIsOwnSafe` | `ResultIsOwn` |
| `JacobiProofs!Inductive` | the inductive invariant of the solver, type correctness included |
| `JacobiProofs!ErrorSafe` | `ErrorOfTheGrid`: the errors rank 0 prints are those of every row once, after the rounds every rank has done |
| `JacobiProofs!Implements` | `KeepsPromise`: the ranks implement `JacobiSweeps` |
| `BenchmarkProofs!Inductive` | the inductive invariant of the halo exchange, type correctness included |
| `BenchmarkProofs!Matching` | `MatchedAsMeant` |
| `BenchmarkProofs!Apart` | `ReceivesApart` |
| `BenchmarkProofs!Printing` | `PrintedWhenFinished` |
| `UenvConfigProofs!Inductive` | the inductive invariant of pipeline and loader, type correctness included |
| `UenvConfigProofs!Backed` | `EnvironmentsBacked` |
| `UenvConfigProofs!Accepted` | `AcceptedLoads` |
| `UenvConfigProofs!Hidden` | `NothingHidden` |
| `ReporterProofs!Inductive` | the inductive invariant of generator, runs and table, type correctness included |
| `ReporterProofs!Cells` | `CellsTrue` |
| `ReporterProofs!Totals` | `TotalsRight` |
| `ReporterProofs!Eligible` | `EligibleMeansDeployed`, for recipes the run does not pass over |
| `BuildConfigProofs!Inductive` | the inductive invariant of `build_config`, type correctness included |
| `BuildConfigProofs!NothingLost` | `NoModuleLost` |
| `BuildConfigProofs!Served` | `ReservationsServed` |
| `ChecksProofs!PassProved`, `FailProved` | `PassMeansPlaced`, `FailMeansMisplaced`, on a uniform node (below) |
| `ChecksProofs!FaultsProved` | `FaultFound`, for any of the checks, on any systems |
| `ChecksProofs!UnsetProved` | `NothingUnset`, if it is so of each case by itself |
| `ChecksProofs!RowsProved` | `ReferencedRuns`, if it is so of each case by itself |
| `ChecksProofs!KeepsProved` | `NothingLost`, if it is so of the hooks of each class in their order |

*The argument for the detection.* None of the properties is inductive. `CwdRestored` needs `CwdInv` (the process is in `TMP_DIR`
only while some coroutine is suspended inside its `with`), which needs `SuspendInv` and, to conclude at the end, `MainInv`
(finished only when all coroutines are done). `TmpDirKept` needs `JobAgeInv` and `TmpInv` (whoever wrote a script or started a job
has set `_keep_tmp_dir` first) and that the directory is removed only after every coroutine has started: this is where the order
of asyncio's ready queue (`AllStarted`) enters. `OnePartitionPerType` needs `PartitionInv`. `ControlInv` collects the first;
`TypeOK /\ ControlInv` is inductive, and `PartitionInv` is inductive relative to it. The proof has one step per action, and the
operators used by several actions (`Submit`, `Conclude`, `AfterAttempt`) have lemmas of their own.

`NameInv` bounds every name given so far by the counter `pn`, so that the next one is new; it needs that the user does not choose
names (`DefaultNames`: no user, or no names to choose). `JobInv` says that a job its coroutine has given up has ended or has been
told to stop, and gives `NoOrphanJob`, which needs that the coroutine hears of the end of its job (`Follows`: `-W`, and no first
line that is taken for an error), and with `NameInv` `OneWriter`. `FileInv` says that scripts, jobs and outputs belong to the
coroutine they are named after, and gives `ReadsOwnJob`; what `Eligible` says of the node gives `DetectedOnOwnTypeIfHomogeneous`.
For the refinement, every step of `RemoteDetect` is mapped to a step that settles one type, to completion, to failure, or to a
stutter; `RaiseInv` says why a coroutine may have raised, which is what the promise asks of a failure.

*The argument for the burn.* `CounterInv` (`startUpCounter` is the number of threads past their warm-up) makes the predicate of
`launch` mean that all are; `SwitchInv` says that nobody burns, nor is `burn` set, before `launch` has passed that predicate;
`TrackerInv` ties the tracker to the history of what was logged.

*The argument for FirecREST.* `PollInv`: a poll is about jobs that `wait` has not finished with. `IdInv`: the process knows the
ids of the submissions that were answered and no other, each under its test and step, and steps are submitted in order. `EndInv`:
what the process takes for ended has ended – it rests on Slurm never bringing a job back (`JobsStayEnded`) – so that all jobs but
the current one have; with `IdInv` this is `OnlyCurrentJob`. `FileInv`: in a directory cleaned by the session, with every
submission answered, each output is of the job filed under its step, and whole once that job has completed; the local copy has
only outputs of ended jobs, which is why staging the run over the compilation's directory takes nothing back. `FileInv` with
`EndInv` gives `ResultIsOwn`. The hypotheses in `ResultIsOwn` (`dirty`, `LostTests`) are those of `FileInv`; TLC agrees with the
whole invariant on the instance of `firecrest`.

*The argument for Jacobi.* First the arithmetic: rank `r` owns the rows from `First(r) + 1` to `First(r + 1)`, with `First(r)` the
quotient of `r * (Rows - 2)` by the number of ranks, so that the owners divide the interior and every rank has a row. Then three
invariants tie a rank's state to `rounds`, the number of reductions it has joined. `CountInv`: who has begun another round was not
to stop after the last, by the verdict all ranks see. `RowInv`: the rows a rank owns, the boundary rows, and the received rows it
does not wait for any longer, hold what the sweeps of the one grid give for its round. `ChanInv`: a link holds the rows of
exactly the sweeps its sender has sent and its receiver has not taken, in order – the number of messages in flight is the
difference of two round numbers, and a neighbour is at most one sweep ahead. `EndInv` is about the summary. For the refinement, the
grid of `JacobiSweeps` is read off the owners, and the last rank to join a reduction is the one whose step is the sweep.

*The argument for the halo exchange.* All messages have tag 1, so that the k-th receive of a pair takes its k-th message and what
has to be shown is that both ends ask for the same in the same order. The first lemmas are about the grid: a shift by one in a
periodic, row-major grid stays in it and is undone by the shift the other way (`Shifts`), for any dimensions, renumbered or not; so
rank `s` is a neighbour of `r` in a dimension exactly if `r` is one of `s`, on the opposite side (`Mirrored`). Each request has a
*slot*: exchange, dimension, and which of the two when both are for one rank. `ScriptInv` says that the requests a rank has made
about another list, in order, the slots that the program wants up to where the rank is (`Wanted`); at both ends these are the same
slots up to some point, and two ordered lists of sets that begin alike agree position by position (`ListsAgree`), which is
`MatchedAsMeant`. `WaitedInv` (the receives of earlier exchanges have their messages) makes what is in flight a part of one
exchange, where different requests have different places (`ReceivesApart`). `LineInv` and `CallInv` say that all ranks are on one
grid and that who has left its exchanges has done all; with lists of one set having one length, that is `PrintedWhenFinished`. TLC
agrees with the whole invariant on the instance of `halo`.

*The argument for uenvs.* Of the three properties only `EnvironmentsBacked` comes near to being inductive: it needs `TurnInv`, that
an image whose metadata is read has been seen with a size or is a path. `AcceptInv` says what may have become of an image the
pipeline has accepted: it is ready, it is gone, or it is being pulled by another job; each look of the loader that ends in an error
then finds one of the last two, and `RaisedInv` keeps the cause while other jobs go on, which is `AcceptedLoads`. `LoadedInv` says
that the identifiers behind the loader were skipped or have left all their environments, in order. With `MergedInv` and the lemmas
about `Environs` (`AllValid`: no environment of a list given by hand or by the pipeline is filtered out; `EnvironsAre`) it gives
`NothingHidden`. TLC agrees with the whole invariant on the instance of `uenv`.

*The argument for the reporter.* `CollectedInv` ties what the orchestrator accumulates over its loop to the outputs of the single
runs: `all_results` is their union, and `processed` has the targets whose runs did not fail. `ReportInv` says that the report is
the table of the final state, so that `CellsTrue` is about grouping tests by name and targets by label, and `TotalsRight` about
counting pairs: where labels differ, the ticks of a column are in bijection with the rows of its one target, and mapping tests to
rows never adds any. `EligibleMeansDeployed` goes through all the steps from an image to a tick, while images come and go: an
inventory only has images that have been deployed, and has those that always were on the systems it is about (`GeneratedInv`);
what a run finds is in its inventory, unless it takes an answer for no images and so passes over all recipes (`FoundInv`); and
with lemmas about the loader (`EnvironsAre`, `LoadedIs`, `DescribedIs`) a run lists the tests of what it found and no others
(`DueInv`). TLC agrees with the invariants on the instance of `reporter`.

*The argument for build_config.* `ListInv` says of each module of the list which request it stands for: the requests increase
along the list, each is there under the name last given for it or was given up, and those given up in this round are at the
positions noted for removal. The pops keep the other positions in order (`AtOrdered`, an order-preserving map onto them, and
`WithoutIs`), and with them the requests not given up (`PopsKeep`). `modules_ok` counts positions of this round that hold modules
of the machine, so that when it reaches the number of those kept it has counted all of them (`AllGood`): no unknown name is
left. `ServedInv` says that the reservation partitions are the existing ones among the requested reservations handled so far;
handling the next adds it (`AtNext`) exactly if a partition is appended (`AtAppended`), an unknown one included, which changes
neither. The remote partitions are whatever `PartitionDetection` allows. TLC agrees with the whole invariant on the instance of
`build`.

*The argument for the affinity tests.* The code judges a line by the CPUs that are left; the placement is about all lines at once.
`AffinityInv` has one part per way of consuming. Where sets are consumed (`SetsSeen`, `NodesSeen`), the CPUs that are gone are
those of the places that host a line, so that a line that takes from one of them would be the second there, and none are left
exactly if each place has one; that each place has room is a count (`ThreadsSeen`) where a socket takes several lines. Where
sockets are filled by tasks, the CPUs of a socket seen so far are the cores of the lines dealt to it (`FilledIn`): consecutive
blocks of lines, by division (`BlockNext`, `BlocksTogether`), or every n-th line, by remainder (`TurnNext`). There a socket is
full when the lines dealt to it are as many as its cores, which takes a *uniform* node: cores of one size, sockets of one size
(`Regular`). Without this `PassMeansPlaced` is false (section 6), so that the theorems say `Uniform => ...`; the hypothesis is
only asked of the two tests concerned. TLC agrees with the whole invariant on the instance of `checks`.

*The argument for the integration checks.* The factory makes checks of six forms, and the three named as blind (`ShapesMade`).
When `validate` runs, the output is what the command has written, and the tool hangs only under `timeout` (`ChecksInv`). For each
form, to find or not to find the pattern then decides what the machine has; a missing tool is the exception the property names.

*The argument for the tests.* `TestsInv` says that what a case holds at a step is `HeldAt`: what the steps behind it have left,
and the facts of its partition and environment from `setup` on, whatever other cases do. A case starts only when those it uses
have passed, and these hold then all that their programs leave; a hook that is loaded reads no other test (`Described`). So what
is missing for a hook when it raises is `Lacks`, a constant of the session (`MissingIs`), also later, when the other cases have
gone on. Each property then follows from the same statement about single cases: `Informed`, `HasRows` and `KeepsAll` of
`CaseByCase`. These are the hypotheses of the theorems; they are about the classes, not about behaviours, and contain no
assumption that a session goes well. `CatalogueCaseByCase` in `MCChecks` asks them of all sessions of the catalogue, and they
hold: as an `ASSUME` of a module that extends `MCChecks` TLC evaluates it in six seconds, also with `MaxEnvirons = 9`, which is
every set of environments there is; `checks` explores the behaviours for two. It is not an assumption of `MCChecks` because it is
false for the mutated classes under which the properties are to fail.

*Only model-checked.* Liveness (`Terminates`, `ResultsPrinted`, `BurnersStop`, `SessionEnds`, `SummaryPrinted`,
`EveryLinePrinted`): fairness and `ENABLED` are out of the prover's reach. All other
properties of the runs are theorems. The library's induction theorems take an operator as a
parameter, which the provers at hand cannot instantiate. What needs induction is proved from the well-foundedness of `<` on the
naturals instead (`NatMin`, `NatSetInduction`): that the recursive functions of `Product` and `At` exist, that the former divides
into blocks, that a sequence of numbers has a largest, what `ValidNames` and `At` collect, how many
cores of one size a set of CPUs has. No module uses RECURSIVE.

## 6. What is left out, and where the code disagrees with its text

### Left out of the modelled parts

The text of scripts and output files and its parsing, the questions that do not change control, status bars, checks that only
print warnings, signals. Two partitions given one name by the user: the code accepts them, and `NamesUnique` and what rests on it
are stated for default names. In `GpuBurn`: exceptions of the GPU runtime, which end the process. Of the tests: values, units and
patterns (section 2.10).

### Disagreements seen while modelling

Only the one of `burn_join` is a run. The others are here because a sentence settles them, and because most of the properties
would otherwise need an exception that hides something else.

*Configuration.* A first line of `sbatch`'s output that is empty or holds "error" is a failed submission, although the job may
have been accepted (`config/utilities/job_util.py:750`): the second attempt then writes the same output file while the first job
may still run, and nobody cancels that job. `OneWriter`, `NoOrphanJob`, `ReadsOwnJob` and `DetectedOnOwnTypeIfHomogeneous` are
stated without such lines (`ErrorLine = {}`). The access options stored for a partition are the first ones, also when only the
second attempt worked (`config/utilities/job_util.py:812`, `829`). The second attempt drops `--access` (`config/README.md:44`).
Without `-W`, job ids are not recorded for polling (`job_util.py:158`, `775`). A relative `--prefix` fails in the second
coroutine, which is in `TMP_DIR` already (`config/README.md:43`). With two node types in one Slurm partition, a partition may be
filled from the wrong one (`config/README.md:54`). Without a detection job, the bare features are stored as access options
(`job_util.py:481`, `552`). `grep` with `check=True` raises on a cluster without the line looked for (`job_util.py:346`).
`cscs.py:73` says that environments are replaced; they are appended.

*Reporter.* Extra arguments of the command line are dropped (`reframe_reporter/cli.py:53`). The raw output that the docstring of
the orchestrator promises is not kept (`orchestrator.py:198`). A recipe or an answer of `uenv` that cannot be read leaves crosses
in the table without any sign of it (`uenv.py:153-163`, `244-249`): the message goes to the output of `reframe`, which is parsed
only. `any_failures` is computed and never read: the exit status is success.

*Burn, Jacobi.* The boundary of the old grid is not initialised (`_jacobi.cc:6`, `52`), hence the second field of a row in
`JacobiSweeps`.

*Affinity.* `ConsecutiveSocketFilling` promises an order it does not look at (`affinity_check.py:446`, `462`, `489`). On a node
with sockets of different sizes it may pass a wrong placement: lines are taken in blocks of equal length, and a block
is compared with a socket only if their sizes agree (`SocketMixed`). With the sockets `{0}` and `{1, 2, 3}` TLC finds an output
that passes and puts tasks of one block on two sockets. No configured system has such a node, hence `Uniform` in the theorems.

*Integration checks.* `where` is ignored when systems are named, and one branch makes a check valid everywhere that is then always
skipped (`utils.py:203`, `80`). The checks for a full file system and for timeouts that complete cannot fail; the one for LDAP
looks on stdout for a message that `timeout` writes to stderr. A check that something is absent passes when the tool that would
show it is missing.

*Tests.* An option is lost where a class assigns a list that its base class or plugin adds to: `MPICH_RDMA_ENABLED_CUDA` of
`osu_pt2pt_check`, `PMIX_MCA` of `SphExa_CE` and `SphExa_Skybox`. A dictionary has one key twice (`vasp_check_uenv.py:14-23`); the
references of `osu_collective_check` are under a key that no run reads. Hooks raise where their table has no row for the
microarchitecture (CP2K, NAMD, Quantum ESPRESSO, SIRIUS, VASP, LAMMPS, GROMACS, Arbor, DLA-Future outside of the ones listed, and
anywhere on eiger before ReFrame knows the processor): "row" in `FromOutside`. They raise where a class valid on `+uenv` reads GPU
devices of a CPU partition (`ParallelAlgos`, the C++ builds of Ascent): "devices". They raise where they read a topology that is
not known yet (Megatron-LM, all-reduce, node burn on bare metal before it decides to skip, fio, MLPerf's data generation):
"procinfo". `MemoryOomMpiCheck` reads `cn_memory`, which balfrin and tasna do not set. The workaround of CP2K skips after the
table was consulted. The all-reduce test needs the container engine and does not say so. `dlaf` appends to `valid_systems` of its
base. `version_from_uenv` takes the first version of the whole list, also for an environment of another uenv
(`quantumespresso_check_uenv.py:96`, `cp2k_uenv.py:115`), and None makes the hook of `Cp2kCheckPBE_UENV` raise
(`cp2k_uenv.py:372-382`): versions are values, and that sources and build are of the version of the environment is not stated.
`SARUS_sirius_scf_check` raises unless the user names an image (`sirius_check.py:152-161`). MLPerf's clean-up is run only after
success. `SlurmQueueStatusCheck` divides by the number of matches.

### Not modelled

* The notifications and metrics of `ci/` and `utility/`: calls of services and shell glue around them, without state.
* Vendored and third-party sources that the tests compile; the Fortran and CUDA variants of the Jacobi solver, which repeat the
  exchange of the C program in another language or put its sweep in a kernel.
* HTML and Markdown layout, and the single mode of the reporter.
* Tests that are valid nowhere, because their systems or environments are no longer in `config/`, or because `valid_systems` is
  empty: pointer chase, memory bandwidth, shared memory, kernel latency, the DGEMM tests, roofline, STRIDES, NSIMD, latency, FFTW,
  likwid, HPCG, HPL, the ReFrame test of the halo exchange, IOR, GridTools, MAGMA, the older CDO and NCO tests, the tests that
  only compile HDF5 and NetCDF, ScaLAPACK, Trilinos, PETSc, Boost, OpenGL, LibSci, JupyterHub, the GPU report, the older
  programming environment checks, `ulimit`, the CUDA memory test, CUDA Fortran, heterogeneous jobs, and parts of `slurm.py` (lines
  73–110 and 149–182).
* The mutual effects of tests that run at the same time on one node or file system: ReFrame gives each its own stage directory.

## 7. What could come next

1. An abstract specification of a remote job (a result is pulled after its job ended, and is its own) refined by
   `FirecrestScheduler`, and the detection job that it downloads file by file.
2. The hypotheses of `CaseByCase` from syntactic conditions on the classes a test is put together from, so that a new plugin can be
   judged without the catalogue.
