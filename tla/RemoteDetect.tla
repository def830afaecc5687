----------------------------- MODULE RemoteDetect -----------------------------
(***************************************************************************)
(* Detection of the remote partitions: SlurmContext.create_partitions runs *)
(* one coroutine per node type (create_remote_partition) on one event      *)
(* loop.  A coroutine submits a detection job, with a second attempt, and  *)
(* reads what the job found in the job's output file; the coroutines share *)
(* the temporary directory, the working directory of the process, the      *)
(* partition counter and the list of partitions.                           *)
(*                                                                         *)
(* A coroutine runs alone from one await to the next: every action of the  *)
(* form X(t) below is one such stretch of code.  Slurm and the sbatch      *)
(* processes run on their own.                                             *)
(***************************************************************************)
EXTENDS SlurmCluster, Sequences

CONSTANTS
    UserInput,         \* interactive mode (no --auto)
    UserNames,         \* names, besides the default, the user may give a partition
    DetectContainers,  \* no --no-remote-containers
    DetectDevices,     \* no --no-remote-devices
    CompulsoryOptions, \* --access was given
    Wait,              \* build_config's wait: sbatch -W
    RelativePrefix,    \* TMP_DIR is a relative path (relative --prefix, Python < 3.12)
    Banner,            \* sbatch may print another line before the job id
    ErrorLine,         \* types for which this line may be empty, or hold 'error'
    CommandsFail       \* scontrol and scancel may fail (check=True raises)

ASSUME DetectAssumption ==
    /\ UserInput \in BOOLEAN /\ DetectContainers \in BOOLEAN
    /\ DetectDevices \in BOOLEAN /\ CompulsoryOptions \in BOOLEAN
    /\ Wait \in BOOLEAN /\ RelativePrefix \in BOOLEAN
    /\ Banner \in BOOLEAN /\ ErrorLine \subseteq NodeTypes /\ CommandsFail \in BOOLEAN
    /\ UserNames \subseteq Nat

VARIABLES
    pc,         \* type -> where its coroutine is suspended
    attempt,    \* type -> the submission it is at (0: none yet)
    name,       \* type -> the partition's name (partition_n, or the user's)
    access,     \* type -> access_options
    idSeen,     \* type -> the first line of sbatch's output held the job id
    pn,         \* _p_n, the partition counter
    keepTmp,    \* _keep_tmp_dir
    tmpDir,     \* TMP_DIR is there
    cwd,        \* working directory of the process
    scripts,    \* the autodetection_<name>.sh files
    outputs,    \* the config_autodetection_<name>.out files
    job,        \* type -> attempt -> the sbatch process and its job
    partitions, \* the partitions created, in order of completion
    jobPoll,    \* _job_poll
    main        \* where create_partitions is

vars == <<pc, attempt, name, access, idSeen, pn, keepTmp, tmpDir, cwd, scripts,
          outputs, job, partitions, jobPoll, main>>

files  == <<scripts, outputs>>
shared == <<pn, keepTmp, tmpDir, cwd, jobPoll>>

-----------------------------------------------------------------------------
Options == {"account", "access", "user", "constraint", "part", "bare", "empty"}

JobStates == {"none", "spawned", "rejected", "pending", "cancelling",
              "completed", "failed", "cancelled"}

Attempts == 1..2

Jobs == [st : JobStates, type : NodeTypes \cup {{}}, opts : SUBSET Options]

Scripts == [name : Nat, type : NodeTypes, opts : SUBSET Options]

Outputs == [name : Nat, type : NodeTypes, attempt : Attempts, node : Nodes]

Partitions == [type : NodeTypes, name : Nat, access : SUBSET Options, from : SUBSET Nodes]

NoJob == [st |-> "none", type |-> {}, opts |-> {}]

SetState(jobs, t, a, st) == [jobs EXCEPT ![t][a].st = st]

\* The job may still run, and write its output file.
Live(j) == j.st \in {"spawned", "pending", "cancelling"}

LoopRuns == main \notin {"finished", "failed"}

\* The first stretch of every coroutine is in the loop's ready queue before
\* any of them can be resumed by the output of a process.
AllStarted == \A t \in NodeTypes : pc[t] # "ready"

Suspended(t) == pc[t] \in {"reading", "waiting"}

CreatedBy(t) == {i \in DOMAIN partitions : partitions[i].type = t}

\* Replace the file called r.name.
Overwrite(fs, r) == {f \in fs : f.name # r.name} \cup {r}

BaseOptions ==
    {"account"} \cup (IF CompulsoryOptions THEN {"access"} ELSE {})

\* Mutated Constraint: never asked for.
NoConstraint(t) == {}

Constraint(t) == IF NeedsConstraint(t) THEN {"constraint"} ELSE {}

HasAccessPartition(t) == AccessPartition(t) # NoPartition

-----------------------------------------------------------------------------
Init ==
    /\ pc = [t \in NodeTypes |-> "ready"]
    /\ attempt = [t \in NodeTypes |-> 0]
    /\ name = [t \in NodeTypes |-> 0]
    /\ access = [t \in NodeTypes |-> {}]
    /\ idSeen = [t \in NodeTypes |-> FALSE]
    /\ pn = 0
    /\ keepTmp = FALSE
    /\ tmpDir = TRUE
    /\ cwd = "wdir"
    /\ scripts = {}
    /\ outputs = {}
    /\ job = [t \in NodeTypes |-> [a \in Attempts |-> NoJob]]
    /\ partitions = <<>>
    /\ jobPoll = {}
    /\ main = "waiting"

-----------------------------------------------------------------------------
(* Stretches shared by several points of a coroutine. *)

\* os.chdir(TMP_DIR) works: the path is absolute, or resolved from WDIR.
TmpReachable == ~RelativePrefix \/ cwd = "wdir"

\* _prepare_job, then _submit_job up to the first readline: the process is
\* left in TMP_DIR while the coroutine is suspended.
Submit(t, a, nm, opts, jobs) ==
    /\ scripts' = Overwrite(scripts, [name |-> nm, type |-> t, opts |-> opts])
    /\ job' = SetState(jobs, t, a, "spawned")
    /\ attempt' = [attempt EXCEPT ![t] = a]
    /\ pc' = [pc EXCEPT ![t] = "reading"]
    /\ cwd' = "tmp"

AppendPartition(t, nm, opts, from) ==
    /\ partitions' = Append(partitions, [type |-> t, name |-> nm,
                                         access |-> opts, from |-> from])
    /\ pc' = [pc EXCEPT ![t] = "done"]

\* Mutated LeaveTmpDir: no chdir back.
LeaveTmpDirNot == UNCHANGED cwd

\* Leaving "with change_dir(...)", normally or by an exception.
LeaveTmpDir == cwd' = "wdir"

Raise(t) == pc' = [pc EXCEPT ![t] = "raised"]

\* The end of job_submission (with _extract_info) and of
\* create_remote_partition.  "from" is the set of nodes described by the
\* output file that was read: empty when none was.
Conclude(t, opts, executed, cancelled) ==
    LET final == IF executed \/ cancelled THEN opts ELSE opts \cup Constraint(t)
        read  == IF executed /\ Wait
                 THEN {f \in outputs : f.name = name[t]} ELSE {}
    IN  /\ access' = [access EXCEPT ![t] = final]
        /\ jobPoll' = IF executed /\ ~Wait THEN jobPoll \cup {<<t, attempt[t]>>} ELSE jobPoll
        /\ IF executed /\ Wait /\ read = {}
           THEN Raise(t) /\ UNCHANGED partitions
           ELSE AppendPartition(t, name[t], final, {f.node : f \in read})
        /\ LeaveTmpDir
        /\ UNCHANGED <<attempt, scripts>>

\* Mutated MayRetry: access_partition kept after a cancellation.
MayRetryAfterCancel(t, executed, cancelled) ==
    attempt[t] = 1 /\ HasAccessPartition(t) /\ ~(executed /\ NeedsConstraint(t))

\* The first attempt is followed by one with the partition alone, unless it
\* took too long (access_partition is then emptied).
MayRetry(t, executed, cancelled) ==
    /\ attempt[t] = 1
    /\ HasAccessPartition(t)
    /\ ~cancelled
    /\ ~(executed /\ NeedsConstraint(t))

\* What the attempt adds to access_options.
Learned(t, executed, cancelled) ==
    IF attempt[t] = 1
    THEN IF cancelled THEN {"empty"} ELSE IF executed THEN Constraint(t) ELSE {}
    ELSE IF executed \/ cancelled THEN {"part"} ELSE {}

\* What job_submission does with the result of _submit_job.  "jobs" are the
\* jobs once the one that took too long was cancelled.
AfterAttempt(t, executed, cancelled, jobs) ==
    /\ \/ /\ MayRetry(t, executed, cancelled)
          /\ Submit(t, attempt[t] + 1, name[t], {"part"}, jobs)
          /\ UNCHANGED <<access, partitions, jobPoll>>
       \/ /\ ~MayRetry(t, executed, cancelled)
          /\ Conclude(t, access[t] \cup Learned(t, executed, cancelled), executed, cancelled)
          /\ job' = jobs
    /\ UNCHANGED <<name, pn, keepTmp, tmpDir, outputs, main>>

-----------------------------------------------------------------------------
(* create_remote_partition up to its first await. *)

\* Mutated NameChoices: numbered by the partitions already created.
NamesByCompletion == {Len(partitions) + 1}

\* The answers of the user, or the defaults of the auto mode.
NameChoices == {pn + 1} \cup (IF UserInput THEN UserNames ELSE {})

ExtraChoices == IF UserInput THEN {{}, {"user"}} ELSE {{}}

ContainerChoices == IF UserInput THEN BOOLEAN ELSE {DetectContainers}

DevicesFound(t) == DetectDevices /\ FindDevices(t) > 0

\* "Do you want to create a partition ...?" answered no.
Decline(t) ==
    /\ LoopRuns /\ pc[t] = "ready" /\ UserInput
    /\ pc' = [pc EXCEPT ![t] = "done"]
    /\ UNCHANGED <<attempt, name, access, idSeen, files, job, partitions, shared, main>>

Begin(t) ==
    /\ LoopRuns /\ pc[t] = "ready"
    /\ \E nm \in NameChoices, extra \in ExtraChoices, containers \in ContainerChoices :
        LET opts   == BaseOptions \cup extra
            detect == containers \/ DevicesFound(t)
            bare   == IF NeedsConstraint(t) THEN {"bare"} ELSE {}
        IN  /\ pn' = pn + 1
            /\ name' = [name EXCEPT ![t] = nm]
            /\ keepTmp' = (keepTmp \/ detect)
            /\ access' = [access EXCEPT ![t] = IF detect THEN opts ELSE opts \cup bare]
            /\ \/ /\ ~detect
                  /\ AppendPartition(t, nm, opts \cup bare, {})
                  /\ UNCHANGED <<attempt, scripts, job, cwd>>
               \/ /\ detect /\ TmpReachable
                  /\ Submit(t, 1, nm, opts \cup Constraint(t), job)
                  /\ UNCHANGED partitions
               \/ /\ detect /\ ~TmpReachable
                  /\ Raise(t)
                  /\ LeaveTmpDir
                  /\ UNCHANGED <<attempt, scripts, job, partitions>>
    /\ UNCHANGED <<idSeen, tmpDir, outputs, jobPoll, main>>

\* scontrol fails: in _find_devices, before _keep_tmp_dir is set, or in
\* _get_access_partition, after it.
BeginFails(t) ==
    /\ LoopRuns /\ pc[t] = "ready" /\ CommandsFail
    /\ pn' = pn + 1
    /\ \/ DetectDevices /\ UNCHANGED keepTmp
       \/ (DetectContainers \/ UserInput \/ DevicesFound(t)) /\ keepTmp' = TRUE
    /\ Raise(t)
    /\ UNCHANGED <<attempt, name, access, idSeen, files, job, partitions, tmpDir,
                   cwd, jobPoll, main>>

-----------------------------------------------------------------------------
(* The rest of a coroutine: _submit_job resumed, and what follows it. *)

\* "await completed.stdout.readline()" returns.  Nothing on stdout, or a first
\* line that is empty or holds 'error': return False, whatever sbatch does or
\* has done.  Otherwise the coroutine goes on to wait for the process.
ReadLine(t) ==
    /\ LoopRuns /\ AllStarted /\ pc[t] = "reading"
    /\ \/ /\ job[t][attempt[t]].st = "rejected" \/ t \in ErrorLine
          /\ AfterAttempt(t, FALSE, FALSE, job)
          /\ UNCHANGED idSeen
       \/ /\ job[t][attempt[t]].st # "spawned"
          /\ job[t][attempt[t]].st # "rejected" \/ Banner
          /\ \E seen \in IF Banner THEN BOOLEAN ELSE {TRUE} :
                /\ seen => job[t][attempt[t]].st # "rejected"
                /\ idSeen' = [idSeen EXCEPT ![t] = seen]
          /\ pc' = [pc EXCEPT ![t] = "waiting"]
          /\ UNCHANGED <<attempt, name, access, files, job, partitions, shared, main>>

\* sbatch has exited: at submission, or with -W at the end of the job.
Exited(j) ==
    IF Wait THEN j.st \in {"rejected", "completed", "failed", "cancelled"}
            ELSE j.st # "spawned"

\* Mutated ReturnsZero: the exit code of the job is not looked at.
IgnoresExitCode(j) == IF Wait THEN j.st \in {"completed", "failed"} ELSE j.st # "rejected"

ReturnsZero(j) == IF Wait THEN j.st = "completed" ELSE j.st # "rejected"

\* "await asyncio.wait_for(completed.communicate(), ...)" returns.  Without
\* -W the job id is searched for in what is left of stdout after the first
\* line: it is not there when the first line held it.
Communicate(t) ==
    LET j == job[t][attempt[t]]
    IN  /\ LoopRuns /\ AllStarted /\ pc[t] = "waiting" /\ Exited(j)
        /\ AfterAttempt(t, ReturnsZero(j) /\ (Wait \/ ~idSeen[t]), FALSE, job)
        /\ UNCHANGED idSeen

\* Mutated ScancelJob: the late job is left in the queue.
ScancelNothing(t) == job

\* scancel, a request Slurm serves later.
ScancelJob(t) ==
    IF job[t][attempt[t]].st = "pending"
    THEN SetState(job, t, attempt[t], "cancelling") ELSE job

\* Mutated Timeout: wait_for without a timeout.
NoTimeout(t) == FALSE

\* TIME_OUT_POLICY has elapsed and communicate() has not returned: scancel
\* of the job whose id was read.  "scancel None" fails, and raises.
Timeout(t) ==
    /\ LoopRuns /\ AllStarted /\ pc[t] = "waiting"
    /\ \/ /\ idSeen[t]
          /\ AfterAttempt(t, FALSE, TRUE, ScancelJob(t))
       \/ /\ ~idSeen[t] \/ CommandsFail
          /\ Raise(t)
          /\ LeaveTmpDir
          /\ UNCHANGED <<attempt, name, access, files, job, partitions, pn, keepTmp,
                         tmpDir, jobPoll, main>>
    /\ UNCHANGED idSeen

-----------------------------------------------------------------------------
(* Slurm and the sbatch processes. *)

local == <<pc, attempt, name, access, idSeen, pn, keepTmp, tmpDir, cwd, scripts,
           partitions, jobPoll, main>>

\* sbatch reads the script and submits the job, unless Slurm refuses the
\* options or no node satisfies them.
SbatchAccepts(t, a) ==
    /\ job[t][a].st = "spawned"
    /\ \E f \in scripts :
        /\ f.name = name[t]
        /\ Eligible(f.type, f.opts) # {}
        /\ job' = [job EXCEPT ![t][a] = [st |-> "pending", type |-> f.type, opts |-> f.opts]]
    /\ UNCHANGED <<local, outputs>>

SbatchRejects(t, a) ==
    /\ job[t][a].st = "spawned"
    /\ job' = SetState(job, t, a, "rejected")
    /\ UNCHANGED <<local, outputs>>

\* The job runs on one of its nodes, to the end, and leaves its output file.
JobRuns(t, a) ==
    /\ job[t][a].st \in {"pending", "cancelling"}
    /\ \E n \in Eligible(job[t][a].type, job[t][a].opts), end \in {"completed", "failed"} :
        /\ job' = SetState(job, t, a, end)
        /\ outputs' = Overwrite(outputs, [name |-> name[t], type |-> t,
                                          attempt |-> a, node |-> n])
    /\ UNCHANGED local

JobCancelled(t, a) ==
    /\ job[t][a].st = "cancelling"
    /\ job' = SetState(job, t, a, "cancelled")
    /\ UNCHANGED <<local, outputs>>

-----------------------------------------------------------------------------
(* create_partitions. *)

\* Mutated GatherDone: the first coroutine to end ends the wait.
GatherFirst == \E t \in NodeTypes : pc[t] \in {"done", "raised"}

\* The future of asyncio.gather: all results, or the first exception.
GatherDone ==
    \/ \A t \in NodeTypes : pc[t] = "done"
    \/ AllStarted /\ \E t \in NodeTypes : pc[t] = "raised"

Outcome == IF \E t \in NodeTypes : pc[t] = "raised" THEN "failed" ELSE "finished"

\* The sleep is over before the coroutines are.
StartStatusBar ==
    /\ main = "waiting" /\ AllStarted /\ ~GatherDone
    /\ main' = "bar"
    /\ UNCHANGED <<pc, attempt, name, access, idSeen, files, job, partitions, shared>>

\* Mutated KeepsTmpDir: removed when no partition was created.
KeepsTmpDirOnSuccess == partitions # <<>>

KeepsTmpDir == keepTmp

\* "await all_partitions" returns or raises: the finally block.  When the
\* status bar runs, it is cancelled and awaited: the loop goes on.
Finally ==
    /\ main \in {"waiting", "bar"} /\ GatherDone
    /\ tmpDir' = KeepsTmpDir
    /\ main' = IF main = "bar" THEN "cancelbar" ELSE Outcome
    /\ UNCHANGED <<pc, attempt, name, access, idSeen, files, job, partitions, pn,
                   keepTmp, cwd, jobPoll>>

StatusBarCancelled ==
    /\ main = "cancelbar"
    /\ main' = Outcome
    /\ UNCHANGED <<pc, attempt, name, access, idSeen, files, job, partitions, shared>>

\* The event loop is closed, and no job is left.
Terminated ==
    /\ ~LoopRuns
    /\ \A t \in NodeTypes, a \in Attempts : ~Live(job[t][a])
    /\ UNCHANGED vars

-----------------------------------------------------------------------------
Resume(t) == ReadLine(t) \/ Communicate(t) \/ Timeout(t)

Coroutine(t) == Decline(t) \/ Begin(t) \/ BeginFails(t) \/ Resume(t)

Sbatch(t, a) == SbatchAccepts(t, a) \/ SbatchRejects(t, a)

Slurm(t, a) == Sbatch(t, a) \/ JobRuns(t, a) \/ JobCancelled(t, a)

Main == StartStatusBar \/ Finally \/ StatusBarCancelled

Next ==
    \/ \E t \in NodeTypes : Coroutine(t)
    \/ \E t \in NodeTypes, a \in Attempts : Slurm(t, a)
    \/ Main
    \/ Terminated

(* The loop runs whatever is ready, sbatch answers, and 200 s pass.  Nothing *)
(* is assumed of the jobs: they may stay in the queue.                       *)
Fairness ==
    /\ \A t \in NodeTypes :
        /\ WF_vars(Decline(t) \/ Begin(t) \/ BeginFails(t))
        /\ WF_vars(ReadLine(t))
        /\ WF_vars(Communicate(t) \/ Timeout(t))
        /\ \A a \in Attempts : WF_vars(Sbatch(t, a))
    /\ WF_vars(Finally \/ StatusBarCancelled)

Spec == Init /\ [][Next]_vars

FairSpec == Spec /\ Fairness

-----------------------------------------------------------------------------
(* Properties. *)

\* The values each variable ranges over: the protocol state of the
\* coroutines, of Slurm and of create_partitions.
TypeOK ==
    /\ pc \in [NodeTypes -> {"ready", "reading", "waiting", "done", "raised"}]
    /\ attempt \in [NodeTypes -> 0..2]
    /\ name \in [NodeTypes -> Nat]
    /\ access \in [NodeTypes -> SUBSET Options]
    /\ idSeen \in [NodeTypes -> BOOLEAN]
    /\ pn \in Nat
    /\ keepTmp \in BOOLEAN /\ tmpDir \in BOOLEAN
    /\ cwd \in {"wdir", "tmp"}
    /\ scripts \subseteq Scripts
    /\ outputs \subseteq Outputs
    /\ job \in [NodeTypes -> [Attempts -> Jobs]]
    /\ partitions \in Seq(Partitions)
    /\ jobPoll \subseteq NodeTypes \X Attempts
    /\ main \in {"waiting", "bar", "cancelbar", "finished", "failed"}

\* The partitions of the configuration have different names, whatever the
\* order in which the coroutines that number them end (ReFrame refuses a
\* system with two partitions of one name).
NamesUnique ==
    \A i, j \in DOMAIN partitions :
        partitions[i].name = partitions[j].name => i = j

\* At most one job that may still run writes a given output file: a second
\* attempt never starts while the first job, late or being cancelled, is
\* still there, and no other coroutine uses the same file.
OneWriter ==
    \A t, u \in NodeTypes, a, b \in Attempts :
        (Live(job[t][a]) /\ Live(job[u][b]) /\ name[t] = name[u])
            => (t = u /\ a = b)

\* What a partition was filled with was written by the last job submitted
\* for it, which succeeded, and no later job has overwritten the file since.
ReadsOwnJob ==
    \A i \in DOMAIN partitions :
        LET t == partitions[i].type
        IN  partitions[i].from # {} =>
                /\ job[t][attempt[t]].st = "completed"
                /\ \E f \in outputs : /\ f.name = partitions[i].name
                                      /\ f.type = t /\ f.attempt = attempt[t]
                                      /\ partitions[i].from = {f.node}

\* On a homogeneous cluster the devices and containers of a partition come
\* from a node of the partition's own type, whichever attempt succeeded.
DetectedOnOwnType ==
    \A i \in DOMAIN partitions :
        partitions[i].from \subseteq NodesOfType(partitions[i].type)

DetectedOnOwnTypeIfHomogeneous == Homogeneous => DetectedOnOwnType

\* A node type never gets two partitions, and when create_partitions ends
\* normally in auto mode every node type has its partition.
OnePartitionPerType ==
    /\ \A t \in NodeTypes : Cardinality(CreatedBy(t)) <= 1
    /\ (main = "finished" /\ ~UserInput) => \A t \in NodeTypes : CreatedBy(t) # {}

\* Once the coroutines have all ended, in whatever order they entered and
\* left TMP_DIR, the process is back in the directory it was started from:
\* generate.py then looks for its template there, and writes the
\* configuration there.
CwdRestored == main = "finished" => cwd = "wdir"

\* TMP_DIR is not removed while it holds scripts and outputs or a job may
\* still write there, even when a coroutine raises before any job is submitted.
TmpDirKept ==
    (scripts # {} \/ \E t \in NodeTypes, a \in Attempts : Live(job[t][a])) => tmpDir

\* When create_partitions ends normally no job is left in the queue: each
\* has ended or was told to.
NoOrphanJob ==
    main = "finished" =>
        \A t \in NodeTypes, a \in Attempts : job[t][a].st \notin {"spawned", "pending"}

\* Whatever Slurm does with the jobs, the detection ends.
Terminates == <>(~LoopRuns)

-----------------------------------------------------------------------------
(* The inductive invariant behind these properties, in three parts: what   *)
(* holds under every option, what the end of "sbatch -W" adds, and         *)
(* what different partition names add to that.                             *)

AllDone == \A t \in NodeTypes : pc[t] = "done"

StartInv == \A t \in NodeTypes : pc[t] = "ready" => attempt[t] = 0 /\ name[t] = 0

SuspendInv ==
    \A t \in NodeTypes :
        /\ Suspended(t) => /\ attempt[t] \in Attempts /\ keepTmp
                           /\ job[t][attempt[t]].st # "none"
        /\ pc[t] = "waiting" => job[t][attempt[t]].st # "spawned"

JobAgeInv ==
    \A t \in NodeTypes, a \in Attempts :
        job[t][a].st # "none" => a <= attempt[t] /\ keepTmp

TmpInv ==
    /\ scripts # {} => keepTmp
    /\ ~tmpDir => ~keepTmp /\ AllStarted

CwdInv == cwd = "tmp" => \E t \in NodeTypes : Suspended(t)

MainInv ==
    /\ main = "cancelbar" => GatherDone
    /\ main = "finished" => AllDone

ControlInv ==
    StartInv /\ SuspendInv /\ JobAgeInv /\ TmpInv /\ CwdInv /\ MainInv

PartitionInv ==
    /\ \A i \in DOMAIN partitions :
            /\ pc[partitions[i].type] = "done"
            /\ partitions[i].name = name[partitions[i].type]
    /\ \A i, j \in DOMAIN partitions : partitions[i].type = partitions[j].type => i = j
    /\ \A t \in NodeTypes : (pc[t] = "done" /\ ~UserInput) => CreatedBy(t) # {}

\* A coroutine raises only because of a command, of a relative prefix, or of
\* a job id that was not read; the output file of a job that ran is there.
RaiseInv ==
    /\ \A t \in NodeTypes : pc[t] = "raised" => CommandsFail \/ RelativePrefix \/ Banner
    /\ \A t \in NodeTypes : (pc[t] = "waiting" /\ ~idSeen[t]) => Banner
    /\ \A t \in NodeTypes, a \in Attempts :
            job[t][a].st \in {"completed", "failed"} => \E f \in outputs : f.name = name[t]

\* A coroutine hears of the end of its job before it goes on.
Follows == Wait /\ ErrorLine = {}

\* With -W a job that was followed by another attempt, or by the end of its
\* coroutine, has ended or was cancelled.
JobInv ==
    \A t \in NodeTypes :
        /\ attempt[t] = 2 => ~Live(job[t][1])
        /\ pc[t] = "done" =>
                \A a \in Attempts : job[t][a].st \notin {"spawned", "pending"}

DefaultNames == ~UserInput \/ UserNames = {}

NameInv ==
    /\ \A t \in NodeTypes : name[t] <= pn
    /\ \A t \in NodeTypes : name[t] = 0 =>
            attempt[t] = 0 /\ \A i \in DOMAIN partitions : partitions[i].type # t
    /\ \A t, u \in NodeTypes : (name[t] = name[u] /\ name[t] # 0) => t = u

\* The options a detection job of type t is submitted with: the constraint the
\* type needs, or its partition.
GoodOptions(t, opts) ==
    \/ opts = {"part"} /\ HasAccessPartition(t)
    \/ Constraint(t) \subseteq opts /\ "part" \notin opts

\* Scripts, jobs and output files belong to the coroutine they are named after.
FileInv ==
    /\ \A f \in scripts : /\ f.name = name[f.type] /\ f.name # 0
                           /\ GoodOptions(f.type, f.opts)
    /\ \A t \in NodeTypes, a \in Attempts :
            job[t][a].st \in {"pending", "cancelling", "completed", "failed", "cancelled"}
                => job[t][a].type = t /\ GoodOptions(t, job[t][a].opts)
    /\ \A f \in outputs : /\ f.name = name[f.type] /\ f.name # 0
                           /\ \E opts \in SUBSET Options :
                                 GoodOptions(f.type, opts) /\ f.node \in Eligible(f.type, opts)
    /\ \A f, g \in outputs : f.name = g.name => f = g
    /\ \A t \in NodeTypes : \A a \in Attempts :
            (a = attempt[t] /\ job[t][a].st \in {"completed", "failed"}) =>
                \E f \in outputs : f.name = name[t] /\ f.type = t /\ f.attempt = a

IInv ==
    /\ TypeOK
    /\ ControlInv
    /\ PartitionInv
    /\ RaiseInv
    /\ Follows => JobInv
    /\ DefaultNames => NameInv
    /\ (Follows /\ DefaultNames) => FileInv /\ ReadsOwnJob /\ DetectedOnOwnTypeIfHomogeneous

-----------------------------------------------------------------------------
\* The detection implements its promise to build_config (PartitionDetection).
ResultOf(t) ==
    IF pc[t] # "done" THEN "open"
    ELSE IF CreatedBy(t) = {} THEN "skipped"
    ELSE IF \E i \in CreatedBy(t) : partitions[i].from # {} THEN "filled" ELSE "plain"

Promise == INSTANCE PartitionDetection WITH
    Types   <- NodeTypes,
    MaySkip <- UserInput,
    MayFail <- CommandsFail \/ RelativePrefix \/ Banner,
    result  <- [t \in NodeTypes |-> ResultOf(t)],
    phase   <- IF LoopRuns THEN "running" ELSE main

KeepsPromise == Promise!PromiseSpec
=============================================================================
